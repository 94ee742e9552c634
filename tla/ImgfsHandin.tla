----------------------------- MODULE ImgfsHandin -----------------------------
(***************************************************************************)
(* The library as it was first handed in (src/grading/project01/done) and  *)
(* the final one, in turn on one file.  The first had do_create, do_open,  *)
(* do_close, do_list and do_delete, which have not changed since, and      *)
(* lazily_resize, which nothing called yet but its tests: by itself, with  *)
(* a slot of the array.  It does not look at the result of its last write. *)
(* A process is built with one of the two.                                 *)
(*                                                                         *)
(* do_name_and_content_dedup is left out: it is the same in both, and the  *)
(* first version has no do_insert that would call it.                      *)
(***************************************************************************)
EXTENDS ImgfsSafety

VARIABLE build  \* the library that has the file open, or "none"

Handin == build = "handin"

-----------------------------------------------------------------------------
(* What has not changed *)

HandinCreate == build = "none" /\ Create

HandinOpen == build = "none" /\ Open

HandinClose == Handin /\ Close

HandinDelete(id) == Handin /\ DeleteCall(id)

\* There is no JSON mode yet.
HandinList == Handin /\ ListStdout

-----------------------------------------------------------------------------
(* lazily_resize(res, file, i) *)

\* It is told from a read by its session; its id is that of the slot.
Resize(i, res) == Read(metadata[i].img_id, res)

ResizeReturns(i, res, err) ==
  /\ Handin
  /\ is_open
  /\ reply' = Reply(Resize(i, res), err, NoImage)

ResizeOutOfBounds(i, res) ==
  /\ i >= header.nb_files
  /\ ResizeReturns(i, res, "ERR_INVALID_IMGID")
  /\ UNCHANGED <<memory, disk>>

\* An empty slot is no error.
ResizeNeedless(i, res) ==
  /\ i < header.nb_files
  /\ ~metadata[i].is_valid \/ res = ORIG_RES \/ metadata[i].size[res] > 0
  /\ ResizeReturns(i, res, "ERR_NONE")
  /\ UNCHANGED <<memory, disk>>

\* The derived image is to be made.
ResizeDue(i, res) ==
  /\ i < header.nb_files
  /\ metadata[i].is_valid
  /\ res # ORIG_RES
  /\ metadata[i].size[res] = 0

\* The original cannot be read or is no image, or the result cannot be appended.
ResizeFails(i, res) ==
  /\ ResizeDue(i, res)
  /\ \/ /\ Content(metadata[i], data, ORIG_RES) = NoImage
        /\ \E err \in {"ERR_IMGLIB", "ERR_IO"} : ResizeReturns(i, res, err)
     \/ "data" \in Faults /\ ResizeReturns(i, res, "ERR_IO")
     \/ /\ "read" \in Faults
        /\ \E err \in ReadErrors(i, res) : ResizeReturns(i, res, err)
  /\ UNCHANGED <<memory, disk>>

\* The entry is not written, and the image may not be either: the call returns 0
\* as if they were.
ResizeUnwritten(i, res) ==
  /\ "metadata" \in Faults
  /\ \/ AppendResized(i, res)
     \/ "late" \in Faults /\ UNCHANGED data
  /\ UNCHANGED disk_metadata

ResizeDone(i, res) ==
  /\ ResizeDue(i, res)
  /\ Content(metadata[i], data, ORIG_RES) # NoImage
  /\ ResizeReturns(i, res, "ERR_NONE")
  /\ metadata' = [metadata EXCEPT ![i] = ResizedEntry(i, res)]
  /\ \/ /\ AppendResized(i, res)
        /\ disk_metadata' = [disk_metadata EXCEPT ![i] = ResizedEntry(i, res)]
     \/ ResizeUnwritten(i, res)
  /\ UNCHANGED <<is_open, header, disk_header>>

-----------------------------------------------------------------------------
HandinCall ==
  \/ HandinCreate
  \/ HandinOpen
  \/ HandinClose
  \/ HandinList
  \/ \E id \in Ids : HandinDelete(id)
  \/ \E i \in Slots, res \in Res :
       \/ ResizeOutOfBounds(i, res)
       \/ ResizeNeedless(i, res)
       \/ ResizeFails(i, res)
       \/ ResizeDone(i, res)

\* A call of one library or the other.
BuildNext ==
  \/ /\ build # "handin"
     /\ Next
     /\ build' = IF is_open' THEN "final" ELSE "none"
  \/ /\ HandinCall
     /\ build' = IF is_open' THEN "handin" ELSE "none"

\* The last step is a resize whose entry has not reached the file.
Unwritten ==
  /\ Handin
  /\ reply'.call.call = "read" /\ reply'.err = "ERR_NONE"
  /\ metadata' # metadata /\ disk_metadata' = disk_metadata

=============================================================================
