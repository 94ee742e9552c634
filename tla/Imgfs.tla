-------------------------------- MODULE Imgfs --------------------------------
(***************************************************************************)
(* One process working on one imgFS file through struct imgfs_file: the    *)
(* header and the metadata array it holds in memory between do_open and    *)
(* do_close, and the file behind them.  Each action is one call of the     *)
(* library (imgfs_create.c, imgfs_tools.c, imgfs_insert.c, imgfs_read.c,   *)
(* imgfs_delete.c, imgfs_list.c) from its first check to its return.       *)
(*                                                                         *)
(* An access to the file may fail (a full disk, an I/O error) when its     *)
(* place is in Faults: "data" (appending an image), "metadata", "header"   *)
(* or "read", which stands also for the memory and for the work of libvips *)
(* or json-c that a read or a list takes.  A write that fails leaves the   *)
(* file as it was, except that a write of the whole array may get some     *)
(* slots down.  Writes are buffered by stdio: with "late" in Faults a      *)
(* write may also return success and be lost when the fseek() before the   *)
(* next write of the same call flushes it, which is then what fails.       *)
(***************************************************************************)
EXTENDS ImgfsIndex

CONSTANTS
  Faults,      \* the places where an access to the file may fail
  MaxBlobs     \* bound: images the data region of the file may hold

ASSUME FaultsAssumption ==
  Faults \subseteq {"data", "metadata", "header", "read", "late"}
ASSUME MaxBlobsAssumption == MaxBlobs \in Nat

VARIABLES
  is_open,        \* between do_open and do_close
  header,         \* imgfs_file.header
  metadata,       \* imgfs_file.metadata
  disk_header,    \* the header in the file
  disk_metadata,  \* the metadata array in the file
  data,           \* what has been appended behind the array
  reply           \* the last call and what it returned

memory == <<is_open, header, metadata>>
disk   == <<disk_header, disk_metadata, data>>
vars   == <<is_open, header, metadata, disk_header, disk_metadata, data, reply>>

-----------------------------------------------------------------------------
Calls  == {"none", "create", "insert", "delete", "read", "list"}
Errors == {"ERR_NONE", "ERR_IO", "ERR_IMGFS_FULL", "ERR_DUPLICATE_ID",
           "ERR_IMAGE_NOT_FOUND", "ERR_INVALID_IMGID", "ERR_IMGLIB",
           "ERR_OUT_OF_MEMORY", "ERR_RUNTIME"}

\* A call: its name, the id and the image or resolution it was given.
Call(call, id, arg) == [call |-> call, id |-> id, arg |-> arg]

\* What do_list shows: the ids of the listed slots, in the order of the array.
Listing(index) == [i \in Valid(index) |-> index[i].img_id]

Listings == UNION {[S -> Ids \union {NoId}] : S \in SUBSET Slots}

Unlisted == Listing(BlankIndex)

\* Its outcome: the error code and, when there is one, what it hands out.
Reply(call, err, out) ==
  [call |-> call, err |-> err, out |-> out, ids |-> Unlisted]

Shown(listing) == [Reply(Call("list", NoId, NoImage), "ERR_NONE", NoImage)
                     EXCEPT !.ids = listing]

CallType == [call : Calls, id : Ids \union {NoId},
             arg : Images \union Res \union {NoImage}]

TypeOK ==
  /\ is_open \in BOOLEAN
  /\ header \in Headers
  /\ metadata \in [Slots -> Metadata]
  /\ disk_header \in Headers
  /\ disk_metadata \in [Slots -> Metadata]
  /\ data \in Seq(Blobs)
  /\ reply \in [call : CallType, err : Errors,
                 out : Blobs \union {NoImage}, ids : Listings]

-----------------------------------------------------------------------------
\* do_create: fopen(..., "wb") empties the file, then the header and the zeroed
\* array are written; do_create_cmd closes it again.
Init ==
  /\ is_open = FALSE
  /\ header = BlankHeader
  /\ metadata = BlankIndex
  /\ disk_header = BlankHeader
  /\ disk_metadata = BlankIndex
  /\ data = <<>>
  /\ reply = Reply(Call("create", NoId, NoImage), "ERR_NONE", NoImage)

Create ==
  /\ ~is_open
  /\ disk_header' = BlankHeader
  /\ disk_metadata' = BlankIndex
  /\ data' = <<>>
  /\ reply' = Reply(Call("create", NoId, NoImage), "ERR_NONE", NoImage)
  /\ UNCHANGED memory

\* do_open: the header and the array are read into memory.
Open ==
  /\ ~is_open
  /\ is_open' = TRUE
  /\ header' = disk_header
  /\ metadata' = disk_metadata
  /\ reply' = Reply(Call("none", NoId, NoImage), "ERR_NONE", NoImage)
  /\ UNCHANGED disk

\* do_close: the array is freed (a blank index stands for the NULL pointer); the
\* header stays in the struct and is read again by the next do_open.
Close ==
  /\ is_open
  /\ is_open' = FALSE
  /\ header' = BlankHeader
  /\ metadata' = BlankIndex
  /\ reply' = Reply(Call("none", NoId, NoImage), "ERR_NONE", NoImage)
  /\ UNCHANGED disk

-----------------------------------------------------------------------------
\* do_insert (imgfs_insert.c)

Insert(id, img) == Call("insert", id, img)

\* The slot that is empty as long as no image has been deleted.
EmptySlotsBehind == Slots \intersect {header.nb_files}

EmptySlots == Slots \ Valid(metadata)

\* The array when the entry in slot i has been filled and marked valid.
WithEntry(i, id, img) ==
  [metadata EXCEPT ![i] = [Filled(@, id, img) EXCEPT !.is_valid = TRUE]]

\* The entry that deduplication leaves in slot i.
Candidate(i, id, img) == Deduped(WithEntry(i, id, img), header.nb_files, i)

CandidateError(i, id, img) ==
  DedupError(WithEntry(i, id, img), header.nb_files, i)

InsertFull(id, img) ==
  /\ is_open
  /\ MaxFiles <= header.nb_files
  /\ reply' = Reply(Insert(id, img), "ERR_IMGFS_FULL", NoImage)
  /\ UNCHANGED <<memory, disk>>

\* The loop finds no empty slot and the function returns ERR_NONE.
InsertNowhere(id, img) ==
  /\ is_open
  /\ header.nb_files < MaxFiles
  /\ EmptySlots = {}
  /\ reply' = Reply(Insert(id, img), "ERR_NONE", NoImage)
  /\ UNCHANGED <<memory, disk>>

\* The calls below work on the first empty slot.
InsertAt(i) ==
  /\ is_open
  /\ header.nb_files < MaxFiles
  /\ EmptySlots # {}
  /\ i = First(EmptySlots)

\* get_resolution cannot decode the image: the slot keeps its new name.
InsertUndecodable(i, id, img) ==
  /\ InsertAt(i)
  /\ img \in Broken
  /\ metadata' = [metadata EXCEPT ![i] = Filled(@, id, img)]
  /\ reply' = Reply(Insert(id, img), "ERR_IMGLIB", NoImage)
  /\ UNCHANGED <<is_open, header, disk>>

\* do_name_and_content_dedup refuses the entry: the slot is emptied again.
InsertRefused(i, id, img) ==
  /\ InsertAt(i)
  /\ img \notin Broken
  /\ CandidateError(i, id, img) # "ERR_NONE"
  /\ metadata' = [metadata EXCEPT
                    ![i] = [Candidate(i, id, img) EXCEPT !.is_valid = FALSE]]
  /\ reply' = Reply(Insert(id, img), CandidateError(i, id, img), NoImage)
  /\ UNCHANGED <<is_open, header, disk>>

\* The entry is accepted, and its content is to be appended or not.
InsertAccepted(i, id, img) ==
  /\ InsertAt(i)
  /\ img \notin Broken
  /\ CandidateError(i, id, img) = "ERR_NONE"

IsNew(i, id, img) == Candidate(i, id, img).offset[ORIG_RES] = 0

\* The remains of the slot's previous occupant are kept.
PlacedOver(m, offset) == [m EXCEPT !.offset[ORIG_RES] = offset]

\* The entry with the place of the appended image, derived images forgotten.
Placed(m, offset) ==
  [m EXCEPT !.offset = [r \in Res |-> IF r = ORIG_RES THEN offset ELSE 0],
            !.size   = [r \in Res |-> IF r = ORIG_RES THEN @[r] ELSE 0]]

Entry(i, id, img) ==
  IF IsNew(i, id, img) THEN Placed(Candidate(i, id, img), Len(data) + 1)
                       ELSE Candidate(i, id, img)

AppendImage(i, id, img) ==
  IF IsNew(i, id, img)
  THEN Len(data) < MaxBlobs /\ data' = Append(data, Blob(img, ORIG_RES))
  ELSE UNCHANGED data

\* The new image is not counted.
BumpInsertVersion == [version |-> Inc(header.version), nb_files |-> header.nb_files]

BumpInsert == [version |-> Inc(header.version), nb_files |-> Inc(header.nb_files)]

InsertDone(i, id, img) ==
  /\ InsertAccepted(i, id, img)
  /\ AppendImage(i, id, img)
  /\ metadata' = [metadata EXCEPT ![i] = Entry(i, id, img)]
  /\ disk_metadata' = [disk_metadata EXCEPT ![i] = Entry(i, id, img)]
  /\ header' = BumpInsert
  /\ disk_header' = BumpInsert
  /\ reply' = Reply(Insert(id, img), "ERR_NONE", NoImage)
  /\ UNCHANGED is_open

\* The three returns of ERR_IO.  None of them takes the entry out of the array
\* in memory, and the last does not take the counters back either.
InsertFailsAtData(i, id, img) ==
  /\ "data" \in Faults
  /\ InsertAccepted(i, id, img)
  /\ IsNew(i, id, img)
  /\ metadata' = [metadata EXCEPT ![i] = Candidate(i, id, img)]
  /\ reply' = Reply(Insert(id, img), "ERR_IO", NoImage)
  /\ UNCHANGED <<is_open, header, disk>>

InsertFailsAtMetadata(i, id, img) ==
  /\ "metadata" \in Faults
  /\ InsertAccepted(i, id, img)
  /\ \/ AppendImage(i, id, img)
     \/ "late" \in Faults /\ UNCHANGED data
  /\ metadata' = [metadata EXCEPT ![i] = Entry(i, id, img)]
  /\ reply' = Reply(Insert(id, img), "ERR_IO", NoImage)
  /\ UNCHANGED <<is_open, header, disk_header, disk_metadata>>

InsertFailsAtHeader(i, id, img) ==
  /\ "header" \in Faults
  /\ InsertAccepted(i, id, img)
  /\ AppendImage(i, id, img)
  /\ metadata' = [metadata EXCEPT ![i] = Entry(i, id, img)]
  /\ \/ disk_metadata' = [disk_metadata EXCEPT ![i] = Entry(i, id, img)]
     \/ "late" \in Faults /\ UNCHANGED disk_metadata
  /\ header' = BumpInsert
  /\ reply' = Reply(Insert(id, img), "ERR_IO", NoImage)
  /\ UNCHANGED <<is_open, disk_header>>

-----------------------------------------------------------------------------
\* do_delete (imgfs_delete.c)

Delete(id) == Call("delete", id, NoImage)

DeleteMissing(id) ==
  /\ is_open
  /\ Named(metadata, id) = {}
  /\ reply' = Reply(Delete(id), "ERR_IMAGE_NOT_FOUND", NoImage)
  /\ UNCHANGED <<memory, disk>>

\* Only is_valid is cleared; the bytes of the image stay where they are.
Deleted(id) == [metadata EXCEPT ![First(Named(metadata, id))].is_valid = FALSE]

\* The version stays.
BumpDeleteCount == [version |-> header.version, nb_files |-> Dec(header.nb_files)]

BumpDelete == [version |-> Inc(header.version), nb_files |-> Dec(header.nb_files)]

\* The header stays in memory.
DeleteDoneInMemory(id) ==
  /\ is_open
  /\ Named(metadata, id) # {}
  /\ metadata' = Deleted(id)
  /\ disk_metadata' = Deleted(id)
  /\ header' = BumpDelete
  /\ reply' = Reply(Delete(id), "ERR_NONE", NoImage)
  /\ UNCHANGED <<is_open, disk_header, data>>

\* The whole array is written, whatever else it holds by now.
DeleteDone(id) ==
  /\ is_open
  /\ Named(metadata, id) # {}
  /\ metadata' = Deleted(id)
  /\ disk_metadata' = Deleted(id)
  /\ header' = BumpDelete
  /\ disk_header' = BumpDelete
  /\ reply' = Reply(Delete(id), "ERR_NONE", NoImage)
  /\ UNCHANGED <<is_open, data>>

\* The file is cut off where the write stopped.
TornOff(id, k) == [i \in Slots |-> IF i < k THEN Deleted(id)[i] ELSE BlankMetadata]

\* The array in the file when only its first k slots have been written.
Torn(id, k) == [i \in Slots |-> IF i < k THEN Deleted(id)[i] ELSE disk_metadata[i]]

DeleteFailsAtMetadata(id) ==
  /\ "metadata" \in Faults
  /\ is_open
  /\ Named(metadata, id) # {}
  /\ metadata' = Deleted(id)
  /\ \E k \in Slots : disk_metadata' = Torn(id, k)
  /\ reply' = Reply(Delete(id), "ERR_IO", NoImage)
  /\ UNCHANGED <<is_open, header, disk_header, data>>

\* The counters are taken back; the emptied slot is not filled again.
DeleteFailsAtHeader(id) ==
  /\ "header" \in Faults
  /\ is_open
  /\ Named(metadata, id) # {}
  /\ metadata' = Deleted(id)
  /\ \/ disk_metadata' = Deleted(id)
     \/ "late" \in Faults /\ \E k \in Slots : disk_metadata' = Torn(id, k)
  /\ reply' = Reply(Delete(id), "ERR_IO", NoImage)
  /\ UNCHANGED <<is_open, header, disk_header, data>>

-----------------------------------------------------------------------------
\* do_read (imgfs_read.c) and lazily_resize (image_content.c)

Read(id, res) == Call("read", id, res)

ReadMissing(id, res) ==
  /\ is_open
  /\ Named(metadata, id) = {}
  /\ reply' = Reply(Read(id, res), "ERR_IMAGE_NOT_FOUND", NoImage)
  /\ UNCHANGED <<memory, disk>>

\* do_read has found its entry in slot i.
ReadAt(i, id) ==
  /\ is_open
  /\ Named(metadata, id) # {}
  /\ i = First(Named(metadata, id))

\* do_read calls lazily_resize.
CallsResize(i, res) ==
  /\ res # ORIG_RES
  /\ metadata[i].size[res] = 0 \/ metadata[i].offset[res] = 0

\* lazily_resize goes on to make the image.
NeedsResize(i, res) ==
  /\ CallsResize(i, res)
  /\ i < header.nb_files
  /\ metadata[i].size[res] = 0

ReadStored(i, id, res) ==
  /\ ReadAt(i, id)
  /\ CallsResize(i, res) => i < header.nb_files /\ metadata[i].size[res] # 0
  /\ reply' = Reply(Read(id, res), "ERR_NONE", Content(metadata[i], data, res))
  /\ UNCHANGED <<memory, disk>>

\* lazily_resize takes header.nb_files for the bound of the array.
ReadOutOfBounds(i, id, res) ==
  /\ ReadAt(i, id)
  /\ CallsResize(i, res)
  /\ i >= header.nb_files
  /\ reply' = Reply(Read(id, res), "ERR_INVALID_IMGID", NoImage)
  /\ UNCHANGED <<memory, disk>>

\* The bytes at the place of the original are no image.
ReadUndecodable(i, id, res) ==
  /\ ReadAt(i, id)
  /\ NeedsResize(i, res)
  /\ Content(metadata[i], data, ORIG_RES) = NoImage
  /\ reply' = Reply(Read(id, res), "ERR_IMGLIB", NoImage)
  /\ UNCHANGED <<memory, disk>>

\* The derived image, made from the bytes at the place of the original.
Resized(i, res) == Blob(Content(metadata[i], data, ORIG_RES).img, res)

ResizedEntry(i, res) ==
  [metadata[i] EXCEPT !.size[res] = BlobSize(Resized(i, res)),
                      !.offset[res] = Len(data) + 1]

\* A derived image is made and is to be appended.
Resizes(i, id, res) ==
  /\ ReadAt(i, id)
  /\ NeedsResize(i, res)
  /\ Content(metadata[i], data, ORIG_RES) # NoImage

AppendResized(i, res) ==
  Len(data) < MaxBlobs /\ data' = Append(data, Resized(i, res))

ReadResized(i, id, res) ==
  /\ Resizes(i, id, res)
  /\ AppendResized(i, res)
  /\ metadata' = [metadata EXCEPT ![i] = ResizedEntry(i, res)]
  /\ disk_metadata' = [disk_metadata EXCEPT ![i] = ResizedEntry(i, res)]
  /\ \/ reply' = Reply(Read(id, res), "ERR_NONE", Resized(i, res))
     \/ /\ "read" \in Faults
        /\ \E err \in {"ERR_IO", "ERR_OUT_OF_MEMORY"} :
             reply' = Reply(Read(id, res), err, NoImage)
  /\ UNCHANGED <<is_open, header, disk_header>>

\* The entry cannot be written; in memory it names the derived image.
ReadFailsAtMetadata(i, id, res) ==
  /\ "metadata" \in Faults
  /\ Resizes(i, id, res)
  /\ \/ AppendResized(i, res)
     \/ "late" \in Faults /\ UNCHANGED data
  /\ metadata' = [metadata EXCEPT ![i] = ResizedEntry(i, res)]
  /\ reply' = Reply(Read(id, res), "ERR_IO", NoImage)
  /\ UNCHANGED <<is_open, header, disk_header, disk_metadata>>

\* The image that do_read, or lazily_resize before it, reads.
Wanted(i, res) == IF NeedsResize(i, res) THEN ORIG_RES ELSE res

\* What a read that fails returns: libvips is asked for a derived image only.
ReadErrors(i, res) ==
  {"ERR_IO", "ERR_OUT_OF_MEMORY"} \union {err \in {"ERR_IMGLIB"} : NeedsResize(i, res)}

\* The derived image cannot be appended, or the read fails: always possible
\* where the entry does not lead to an image and may point past the end.
ReadFails(i, id, res) ==
  /\ ReadAt(i, id)
  /\ ~(CallsResize(i, res) /\ i >= header.nb_files)
  /\ \/ /\ "read" \in Faults
        /\ \E err \in ReadErrors(i, res) : reply' = Reply(Read(id, res), err, NoImage)
     \/ /\ \/ "data" \in Faults /\ Resizes(i, id, res)
           \/ Content(metadata[i], data, Wanted(i, res)) = NoImage
        /\ reply' = Reply(Read(id, res), "ERR_IO", NoImage)
  /\ UNCHANGED <<memory, disk>>

-----------------------------------------------------------------------------
\* do_list (imgfs_list.c): the JSON mode of the server goes through the array,
\* the STDOUT mode of the command line trusts header.nb_files first.

ListJson ==
  /\ is_open
  /\ \/ reply' = Shown(Listing(metadata))
     \/ /\ "read" \in Faults
        /\ reply' = Reply(Call("list", NoId, NoImage), "ERR_RUNTIME", NoImage)
  /\ UNCHANGED <<memory, disk>>

ListStdout ==
  /\ is_open
  /\ reply' = Shown(IF header.nb_files = 0 THEN Unlisted ELSE Listing(metadata))
  /\ UNCHANGED <<memory, disk>>

-----------------------------------------------------------------------------
InsertCall(id, img) ==
  \/ InsertFull(id, img)
  \/ InsertNowhere(id, img)
  \/ \E i \in Slots :
       \/ InsertUndecodable(i, id, img)
       \/ InsertRefused(i, id, img)
       \/ InsertDone(i, id, img)
       \/ InsertFailsAtData(i, id, img)
       \/ InsertFailsAtMetadata(i, id, img)
       \/ InsertFailsAtHeader(i, id, img)

DeleteCall(id) ==
  \/ DeleteMissing(id)
  \/ DeleteDone(id)
  \/ DeleteFailsAtMetadata(id)
  \/ DeleteFailsAtHeader(id)

ReadCall(id, res) ==
  \/ ReadMissing(id, res)
  \/ \E i \in Slots :
       \/ ReadStored(i, id, res)
       \/ ReadOutOfBounds(i, id, res)
       \/ ReadUndecodable(i, id, res)
       \/ ReadResized(i, id, res)
       \/ ReadFailsAtMetadata(i, id, res)
       \/ ReadFails(i, id, res)

Next ==
  \/ Create
  \/ Open
  \/ Close
  \/ \E id \in Ids, img \in Images : InsertCall(id, img)
  \/ \E id \in Ids : DeleteCall(id)
  \/ \E id \in Ids, res \in Res : ReadCall(id, res)
  \/ ListJson
  \/ ListStdout

Spec == Init /\ [][Next]_vars

=============================================================================
