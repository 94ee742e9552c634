---------------------------- MODULE ImgfsSessions ----------------------------
(***************************************************************************)
(* The processes that may have one imgFS file open, the server and a       *)
(* command, write by write.  Nothing locks the file: each process works on *)
(* the header and the array it read in do_open.  A write goes into the     *)
(* buffer of the process's FILE and reaches the file with the next fseek   *)
(* or fread of that process, or with fclose; a process that is killed      *)
(* loses it, and the server that is interrupted by SIGINT or SIGTERM       *)
(* closes the file in the middle of whatever call it was in.               *)
(*                                                                         *)
(* Imgfs takes a call for one step and its writes for done when it         *)
(* returns.  Here a call is one step per write, and the two are related:   *)
(* see ImgfsSessionsProps.  No access to the file fails.  An image larger  *)
(* than the buffer is in part written at once: the position of its end is  *)
(* what counts, and the part is bytes that no entry names.  An entry and   *)
(* the header are written in one piece.                                    *)
(***************************************************************************)
EXTENDS ImgfsIndex

CONSTANTS
  MaxBlobs,  \* bound: images the data region of the file may hold
  MaxCalls,  \* bound: calls since the file was created
  MaxCuts    \* bound: processes that end without closing, since then

ASSUME SessionBoundsAssumption ==
  MaxBlobs \in Nat /\ MaxCalls \in Nat /\ MaxCuts \in Nat

Users == {"server", "command"}

VARIABLES
  pc,             \* where each user is in its call
  header,         \* each user's copy of the header
  metadata,       \* each user's copy of the array
  slot,           \* the slot each user's call works on
  pending,        \* the write in each user's buffer
  disk_header,    \* the header in the file
  disk_metadata,  \* the array in the file
  data,           \* the images in the file
  call,           \* the call each user is in: its id and resolution
  reply           \* the last call and what it returned, or will return

VARIABLES
  kept,        \* history: what do_insert has stored, less what was deleted
  overlapped,  \* history: two users have had the file open at once
  clashed,     \* history: two images were appended at one place
  calls,       \* history: calls since the file was created
  cuts         \* history: users that ended without do_close, since then

copies  == <<header, metadata>>
disk    == <<disk_header, disk_metadata, data>>
history == <<kept, overlapped, clashed, calls, cuts>>
calling == <<slot, call, reply>>
vars    == <<pc, copies, pending, disk, calling, history>>

Phases == {"off", "idle", "done", "image", "entry", "array", "derived", "update"}

-----------------------------------------------------------------------------
(* The buffer *)

NoWrite         == [to |-> "nothing"]
ToImages(k, b)  == [to |-> "images", at |-> k, blob |-> b]
ToEntry(i, m)   == [to |-> "entry", at |-> i, entry |-> m]
ToArray(k, f)   == [to |-> "array", from |-> k, index |-> f]
ToHeader(h)     == [to |-> "header", header |-> h]

Writes ==
  {NoWrite}
  \union [to : {"images"}, at : Nat, blob : Blobs]
  \union [to : {"entry"}, at : Slots, entry : Metadata]
  \union [to : {"array"}, from : Nat, index : [Slots -> Metadata]]
  \union [to : {"header"}, header : Headers]

\* The file when a write has reached it.
HeaderWith(w) == IF w.to = "header" THEN w.header ELSE disk_header

IndexWith(w) ==
  CASE w.to = "entry" -> [disk_metadata EXCEPT ![w.at] = w.entry]
    [] w.to = "array" -> [i \in Slots |-> IF i < w.from THEN disk_metadata[i]
                                                        ELSE w.index[i]]
    [] OTHER -> disk_metadata

DataWith(w) ==
  CASE w.to # "images" -> data
    [] w.to = "images" /\ w.at > Len(data) -> Append(data, w.blob)
    [] OTHER -> [data EXCEPT ![w.at] = w.blob]

\* A write that is in the buffer goes to the file.
Flush(u) ==
  /\ disk_header' = HeaderWith(pending[u])
  /\ disk_metadata' = IndexWith(pending[u])
  /\ data' = DataWith(pending[u])

\* fseek and fwrite: what was in the buffer is written, the new write takes its
\* place.
Write(u, w) ==
  /\ Flush(u)
  /\ pending' = [pending EXCEPT ![u] = w]

\* The place at the end of the file that fseek(SEEK_END) finds.
End(u) == Len(DataWith(pending[u])) + 1

\* Another user's image is on its way to the same place.
Clashes(u, k) ==
  \E v \in Users \ {u} : pending[v].to = "images" /\ pending[v].at = k

Appends(u, b) ==
  /\ End(u) <= MaxBlobs
  /\ Write(u, ToImages(End(u), b))
  /\ clashed' = (clashed \/ Clashes(u, End(u)))

-----------------------------------------------------------------------------
(* Calls *)

Call(name, id, arg) == [call |-> name, id |-> id, arg |-> arg]

NoCall == Call("none", NoId, NoImage)

Reply(c, err, out) ==
  [call |-> c, err |-> err, out |-> out, ids |-> [i \in {} |-> NoId]]

Insert(id, img) == Call("insert", id, img)
Delete(id) == Call("delete", id, NoImage)
Read(id, res) == Call("read", id, res)

\* The library as a user sees it: its own copies, and the file through its own
\* buffer.  The searches, guards and results of the calls are those of Imgfs.
Mine(u) == INSTANCE Imgfs WITH
  is_open <- pc[u] # "off", header <- header[u], metadata <- metadata[u],
  disk_header <- HeaderWith(pending[u]), disk_metadata <- IndexWith(pending[u]),
  data <- DataWith(pending[u]), Faults <- {}

\* A command makes one call and then closes the file.
Returned(u) == IF u = "command" THEN "done" ELSE "idle"

Goes(u, phase) == pc' = [pc EXCEPT ![u] = phase]

Begins(u) ==
  /\ pc[u] = "idle"
  /\ calls < MaxCalls
  /\ calls' = calls + 1

\* The call goes on after its first write.
Starts(u, phase, c, i) ==
  /\ Begins(u)
  /\ Goes(u, phase)
  /\ slot' = [slot EXCEPT ![u] = i]
  /\ call' = [call EXCEPT ![u] = c]

Continues(u, from, to) ==
  /\ pc[u] = from
  /\ Goes(u, to)
  /\ UNCHANGED <<slot, call, calls>>

Returns(u, from) ==
  /\ pc[u] = from
  /\ Goes(u, Returned(u))
  /\ slot' = [slot EXCEPT ![u] = 0]
  /\ call' = [call EXCEPT ![u] = NoCall]
  /\ UNCHANGED calls

\* The call returns without having touched the file.
ReturnsAtOnce(u, c, err) ==
  /\ Begins(u)
  /\ Goes(u, Returned(u))
  /\ reply' = Reply(c, err, NoImage)
  /\ UNCHANGED <<header, slot, call, pending, disk, kept, overlapped, clashed, cuts>>

SetsSlot(u, i, m) == metadata' = [metadata EXCEPT ![u][i] = m]

-----------------------------------------------------------------------------
(* do_insert *)

InsertFull(u, id, img) ==
  /\ MaxFiles <= header[u].nb_files
  /\ ReturnsAtOnce(u, Insert(id, img), "ERR_IMGFS_FULL")
  /\ UNCHANGED metadata

InsertNowhere(u, id, img) ==
  /\ header[u].nb_files < MaxFiles
  /\ Mine(u)!EmptySlots = {}
  /\ ReturnsAtOnce(u, Insert(id, img), "ERR_NONE")
  /\ UNCHANGED metadata

InsertUndecodable(u, i, id, img) ==
  /\ Mine(u)!InsertAt(i)
  /\ img \in Broken
  /\ SetsSlot(u, i, Filled(metadata[u][i], id, img))
  /\ ReturnsAtOnce(u, Insert(id, img), "ERR_IMGLIB")

InsertRefused(u, i, id, img) ==
  /\ Mine(u)!InsertAt(i)
  /\ img \notin Broken
  /\ Mine(u)!CandidateError(i, id, img) # "ERR_NONE"
  /\ SetsSlot(u, i, [Mine(u)!Candidate(i, id, img) EXCEPT !.is_valid = FALSE])
  /\ ReturnsAtOnce(u, Insert(id, img), Mine(u)!CandidateError(i, id, img))

\* The entry is complete; what is written first depends on the content.
InsertAccepted(u, i, id, img) ==
  /\ Mine(u)!InsertAccepted(i, id, img)
  /\ SetsSlot(u, i, Mine(u)!Entry(i, id, img))
  /\ reply' = Reply(Insert(id, img), "ERR_NONE", NoImage)
  /\ UNCHANGED <<header, kept, overlapped, cuts>>

\* New content: the image.
InsertImage(u, i, id, img) ==
  /\ Starts(u, "image", Insert(id, img), i)
  /\ InsertAccepted(u, i, id, img)
  /\ Mine(u)!IsNew(i, id, img)
  /\ Appends(u, Blob(img, ORIG_RES))

InsertEntry(u) ==
  /\ Continues(u, "image", "entry")
  /\ Write(u, ToEntry(slot[u], metadata[u][slot[u]]))
  /\ UNCHANGED <<copies, reply, kept, overlapped, clashed, cuts>>

\* Shared content: the entry.
InsertShared(u, i, id, img) ==
  /\ Starts(u, "entry", Insert(id, img), i)
  /\ InsertAccepted(u, i, id, img)
  /\ ~Mine(u)!IsNew(i, id, img)
  /\ Write(u, ToEntry(i, Mine(u)!Entry(i, id, img)))
  /\ UNCHANGED clashed

InsertHeader(u) ==
  /\ Returns(u, "entry")
  /\ header' = [header EXCEPT ![u] = Mine(u)!BumpInsert]
  /\ Write(u, ToHeader(Mine(u)!BumpInsert))
  /\ kept' = kept \union {<<call[u].id, call[u].arg>>}
  /\ UNCHANGED <<metadata, reply, overlapped, clashed, cuts>>

-----------------------------------------------------------------------------
(* do_delete *)

DeleteMissing(u, id) ==
  /\ Named(metadata[u], id) = {}
  /\ ReturnsAtOnce(u, Delete(id), "ERR_IMAGE_NOT_FOUND")
  /\ UNCHANGED metadata

\* The whole array is written: the blocks of the buffer that it fills at once,
\* the slots from k on when the buffer is flushed.
DeleteArray(u, id, k) ==
  /\ Named(metadata[u], id) # {}
  /\ Starts(u, "array", Delete(id), First(Named(metadata[u], id)))
  /\ metadata' = [metadata EXCEPT ![u] = Mine(u)!Deleted(id)]
  /\ disk_header' = HeaderWith(pending[u])
  /\ disk_metadata' = [i \in Slots |-> IF i < k THEN Mine(u)!Deleted(id)[i]
                                                ELSE IndexWith(pending[u])[i]]
  /\ data' = DataWith(pending[u])
  /\ pending' = [pending EXCEPT ![u] = ToArray(k, Mine(u)!Deleted(id))]
  /\ reply' = Reply(Delete(id), "ERR_NONE", NoImage)
  /\ kept' = {p \in kept : p[1] # id}
  /\ UNCHANGED <<header, overlapped, clashed, cuts>>

\* The counters are written as they were.
DeleteHeaderLate(u) ==
  /\ Returns(u, "array")
  /\ header' = [header EXCEPT ![u] = Mine(u)!BumpDelete]
  /\ Write(u, ToHeader(header[u]))
  /\ UNCHANGED <<metadata, reply, kept, overlapped, clashed, cuts>>

DeleteHeader(u) ==
  /\ Returns(u, "array")
  /\ header' = [header EXCEPT ![u] = Mine(u)!BumpDelete]
  /\ Write(u, ToHeader(Mine(u)!BumpDelete))
  /\ UNCHANGED <<metadata, reply, kept, overlapped, clashed, cuts>>

-----------------------------------------------------------------------------
(* do_read and lazily_resize *)

ReadMissing(u, id, res) ==
  /\ Named(metadata[u], id) = {}
  /\ ReturnsAtOnce(u, Read(id, res), "ERR_IMAGE_NOT_FOUND")
  /\ UNCHANGED metadata

ReadOutOfBounds(u, i, id, res) ==
  /\ Mine(u)!ReadAt(i, id)
  /\ Mine(u)!CallsResize(i, res)
  /\ i >= header[u].nb_files
  /\ ReturnsAtOnce(u, Read(id, res), "ERR_INVALID_IMGID")
  /\ UNCHANGED metadata

\* What lies in the file where the entry says, once the buffer is flushed.
Found(u, i, res) == Content(metadata[u][i], DataWith(pending[u]), res)

\* The call reads the file and returns.
ReadsAndReturns(u, c, err, out) ==
  /\ Begins(u)
  /\ Goes(u, Returned(u))
  /\ Write(u, NoWrite)
  /\ reply' = Reply(c, err, out)
  /\ UNCHANGED <<copies, slot, call, kept, overlapped, clashed, cuts>>

\* The image as it is stored.  Where the entry leads to no image the read may
\* also end before it has all bytes.
ReadStored(u, i, id, res) ==
  /\ Mine(u)!ReadAt(i, id)
  /\ Mine(u)!CallsResize(i, res) =>
       i < header[u].nb_files /\ metadata[u][i].size[res] # 0
  /\ \/ ReadsAndReturns(u, Read(id, res), "ERR_NONE", Found(u, i, res))
     \/ /\ Found(u, i, res) = NoImage
        /\ ReadsAndReturns(u, Read(id, res), "ERR_IO", NoImage)

\* The original that a derived image is to be made from is none.
ReadUnresized(u, i, id, res) ==
  /\ Mine(u)!ReadAt(i, id)
  /\ Mine(u)!NeedsResize(i, res)
  /\ Found(u, i, ORIG_RES) = NoImage
  /\ \E err \in {"ERR_IMGLIB", "ERR_IO"} :
       ReadsAndReturns(u, Read(id, res), err, NoImage)

ResizeImage(u, i, id, res) ==
  /\ Starts(u, "derived", Read(id, res), i)
  /\ Mine(u)!Resizes(i, id, res)
  /\ SetsSlot(u, i, Mine(u)!ResizedEntry(i, res))
  /\ Appends(u, Mine(u)!Resized(i, res))
  /\ reply' = Reply(Read(id, res), "ERR_NONE", Mine(u)!Resized(i, res))
  /\ UNCHANGED <<header, kept, overlapped, cuts>>

\* The entry is written as it is in memory, valid, whatever the file holds.
ResizeEntry(u) ==
  /\ Continues(u, "derived", "update")
  /\ Write(u, ToEntry(slot[u], metadata[u][slot[u]]))
  /\ UNCHANGED <<copies, reply, kept, overlapped, clashed, cuts>>

\* do_read goes on to read the image that lazily_resize has made.
ReadDerived(u) ==
  /\ Returns(u, "update")
  /\ Write(u, NoWrite)
  /\ reply' = Reply(call[u], "ERR_NONE", Found(u, slot[u], call[u].arg))
  /\ UNCHANGED <<copies, kept, overlapped, clashed, cuts>>

-----------------------------------------------------------------------------
(* do_create, do_open, do_close, and what may end a process before that *)

Off(u) == pc[u] = "off"

\* Not while the file is open: what the holders of a file that is cut to nothing
\* would write is left out.
Create ==
  /\ \A u \in Users : Off(u)
  /\ disk_header' = BlankHeader
  /\ disk_metadata' = BlankIndex
  /\ data' = <<>>
  /\ reply' = Reply(Call("create", NoId, NoImage), "ERR_NONE", NoImage)
  /\ kept' = {}
  /\ overlapped' = FALSE
  /\ clashed' = FALSE
  /\ calls' = 0
  /\ cuts' = 0
  /\ UNCHANGED <<pc, copies, slot, pending, call>>

Open(u) ==
  /\ Off(u)
  /\ Goes(u, "idle")
  /\ header' = [header EXCEPT ![u] = disk_header]
  /\ metadata' = [metadata EXCEPT ![u] = disk_metadata]
  /\ reply' = Reply(NoCall, "ERR_NONE", NoImage)
  /\ overlapped' = (overlapped \/ \E v \in Users : ~Off(v))
  /\ UNCHANGED <<slot, pending, disk, call, kept, clashed, calls, cuts>>

\* Nothing of the process is left.
Gone(u) ==
  /\ Goes(u, "off")
  /\ header' = [header EXCEPT ![u] = BlankHeader]
  /\ metadata' = [metadata EXCEPT ![u] = BlankIndex]
  /\ slot' = [slot EXCEPT ![u] = 0]
  /\ pending' = [pending EXCEPT ![u] = NoWrite]
  /\ call' = [call EXCEPT ![u] = NoCall]
  /\ reply' = Reply(NoCall, "ERR_NONE", NoImage)
  /\ UNCHANGED <<kept, overlapped, clashed, calls>>

Close(u) ==
  /\ pc[u] \in {"idle", "done"}
  /\ Flush(u)
  /\ Gone(u)
  /\ UNCHANGED cuts

\* A process that ends in the middle of a call, or with a write in its buffer.
Cut ==
  /\ cuts < MaxCuts
  /\ cuts' = cuts + 1

\* signal_handler: server_shutdown closes the file, whatever call it interrupts.
Interrupt ==
  /\ ~Off("server")
  /\ Cut
  /\ Flush("server")
  /\ Gone("server")

\* SIGKILL; SIGPIPE of a reply; for a command SIGINT as well.
Kill(u) ==
  /\ ~Off(u)
  /\ Cut
  /\ Gone(u)
  /\ UNCHANGED disk

-----------------------------------------------------------------------------
Init ==
  /\ pc = [u \in Users |-> "off"]
  /\ header = [u \in Users |-> BlankHeader]
  /\ metadata = [u \in Users |-> BlankIndex]
  /\ slot = [u \in Users |-> 0]
  /\ pending = [u \in Users |-> NoWrite]
  /\ disk_header = BlankHeader
  /\ disk_metadata = BlankIndex
  /\ data = <<>>
  /\ call = [u \in Users |-> NoCall]
  /\ reply = Reply(Call("create", NoId, NoImage), "ERR_NONE", NoImage)
  /\ kept = {}
  /\ overlapped = FALSE
  /\ clashed = FALSE
  /\ calls = 0
  /\ cuts = 0

InsertStep(u, id, img) ==
  \/ InsertFull(u, id, img)
  \/ InsertNowhere(u, id, img)
  \/ \E i \in Slots :
       \/ InsertUndecodable(u, i, id, img)
       \/ InsertRefused(u, i, id, img)
       \/ InsertImage(u, i, id, img)
       \/ InsertShared(u, i, id, img)

DeleteStep(u, id) ==
  \/ DeleteMissing(u, id)
  \/ \E k \in 0 .. MaxFiles : DeleteArray(u, id, k)

ReadStep(u, id, res) ==
  \/ ReadMissing(u, id, res)
  \/ \E i \in Slots :
       \/ ReadOutOfBounds(u, i, id, res)
       \/ ReadStored(u, i, id, res)
       \/ ReadUnresized(u, i, id, res)
       \/ ResizeImage(u, i, id, res)

UserStep(u) ==
  \/ Open(u)
  \/ \E id \in Ids, img \in Images : InsertStep(u, id, img)
  \/ InsertEntry(u)
  \/ InsertHeader(u)
  \/ \E id \in Ids : DeleteStep(u, id)
  \/ DeleteHeader(u)
  \/ \E id \in Ids, res \in Res : ReadStep(u, id, res)
  \/ ResizeEntry(u)
  \/ ReadDerived(u)
  \/ Close(u)
  \/ Kill(u)

Next ==
  \/ \E u \in Users : UserStep(u)
  \/ Interrupt
  \/ Create

Spec == Init /\ [][Next]_vars

=============================================================================
