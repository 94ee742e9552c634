--------------------------- MODULE ImgfsToolProofs ---------------------------
(***************************************************************************)
(* Proofs about the processes of imgfscmd, for every set of command lines, *)
(* whatever may fail outside of the library's calls.                       *)
(***************************************************************************)
EXTENDS ImgfsToolProps, ImgfsSafetyProofs

-----------------------------------------------------------------------------
(* The inductive invariant. *)

Openers == {"list", "insert", "read", "delete"}

\* Where a process is, and what it can have done by then.
Staged ==
  /\ stage # "shell" => twice = FALSE /\ code # "crashed"
  /\ stage \notin {"shell", "main"} =>
       Command \in Openers \union {"create"} /\ LineError = "ERR_NONE"
  /\ stage = "source" => Command = "insert"
  /\ stage = "write" => Command = "read"
  /\ is_open => stage \in {"source", "call", "close"} /\ Command \in Openers
  /\ opened \in Headers

\* What do_create and do_open leave dangling, by what has failed in them.
FailedBy ==
  stage = "failed" =>
    /\ Command = "create" => cause \in {"write", "alloc"}
    /\ Command # "create" /\ Dangles => cause \in {"header", "alloc"}

Processes == ToolTypeOK /\ Staged /\ FailedBy

\* The images are those the process has found, until a call has succeeded.
Untouched ==
  /\ stage \in {"main", "source", "call"} => Holds = before /\ code = "ERR_NONE"
  /\ stage = "write" => Holds = before
  /\ stage \in {"source", "call"} => metadata = disk_metadata
  /\ stage = "failed" /\ Command # "create" => Holds = before
  /\ stage = "close" /\ (code # "ERR_NONE" \/ Command = "read") => Holds = before

-----------------------------------------------------------------------------
(* What a process has before it makes its call. *)

\* A command line that was accepted names an id and a resolution, and no error
\* is the end by a signal.
LEMMA LineFacts ==
  ASSUME Processes, stage # "shell"
  PROVE  /\ LineError # "crashed"
         /\ Command \in {"insert", "read", "delete"} /\ LineError = "ERR_NONE" => line[3] \in Ids
         /\ Command = "read" /\ LineError = "ERR_NONE" => ReadResolution(line) \in Res
<1>1. CASE line = <<>>
  <2>1. LineError = "ERR_NOT_ENOUGH_ARGUMENTS"
    BY <1>1 DEF LineError, CommandLineError, HandinLineError
  <2>2. Command = "none"
    BY <1>1 DEF Command
  <2> QED
    BY <2>1, <2>2
<1>2. CASE line # <<>>
  <2>1. line \in CommandLines \union CreateLines
    BY <1>2 DEF Processes, ToolTypeOK
  <2>2. LineError \in {CommandLineError(line), HandinLineError(line)}
    BY DEF LineError
  <2>3. Command = line[1]
    BY <1>2 DEF Command
  <2> QED
    BY <2>1, <2>2, <2>3, LinesAssumption
<1> QED
  BY <1>1, <1>2

\* The image that insert reads from a file.
LEMMA SourceImages ==
  ASSUME Processes
  PROVE  Source.is \in {"image", "cut"} => Contents(Source) \subseteq Images
<1>1. Contents(Source) = IF Source.is = "image" /\ Source.blob.res = ORIG_RES
                         THEN {Source.blob.img} ELSE Images
  BY DEF Contents
<1>2. CASE line[4] \in DOMAIN files
  <2>1. Source = files[line[4]]
    BY <1>2 DEF Source, SourceOf
  <2>2. files[line[4]] \in {NoFile} \union Remains \union {Image(b) : b \in Blobs}
    BY <1>2 DEF Processes, ToolTypeOK
  <2>3. CASE Source \in {NoFile} \union Remains
    BY <1>1, <2>3 DEF NoFile, Remains
  <2>4. CASE \E b \in Blobs : Source = Image(b)
    BY <1>1, <2>4 DEF Image, Blobs
  <2> QED
    BY <2>1, <2>2, <2>3, <2>4
<1>3. CASE line[4] \notin DOMAIN files /\ line[4] \in Images
  <2>1. Source = Image(Blob(line[4], ORIG_RES))
    BY <1>3 DEF Source, SourceOf
  <2> QED
    BY <1>1, <1>3, <2>1 DEF Image, Blob
<1>4. CASE line[4] \notin DOMAIN files /\ line[4] \notin Images
  <2>1. Source = NoFile
    BY <1>4 DEF Source, SourceOf
  <2> QED
    BY <2>1 DEF NoFile
<1> QED
  BY <1>2, <1>3, <1>4

-----------------------------------------------------------------------------
(* A step of a process is a call of the library, or leaves it alone; only a  *)
(* close that loses the last buffer does what the library does not.          *)

LEMMA LibraryCalls ==
  ASSUME Processes, ToolNext
  PROVE  [Next]_vars \/ ClosesInVain
<1>1. ASSUME NEW argv, Runs(argv)
      PROVE  UNCHANGED vars
  BY <1>1 DEF Runs
<1>2. CASE Refuses \/ Helps \/ CreateUnopened \/ OpenFails \/ FailureExits
  BY <1>2 DEF Refuses, Helps, CreateUnopened, OpenFails, FailureExits
<1>3. CASE CreateCloses \/ NamesNothing \/ Exports \/ ExportFails
  BY <1>3 DEF CreateCloses, NamesNothing, Exports, ExportFails
<1>4. CASE CreateFails \/ CreateDone \/ OpenDone
  BY <1>4 DEF CreateFails, CreateDone, OpenDone, Next
<1>5. CASE SourceFails \/ Closes
  BY <1>5 DEF SourceFails, Closes, Next
<1>6. CASE Lists
  BY <1>6 DEF Lists, Next
<1>7. CASE Inserts
  <2>1. PICK img \in Contents(Source) : InsertCall(line[3], img)
    BY <1>7 DEF Inserts
  <2>2. line[3] \in Ids
    BY <1>7, LineFacts DEF Inserts, Processes, Staged
  <2>3. img \in Images
    BY <1>7, <2>1, SourceImages DEF Inserts
  <2> QED
    BY <2>1, <2>2, <2>3 DEF Next
<1>8. CASE Deletes
  <2>1. line[3] \in Ids
    BY <1>8, LineFacts DEF Deletes, Processes, Staged
  <2> QED
    BY <1>8, <2>1 DEF Deletes, Next
<1>9. CASE Reads
  <2>1. line[3] \in Ids /\ ReadResolution(line) \in Res
    BY <1>9, LineFacts DEF Reads, Processes, Staged
  <2> QED
    BY <1>9, <2>1 DEF Reads, Next
<1> QED
  BY <1>1, <1>2, <1>3, <1>4, <1>5, <1>6, <1>7, <1>8, <1>9 DEF ToolNext

\* The library's state and its replies stay well typed.
LEMMA LibraryTyped ==
  ASSUME Processes, [ToolNext]_toolvars
  PROVE  TypeOK'
<1>1. TypeOK
  BY DEF Processes, ToolTypeOK
<1>2. CASE UNCHANGED toolvars
  BY <1>1, <1>2, NextType DEF toolvars
<1>3. CASE ClosesInVain
  <2>1. BlankHeader \in Headers /\ BlankIndex \in [Slots -> Metadata]
    BY BlankType
  <2> QED
    BY <1>1, <1>3, <2>1 DEF ClosesInVain, TypeOK, Processes, Staged
<1>4. CASE ToolNext /\ ~ClosesInVain
  BY <1>1, <1>4, LibraryCalls, NextType
<1> QED
  BY <1>2, <1>3, <1>4

-----------------------------------------------------------------------------
(* The invariant is kept. *)

FileTypes == [Ids \X Res -> {NoFile} \union Remains \union {Image(b) : b \in Blobs}]

Extents == {"absent", "headless", "short", "whole"}

\* What a process was started with stays until the next one.
LEMMA StartStays ==
  ASSUME UNCHANGED start
  PROVE  /\ Command' = Command /\ LineError' = LineError
         /\ line' = line /\ build' = build /\ before' = before /\ opened' = opened
  BY DEF start, Command, LineError

\* The end of a process, if it has closed the file.
LEMMA ExitKeeps ==
  ASSUME Processes, TypeOK', NEW err, Exits(err), is_open' = FALSE,
         extent' \in Extents, files' \in FileTypes
  PROVE  Processes'
<1>1. ToolTypeOK'
  BY DEF Processes, ToolTypeOK, Exits, start, Extents, FileTypes
<1>2. Staged' /\ FailedBy'
  BY DEF Processes, Staged, FailedBy, Exits, start
<1> QED
  BY <1>1, <1>2 DEF Processes

\* Where the file is not open, and what is in the directory.
LEMMA ProcessFacts ==
  ASSUME Processes
  PROVE  /\ is_open \in BOOLEAN
         /\ stage \in {"shell", "main", "failed", "write"} \/ Command = "create" => is_open = FALSE
         /\ extent \in Extents
         /\ files \in FileTypes
  BY DEF Processes, ToolTypeOK, TypeOK, Staged, Openers, Extents, FileTypes

LEMMA RunsKeeps ==
  ASSUME Processes, TypeOK', NEW argv \in CommandLines \union CreateLines, Runs(argv)
  PROVE  Processes'
<1>1. ToolTypeOK'
  BY DEF Processes, ToolTypeOK, Runs, vars, pointers
<1>2. is_open' = FALSE /\ opened' \in Headers
  BY ProcessFacts DEF Runs, vars, Processes, ToolTypeOK, TypeOK
<1>3. Staged' /\ FailedBy'
  BY <1>2 DEF Staged, FailedBy, Runs
<1> QED
  BY <1>1, <1>3 DEF Processes

\* The processes that end before anything was opened.
LEMMA EarlyEndKeeps ==
  ASSUME Processes, TypeOK', Refuses \/ Helps \/ CreateUnopened \/ FailureExits
  PROVE  Processes'
<1>1. \E err : Exits(err)
  BY DEF Refuses, Helps, CreateUnopened, FailureExits
<1>2. is_open' = FALSE /\ extent' = extent /\ files' = files
  BY ProcessFacts DEF Refuses, Helps, CreateUnopened, FailureExits, Accepted, vars
<1> QED
  BY <1>1, <1>2, ExitKeeps, ProcessFacts

\* do_create and do_open that fail.
LEMMA FailureKeeps ==
  ASSUME Processes, TypeOK', CreateFails \/ OpenFails
  PROVE  Processes'
<1>1. /\ stage = "main" /\ LineError = "ERR_NONE"
      /\ stage' = "failed" /\ UNCHANGED <<start, image, printed, twice>>
      /\ code' \in {"ERR_IO", "ERR_OUT_OF_MEMORY"}
      /\ file' \in {"null", "dangling"} /\ array' \in {"null", "dangling"}
      /\ files' = files /\ extent' \in Extents
  BY ProcessFacts DEF CreateFails, OpenFails, Fails, Accepted, Opens, Extents
<1>2. is_open' = FALSE
  BY <1>1, ProcessFacts DEF CreateFails, OpenFails, Create, memory, vars
<1>3. /\ Command' = Command /\ LineError' = LineError
      /\ line' = line /\ build' = build /\ opened' = opened
  BY <1>1, StartStays
<1>4. ToolTypeOK'
  BY <1>1, <1>2, <1>3 DEF Processes, ToolTypeOK, Extents
<1>5. /\ CreateFails => Command = "create" /\ cause' \in {"write", "alloc"}
      /\ OpenFails => Command \in Openers
      /\ OpenFails => cause' \in {"header", "alloc"} \/ (file' = "null" /\ array' = "null")
  BY DEF CreateFails, OpenFails, Fails, Accepted, Opens, Openers
<1>6. Staged'
  BY <1>1, <1>2, <1>3, <1>5 DEF Processes, Staged
<1>7. FailedBy'
  BY <1>3, <1>5 DEF FailedBy, Dangles, Openers
<1> QED
  BY <1>4, <1>6, <1>7 DEF Processes

\* do_create and do_open that succeed.
LEMMA HoldingKeeps ==
  ASSUME Processes, TypeOK', CreateDone \/ OpenDone
  PROVE  Processes'
<1>1. /\ stage = "main" /\ LineError = "ERR_NONE"
      /\ UNCHANGED <<start, code, image, printed, twice>>
      /\ file' = "open" /\ array' = "held" /\ extent' = "whole" /\ files' = files
  BY DEF CreateDone, OpenDone, Holding, Accepted, Opens
<1>2. /\ Command' = Command /\ LineError' = LineError
      /\ line' = line /\ build' = build /\ opened' = opened
  BY <1>1, StartStays
<1>3. \/ CreateDone /\ Command = "create" /\ stage' = "close" /\ is_open' = FALSE
      \/ OpenDone /\ Command \in Openers
         /\ stage' = IF Command = "insert" THEN "source" ELSE "call"
  BY ProcessFacts DEF CreateDone, OpenDone, Holding, Accepted, Opens, Openers, Create, memory
<1>4. ToolTypeOK'
  BY <1>1, <1>2, <1>3 DEF Processes, ToolTypeOK
<1>5. Staged'
  BY <1>1, <1>2, <1>3 DEF Processes, Staged
<1>6. FailedBy'
  BY <1>3 DEF FailedBy
<1> QED
  BY <1>4, <1>5, <1>6 DEF Processes

\* The calls: what they return is an error of the library, and they leave the
\* file open.
LEMMA CallKeeps ==
  ASSUME Processes, TypeOK', Inserts \/ Deletes \/ Reads \/ Lists
  PROVE  Processes'
<1>1. /\ stage \in {"source", "call"} /\ stage' = "close"
      /\ UNCHANGED <<start, file, array, extent, files, twice>>
      /\ code' = code \/ code' = reply'.err
      /\ image' = image \/ image' = reply'.out
  BY DEF Inserts, Deletes, Reads, Lists, CallReturns, pointers, outcome
<1>2. /\ Command' = Command /\ LineError' = LineError
      /\ line' = line /\ build' = build /\ opened' = opened
  BY <1>1, StartStays
<1>3. is_open' = is_open
  BY DEF Inserts, Deletes, Reads, Lists, InsertCall, DeleteCall, ReadCall, ListStdout,
         InsertFull, InsertNowhere, InsertUndecodable, InsertRefused, InsertDone,
         InsertFailsAtData, InsertFailsAtMetadata, InsertFailsAtHeader,
         DeleteMissing, DeleteDone, DeleteFailsAtMetadata, DeleteFailsAtHeader,
         ReadMissing, ReadStored, ReadOutOfBounds, ReadUndecodable, ReadResized,
         ReadFailsAtMetadata, ReadFails, memory
<1>4. reply'.err # "crashed" /\ reply'.out \in Blobs \union {NoImage}
  BY DEF TypeOK, Errors
<1>5. ToolTypeOK'
  BY <1>1, <1>2, <1>3, <1>4 DEF Processes, ToolTypeOK
<1>6. Staged' /\ FailedBy'
  BY <1>1, <1>2, <1>3, <1>4 DEF Processes, Staged, FailedBy
<1> QED
  BY <1>5, <1>6 DEF Processes

\* The processes that end after they have closed the file.
LEMMA LateEndKeeps ==
  ASSUME Processes, TypeOK', SourceFails \/ ClosesInVain \/ CreateCloses
  PROVE  Processes'
<1>1. \E err : Exits(err)
  BY DEF SourceFails, ClosesInVain, CreateCloses
<1>2. is_open' = FALSE /\ files' = files
  BY ProcessFacts DEF SourceFails, ClosesInVain, CreateCloses, Close, vars
<1>3. extent' \in Extents
  BY ProcessFacts DEF SourceFails, ClosesInVain, CreateCloses, Extents
<1> QED
  BY <1>1, <1>2, <1>3, ExitKeeps, ProcessFacts

LEMMA ClosesKeeps ==
  ASSUME Processes, TypeOK', Closes
  PROVE  Processes'
<1>1. is_open' = FALSE /\ extent' = extent /\ files' = files /\ UNCHANGED twice
  BY DEF Closes, Close, outcome
<1>2. CASE HasImage
  <2>1. /\ stage = "close" /\ Command = "read" /\ stage' = "write"
        /\ file' = "null" /\ array' = "null"
        /\ UNCHANGED <<start, code, image, printed>>
    BY <1>2 DEF Closes, HasImage, KeepsImage
  <2>2. /\ Command' = Command /\ LineError' = LineError
        /\ line' = line /\ build' = build /\ opened' = opened
    BY <2>1, StartStays
  <2>3. ToolTypeOK'
    BY <1>1, <2>1, <2>2 DEF Processes, ToolTypeOK
  <2>4. Staged' /\ FailedBy'
    BY <1>1, <2>1, <2>2 DEF Processes, Staged, FailedBy
  <2> QED
    BY <2>3, <2>4 DEF Processes
<1>3. CASE ~HasImage
  <2>1. Exits(code)
    BY <1>3 DEF Closes
  <2> QED
    BY <1>1, <2>1, ExitKeeps, ProcessFacts
<1> QED
  BY <1>2, <1>3

\* A read writes its image to the file it names.
LEMMA ExportKeeps ==
  ASSUME Processes, TypeOK', NamesNothing \/ Exports \/ ExportFails
  PROVE  Processes'
<1>1. stage = "write" /\ extent' = extent /\ is_open' = is_open /\ \E err : Exits(err)
  BY DEF NamesNothing, Exports, ExportFails, vars
<1>2. Target \in Ids \X Res
  BY <1>1, LineFacts DEF Processes, Staged, Target, CreateName
<1>3. \/ files' = files
      \/ \E f \in {NoFile} \union Remains \union {Image(b) : b \in Blobs} : Writes(f)
  BY DEF NamesNothing, Exports, ExportFails, Remains, Processes, ToolTypeOK
<1>4. files' \in FileTypes
  BY <1>2, <1>3, ProcessFacts DEF Writes, FileTypes
<1> QED
  BY <1>1, <1>4, ExitKeeps, ProcessFacts

LEMMA ToolInitKeeps == ToolInit => Processes
<1> SUFFICES ASSUME ToolInit
             PROVE  Processes
  OBVIOUS
<1>1. TypeOK
  BY InitType DEF ToolInit
<1>2. is_open = FALSE /\ BlankHeader \in Headers
  BY BlankType DEF ToolInit, Init
<1>3. ToolTypeOK
  BY <1>1, <1>2 DEF ToolInit, ToolTypeOK
<1> QED
  BY <1>2, <1>3 DEF ToolInit, Processes, Staged, FailedBy

LEMMA ToolNextKeeps == Processes /\ [ToolNext]_toolvars => Processes'
<1> SUFFICES ASSUME Processes, [ToolNext]_toolvars
             PROVE  Processes'
  OBVIOUS
<1>1. TypeOK'
  BY LibraryTyped
<1>2. ASSUME NEW argv \in CommandLines \union CreateLines, Runs(argv)
      PROVE  Processes'
  BY <1>1, <1>2, RunsKeeps
<1>3. CASE Refuses \/ Helps \/ CreateUnopened \/ FailureExits
  BY <1>1, <1>3, EarlyEndKeeps
<1>4. CASE CreateFails \/ OpenFails
  BY <1>1, <1>4, FailureKeeps
<1>5. CASE CreateDone \/ OpenDone
  BY <1>1, <1>5, HoldingKeeps
<1>6. CASE Inserts \/ Deletes \/ Reads \/ Lists
  BY <1>1, <1>6, CallKeeps
<1>7. CASE SourceFails \/ ClosesInVain \/ CreateCloses
  BY <1>1, <1>7, LateEndKeeps
<1>8. CASE Closes
  BY <1>1, <1>8, ClosesKeeps
<1>9. CASE NamesNothing \/ Exports \/ ExportFails
  BY <1>1, <1>9, ExportKeeps
<1>10. CASE UNCHANGED toolvars
  BY <1>10 DEF toolvars, vars, pointers, start, outcome, Processes, ToolTypeOK, TypeOK,
               Staged, FailedBy, Command, LineError, Dangles
<1> QED
  BY <1>2, <1>3, <1>4, <1>5, <1>6, <1>7, <1>8, <1>9, <1>10 DEF ToolNext

\* The state of every process is well typed: what it holds open is never
\* anything but the whole file, and what reads have written are images.
THEOREM ToolTypeCorrect == ToolSpec => []ToolTypeOK
<1>1. ToolInit => Processes
  BY ToolInitKeeps
<1>2. Processes /\ [ToolNext]_toolvars => Processes'
  BY ToolNextKeeps
<1>3. Processes => ToolTypeOK
  BY DEF Processes
<1> QED
  BY <1>1, <1>2, <1>3, PTL DEF ToolSpec

-----------------------------------------------------------------------------
(* The ends that no exit code tells. *)

\* A step that ends a process ends it in one of these actions.
LEMMA Ends ==
  ASSUME Processes, [ToolNext]_toolvars, Ended
  PROVE  \/ Refuses \/ Helps \/ CreateUnopened \/ FailureExits \/ SourceFails
         \/ Closes \/ ClosesInVain \/ CreateCloses
         \/ NamesNothing \/ Exports \/ ExportFails
<1>1. ~ \E argv : Runs(argv)
  BY DEF Runs, Ended
<1>2. ~CreateFails /\ ~CreateDone /\ ~OpenFails /\ ~OpenDone
  BY DEF CreateFails, CreateDone, OpenFails, OpenDone, Fails, Holding, Ended
<1>3. ~Inserts /\ ~Deletes /\ ~Reads /\ ~Lists
  BY DEF Inserts, Deletes, Reads, Lists, CallReturns, Ended
<1>4. ~UNCHANGED toolvars
  BY DEF toolvars, Ended
<1> QED
  BY <1>1, <1>2, <1>3, <1>4 DEF ToolNext

\* Whatever may fail, and whatever the library returns: a process closes or frees
\* something twice only as a create that failed or as a list that could not read
\* the header or get memory, and it ends by a signal only then, where it closes
\* what could not be opened, or where a read has no memory for a file's name.
THEOREM ToolCrashHasCause == ToolSpec => CrashesHaveCause
<1> DEFINE Cause ==
      Ended =>
        /\ twice' => \/ Command = "create" /\ cause' \in {"write", "alloc"}
                     \/ Command = "list" /\ cause' \in {"header", "alloc"}
        /\ code' = "crashed" => \/ twice'
                                \/ Command = "create" /\ cause' = "fopen"
                                \/ Command = "read" /\ cause' \in {"name", "target"}
<1>1. Processes /\ [ToolNext]_toolvars => Cause
  <2> SUFFICES ASSUME Processes, [ToolNext]_toolvars, Ended
               PROVE  Cause
    OBVIOUS
  <2>1. twice = FALSE /\ code # "crashed"
    BY DEF Ended, Processes, Staged
  <2>2. CASE Refuses
    <3>1. LineError # "crashed"
      BY LineFacts DEF Ended
    <3> QED
      BY <2>1, <2>2, <3>1 DEF Refuses, Exits, outcome
  <2>3. CASE Helps \/ SourceFails \/ Closes \/ ClosesInVain \/ CreateCloses \/ Exports
    <3>1. twice' = twice
      BY <2>3 DEF Helps, SourceFails, Closes, ClosesInVain, CreateCloses, Exports, outcome
    <3>2. code' # "crashed"
      BY <2>1, <2>3 DEF Helps, SourceFails, Closes, ClosesInVain, CreateCloses, Exports,
                        Exits, KeepsImage
    <3> QED
      BY <2>1, <3>1, <3>2
  <2>4. CASE CreateUnopened
    BY <2>1, <2>4 DEF CreateUnopened, Accepted
  <2>5. CASE FailureExits
    <3>1. /\ stage = "failed" /\ cause' = cause
          /\ twice' = (ClosesAgain /\ Dangles)
          /\ code' = "crashed" => twice'
      BY <2>1, <2>5 DEF FailureExits, Exits
    <3>2. twice' => \/ Command = "create" /\ cause \in {"write", "alloc"}
                    \/ Command = "list" /\ cause \in {"header", "alloc"}
      BY <3>1 DEF Processes, FailedBy, ClosesAgain
    <3> QED
      BY <3>1, <3>2
  <2>6. CASE NamesNothing \/ ExportFails
    BY <2>1, <2>6 DEF NamesNothing, ExportFails, Exits, Processes, Staged
  <2> QED
    BY <2>2, <2>3, <2>4, <2>5, <2>6, Ends
<1>2. ToolInit => Processes
  BY ToolInitKeeps
<1>3. Processes /\ [ToolNext]_toolvars => Processes'
  BY ToolNextKeeps
<1>4. ToolSpec => [][Cause]_toolvars
  BY <1>1, <1>2, <1>3, PTL DEF ToolSpec
<1> QED
  BY <1>4 DEF CrashesHaveCause

-----------------------------------------------------------------------------
(* The images that a process leaves. *)

\* A call that returns an error leaves the images in the file, and so does every
\* read: a read that writes an entry writes the one it has found there.
LEMMA InsertErrorHarmless ==
  ASSUME Faults \subseteq {"read"}, NEW id, NEW img, InsertCall(id, img),
         reply'.err # "ERR_NONE"
  PROVE  disk_metadata' = disk_metadata
<1>1. CASE InsertFull(id, img) \/ InsertNowhere(id, img)
  BY <1>1 DEF InsertFull, InsertNowhere, disk
<1>2. ASSUME NEW i \in Slots, InsertUndecodable(i, id, img) \/ InsertRefused(i, id, img)
      PROVE  disk_metadata' = disk_metadata
  BY <1>2 DEF InsertUndecodable, InsertRefused, disk
<1>3. \A i \in Slots : ~InsertDone(i, id, img)
  BY DEF InsertDone, Reply
<1>4. \A i \in Slots : /\ ~InsertFailsAtData(i, id, img)
                      /\ ~InsertFailsAtMetadata(i, id, img)
                      /\ ~InsertFailsAtHeader(i, id, img)
  BY DEF InsertFailsAtData, InsertFailsAtMetadata, InsertFailsAtHeader
<1> QED
  BY <1>1, <1>2, <1>3, <1>4 DEF InsertCall

LEMMA DeleteErrorHarmless ==
  ASSUME Faults \subseteq {"read"}, NEW id, DeleteCall(id), reply'.err # "ERR_NONE"
  PROVE  disk_metadata' = disk_metadata
<1>1. ~DeleteDone(id)
  BY DEF DeleteDone, Reply
<1>2. ~DeleteFailsAtMetadata(id) /\ ~DeleteFailsAtHeader(id)
  BY DEF DeleteFailsAtMetadata, DeleteFailsAtHeader
<1> QED
  BY <1>1, <1>2 DEF DeleteCall, DeleteMissing, disk

LEMMA ReadHarmless ==
  ASSUME Faults \subseteq {"read"}, TypeOK, metadata = disk_metadata,
         NEW id, NEW res, ReadCall(id, res)
  PROVE  Visible(disk_metadata') = Visible(disk_metadata)
<1>1. CASE ReadMissing(id, res)
  BY <1>1 DEF ReadMissing, disk
<1>2. ASSUME NEW i \in Slots,
             \/ ReadStored(i, id, res)
             \/ ReadOutOfBounds(i, id, res)
             \/ ReadUndecodable(i, id, res)
             \/ ReadFails(i, id, res)
      PROVE  disk_metadata' = disk_metadata
  BY <1>2 DEF ReadStored, ReadOutOfBounds, ReadUndecodable, ReadFails, disk
<1>3. ASSUME NEW i \in Slots, ReadResized(i, id, res)
      PROVE  Visible(disk_metadata') = Visible(disk_metadata)
  <2>1. disk_metadata' = [disk_metadata EXCEPT ![i] = ResizedEntry(i, res)]
    BY <1>3 DEF ReadResized
  <2>2. disk_metadata \in [Slots -> Metadata] /\ disk_metadata[i] \in Metadata
    BY DEF TypeOK
  <2>3. /\ ResizedEntry(i, res).img_id = disk_metadata[i].img_id
        /\ ResizedEntry(i, res).SHA = disk_metadata[i].SHA
        /\ ResizedEntry(i, res).is_valid = disk_metadata[i].is_valid
    BY <2>2 DEF ResizedEntry, Metadata
  <2>4. \A j \in Slots : /\ disk_metadata'[j].img_id = disk_metadata[j].img_id
                        /\ disk_metadata'[j].SHA = disk_metadata[j].SHA
                        /\ disk_metadata'[j].is_valid = disk_metadata[j].is_valid
    BY <2>1, <2>2, <2>3
  <2>5. Valid(disk_metadata') = Valid(disk_metadata)
    BY <2>4 DEF Valid
  <2>6. \A j \in Valid(disk_metadata) :
          <<disk_metadata'[j].img_id, disk_metadata'[j].SHA>>
            = <<disk_metadata[j].img_id, disk_metadata[j].SHA>>
    BY <2>4 DEF Valid
  <2> QED
    BY <2>5, <2>6 DEF Visible
<1>4. \A i \in Slots : ~ReadFailsAtMetadata(i, id, res)
  BY DEF ReadFailsAtMetadata
<1> QED
  BY <1>1, <1>2, <1>3, <1>4 DEF ReadCall

\* Without a change of the file, or of what it shows, it holds the same.
LEMMA SameHolds ==
  ASSUME extent' = extent, Visible(disk_metadata') = Visible(disk_metadata)
  PROVE  Holds' = Holds
<1>1. Visible(disk_metadata)' = Visible(disk_metadata')
  BY DEF Visible, Valid
<1> QED
  BY <1>1 DEF Holds

LEMMA ToolNextUntouched ==
  ASSUME Faults \subseteq {"read"}, Processes, Untouched, [ToolNext]_toolvars
  PROVE  Untouched'
<1>1. ASSUME NEW argv, Runs(argv)
      PROVE  Untouched'
  <2>1. extent' = extent /\ disk_metadata' = disk_metadata
    BY <1>1 DEF Runs, vars
  <2>2. Holds' = Holds
    BY <2>1, SameHolds
  <2> QED
    BY <1>1, <2>2 DEF Runs, Untouched
<1>2. CASE stage' = "shell"
  BY <1>2 DEF Untouched
<1>3. CASE CreateFails \/ CreateDone
  <2>1. /\ Command = "create" /\ UNCHANGED start /\ stage = "main"
        /\ stage' = "failed" \/ (stage' = "close" /\ code' = code)
    BY <1>3 DEF CreateFails, CreateDone, Accepted, Fails, Holding
  <2>2. Command' = Command
    BY <2>1, StartStays
  <2> QED
    BY <2>1, <2>2 DEF Untouched
<1>4. CASE OpenFails \/ OpenDone
  <2>1. /\ stage = "main" /\ UNCHANGED start
        /\ \/ stage' = "failed"
           \/ stage' \in {"source", "call"} /\ code' = code /\ metadata' = disk_metadata'
    BY <1>4 DEF OpenFails, OpenDone, Opens, Accepted, Fails, Holding, Open, disk
  <2>2. extent' = extent /\ disk_metadata' = disk_metadata
    BY <1>4 DEF OpenFails, OpenDone, Open, disk, vars
  <2>3. Holds' = Holds /\ before' = before
    BY <2>1, <2>2, SameHolds, StartStays
  <2> QED
    BY <2>1, <2>3 DEF Untouched
<1>5. CASE Inserts \/ Deletes \/ Reads \/ Lists
  <2>1. /\ stage \in {"source", "call"} /\ stage' = "close" /\ UNCHANGED start
        /\ extent' = extent
    BY <1>5 DEF Inserts, Deletes, Reads, Lists, CallReturns
  <2>2. Command' = Command /\ before' = before
    BY <2>1, StartStays
  <2>3. code' # "ERR_NONE" \/ Command = "read" => Visible(disk_metadata') = Visible(disk_metadata)
    <3>1. CASE Inserts
      <4>1. Command = "insert" /\ code' = reply'.err
        BY <1>5, <3>1 DEF Inserts, CallReturns, Processes, Staged
      <4>2. \E img : InsertCall(line[3], img)
        BY <3>1 DEF Inserts
      <4> QED
        BY <4>1, <4>2, InsertErrorHarmless
    <3>2. CASE Deletes
      <4>1. Command = "delete" /\ code' = reply'.err /\ DeleteCall(line[3])
        BY <3>2 DEF Deletes, CallReturns
      <4> QED
        BY <4>1, DeleteErrorHarmless
    <3>3. CASE Reads
      <4>1. ReadCall(line[3], ReadResolution(line)) /\ metadata = disk_metadata /\ TypeOK
        BY <2>1, <3>3 DEF Reads, Untouched, Processes, ToolTypeOK
      <4> QED
        BY <4>1, ReadHarmless
    <3>4. CASE Lists
      BY <3>4 DEF Lists, ListStdout, disk
    <3> QED
      BY <1>5, <3>1, <3>2, <3>3, <3>4
  <2>4. code' # "ERR_NONE" \/ Command = "read" => Holds' = before'
    BY <2>1, <2>2, <2>3, SameHolds DEF Untouched
  <2> QED
    BY <2>1, <2>2, <2>4 DEF Untouched
<1>6. CASE Closes /\ stage' # "shell"
  <2>1. HasImage /\ stage = "close" /\ stage' = "write" /\ UNCHANGED start
    BY <1>6 DEF Closes, KeepsImage, Exits
  <2>2. extent' = extent /\ disk_metadata' = disk_metadata
    BY <1>6 DEF Closes, Close, disk
  <2>3. Holds' = Holds /\ before' = before
    BY <2>1, <2>2, SameHolds, StartStays
  <2> QED
    BY <2>1, <2>3 DEF HasImage, Untouched
<1>7. CASE UNCHANGED toolvars
  <2>1. /\ extent' = extent /\ disk_metadata' = disk_metadata /\ metadata' = metadata
        /\ stage' = stage /\ code' = code /\ UNCHANGED start
    BY <1>7 DEF toolvars, vars
  <2>2. Holds' = Holds /\ before' = before /\ Command' = Command
    BY <2>1, SameHolds, StartStays
  <2> QED
    BY <2>1, <2>2 DEF Untouched
<1>8. CASE \/ Refuses \/ Helps \/ CreateUnopened \/ FailureExits \/ SourceFails
           \/ ClosesInVain \/ CreateCloses \/ NamesNothing \/ Exports \/ ExportFails
  BY <1>2, <1>8
  DEF Refuses, Helps, CreateUnopened, FailureExits, SourceFails, ClosesInVain,
      CreateCloses, NamesNothing, Exports, ExportFails, Exits
<1> QED
  BY <1>1, <1>2, <1>3, <1>4, <1>5, <1>6, <1>7, <1>8 DEF ToolNext

\* While every write that a call of the library makes works, whatever else fails
\* and however the process ends: a command that does not return 0 leaves the images
\* as it has found them, but for a create that has emptied the file.
THEOREM ToolFailureIsHarmless ==
  ASSUME Faults \subseteq {"read"}
  PROVE  ToolSpec => FailureIsHarmless
<1> DEFINE Harmless ==
      Ended /\ code' # "ERR_NONE" /\ ~(Command = "create" /\ cause' \in {"write", "alloc"})
        => Holds' = before
<1>1. Processes /\ Untouched /\ [ToolNext]_toolvars => Harmless
  <2> SUFFICES ASSUME Processes, Untouched, [ToolNext]_toolvars, Ended, code' # "ERR_NONE",
                      ~(Command = "create" /\ cause' \in {"write", "alloc"})
               PROVE  Holds' = before
    OBVIOUS
  <2>1. ~CreateCloses /\ ~Exports
    BY DEF CreateCloses, Exports, Exits
  <2>2. \/ Refuses \/ Helps \/ CreateUnopened \/ FailureExits \/ SourceFails
        \/ Closes \/ ClosesInVain \/ NamesNothing \/ ExportFails
    BY <2>1, Ends
  <2>3. extent' = extent /\ disk_metadata' = disk_metadata
    BY <2>2 DEF Refuses, Helps, CreateUnopened, FailureExits, SourceFails, Closes,
                ClosesInVain, NamesNothing, ExportFails, Close, disk, vars
  <2>4. Holds' = Holds
    BY <2>3, SameHolds
  <2>5. CASE stage \in {"main", "source", "write"}
    BY <2>4, <2>5 DEF Untouched
  <2>6. CASE FailureExits
    <3>1. stage = "failed" /\ Command # "create"
      BY <2>6 DEF FailureExits, Processes, FailedBy
    <3> QED
      BY <2>4, <3>1 DEF Untouched
  <2>7. CASE Closes \/ ClosesInVain
    <3>1. stage = "close" /\ code' = code
      BY <2>7 DEF Closes, ClosesInVain, KeepsImage, Exits
    <3> QED
      BY <2>4, <3>1 DEF Untouched
  <2> QED
    BY <2>2, <2>5, <2>6, <2>7 DEF Refuses, Helps, CreateUnopened, Accepted, SourceFails,
                                  NamesNothing, ExportFails
<1>2. ToolInit => Processes /\ Untouched
  BY ToolInitKeeps DEF ToolInit, Untouched
<1>3. Processes /\ Untouched /\ [ToolNext]_toolvars => Processes' /\ Untouched'
  BY ToolNextKeeps, ToolNextUntouched
<1>4. ToolSpec => [][Harmless]_toolvars
  BY <1>1, <1>2, <1>3, PTL DEF ToolSpec
<1> QED
  BY <1>4 DEF FailureIsHarmless

-----------------------------------------------------------------------------
(* What a call that returns ERR_NONE has done. *)

\* do_insert has added one entry, of the id it was given.
LEMMA InsertDoes ==
  ASSUME Faults \subseteq {"read"}, Safe, NEW id \in Ids, NEW img \in Images,
         InsertCall(id, img), reply'.err = "ERR_NONE"
  PROVE  LET old == Visible(disk_metadata)
             new == Visible(disk_metadata')
         IN  \E i \in DOMAIN new \ DOMAIN old : new[i][1] = id /\ Without(new, i) = old
<1> DEFINE old == Visible(disk_metadata)
           new == Visible(disk_metadata')
<1>1. ~InsertFull(id, img)
  BY DEF InsertFull, Reply
<1>2. ~InsertNowhere(id, img)
  BY NeverNowhere
<1>3. \A i \in Slots : ~InsertUndecodable(i, id, img) /\ ~InsertRefused(i, id, img)
  BY DEF InsertUndecodable, InsertRefused, Reply
<1>4. \A i \in Slots : /\ ~InsertFailsAtData(i, id, img)
                      /\ ~InsertFailsAtMetadata(i, id, img)
                      /\ ~InsertFailsAtHeader(i, id, img)
  BY DEF InsertFailsAtData, InsertFailsAtMetadata, InsertFailsAtHeader
<1>5. PICK i \in Slots : InsertDone(i, id, img)
  BY <1>1, <1>2, <1>3, <1>4 DEF InsertCall
<1>6. /\ InsertAccepted(i, id, img)
      /\ AppendImage(i, id, img)
      /\ disk_metadata' = [disk_metadata EXCEPT ![i] = Entry(i, id, img)]
  BY <1>5 DEF InsertDone
<1>7. /\ TypeOK
      /\ i \notin Valid(metadata)
      /\ i \notin Valid(disk_metadata)
      /\ disk_metadata \in [Slots -> Metadata]
  BY <1>6, InsertSlot DEF InsertAccepted, Safe, TypeOK
<1>8. Entry(i, id, img).is_valid /\ Entry(i, id, img).img_id = id
  BY <1>6, <1>7, AcceptedEntry, EntryNamed
<1>9. Valid(disk_metadata') = Valid(disk_metadata) \union {i}
  BY <1>6, <1>7, <1>8 DEF Valid
<1>10. disk_metadata'[i].img_id = id
  BY <1>6, <1>7, <1>8
<1>11. \A j \in Valid(disk_metadata) : disk_metadata'[j] = disk_metadata[j]
  BY <1>6, <1>7 DEF Valid
<1>12. DOMAIN new = Valid(disk_metadata) \union {i} /\ DOMAIN old = Valid(disk_metadata)
  BY <1>9 DEF Visible
<1>13. new[i][1] = id
  BY <1>9, <1>10 DEF Visible
<1>14. Without(new, i) = old
  <2>1. DOMAIN new \ {i} = Valid(disk_metadata)
    BY <1>7, <1>12
  <2>2. \A j \in Valid(disk_metadata) : new[j] = <<disk_metadata[j].img_id, disk_metadata[j].SHA>>
    BY <1>9, <1>11 DEF Visible
  <2> HIDE DEF new
  <2> QED
    BY <2>1, <2>2 DEF Without, Visible
<1> HIDE DEF new, old
<1>15. i \in DOMAIN new \ DOMAIN old
  BY <1>7, <1>12
<1> QED
  BY <1>13, <1>14, <1>15 DEF new, old

\* do_delete has taken one entry of the id away.
LEMMA DeleteDoes ==
  ASSUME Faults \subseteq {"read"}, Safe, NEW id \in Ids,
         DeleteCall(id), reply'.err = "ERR_NONE"
  PROVE  LET old == Visible(disk_metadata)
         IN  \E i \in DOMAIN old : old[i][1] = id /\ Visible(disk_metadata') = Without(old, i)
<1> DEFINE k == First(Named(metadata, id))
           old == Visible(disk_metadata)
<1>1. DeleteDone(id)
  BY DEF DeleteCall, DeleteMissing, DeleteFailsAtMetadata, DeleteFailsAtHeader, Reply
<1>2. is_open /\ disk_metadata' = [metadata EXCEPT ![k].is_valid = FALSE]
  BY <1>1 DEF DeleteDone, Deleted
<1>3. k \in Named(metadata, id)
  <2>1. Named(metadata, id) \in SUBSET Slots
    BY DEF Named, Valid
  <2> QED
    BY <1>1, <2>1, FirstIsLeast DEF DeleteDone
<1>4. metadata \in [Slots -> Metadata]
  BY DEF Safe, TypeOK
<1>5. /\ Valid(metadata) = Valid(disk_metadata)
      /\ \A j \in Valid(metadata) : metadata[j] = disk_metadata[j]
  BY <1>2, OpenAgree
<1>6. k \in Valid(metadata) /\ k \in Slots /\ metadata[k].img_id = id
  BY <1>3 DEF Named, Valid
<1> HIDE DEF k
<1>7. Valid(disk_metadata') = Valid(disk_metadata) \ {k}
  BY <1>2, <1>4, <1>5, <1>6 DEF Valid, Metadata
<1>8. \A j \in Valid(disk_metadata) \ {k} : disk_metadata'[j] = disk_metadata[j]
  BY <1>2, <1>4, <1>5, <1>6 DEF Valid
<1>9. DOMAIN old = Valid(disk_metadata) /\ old[k][1] = id
  BY <1>5, <1>6 DEF Visible
<1>10. Visible(disk_metadata') = Without(old, k)
  BY <1>7, <1>8 DEF Visible, Without
<1> QED
  BY <1>5, <1>6, <1>9, <1>10

\* do_read hands out the image of an entry of the id, at the resolution asked for.
LEMMA ReadDoes ==
  ASSUME Faults \subseteq {"read"}, Safe, NEW id \in Ids, NEW res \in Res,
         ReadCall(id, res), reply'.err = "ERR_NONE"
  PROVE  LET old == Visible(disk_metadata)
         IN  \E i \in DOMAIN old : /\ old[i][1] = id
                                  /\ reply'.out = Blob(old[i][2], res)
                                  /\ reply'.out # NoImage
<1>1. PICK i \in Slots : ReadStored(i, id, res) \/ ReadResized(i, id, res)
  <2>1. ~ReadMissing(id, res)
    BY DEF ReadMissing, Reply
  <2>2. \A i \in Slots : /\ ~ReadOutOfBounds(i, id, res)
                         /\ ~ReadUndecodable(i, id, res)
                         /\ ~ReadFailsAtMetadata(i, id, res)
                         /\ ~ReadFails(i, id, res)
    BY DEF ReadOutOfBounds, ReadUndecodable, ReadFailsAtMetadata, ReadFails, ReadErrors,
           Reply
  <2> QED
    BY <2>1, <2>2 DEF ReadCall
<1>2. ReadAt(i, id)
  BY <1>1 DEF ReadStored, ReadResized, Resizes
<1>3. /\ i \in Named(disk_metadata, id)
      /\ metadata[i] = disk_metadata[i]
      /\ metadata[i] \in Metadata
      /\ EntryIntact(metadata[i], data)
      /\ metadata[i].SHA \in Images
  BY <1>2, ReadEntry
<1>4. reply'.out = Blob(metadata[i].SHA, res)
  <2>1. CASE ReadStored(i, id, res)
    <3>1. res = ORIG_RES \/ metadata[i].size[res] # 0 \/ metadata[i].offset[res] # 0
      BY <2>1 DEF ReadStored, CallsResize
    <3>2. Content(metadata[i], data, res) = [img |-> metadata[i].SHA, res |-> res]
      BY <1>3, <3>1, StoredContent
    <3> QED
      BY <2>1, <3>2 DEF ReadStored, Reply, Blob
  <2>2. CASE ReadResized(i, id, res)
    <3>1. Content(metadata[i], data, ORIG_RES) = Blob(metadata[i].SHA, ORIG_RES)
      BY <1>3 DEF EntryIntact
    <3>2. reply'.out = Resized(i, res)
      BY <2>2 DEF ReadResized, Reply
    <3> QED
      BY <3>1, <3>2 DEF Resized, Blob
  <2> QED
    BY <1>1, <2>1, <2>2
<1>5. Blob(metadata[i].SHA, res) # NoImage
  BY <1>3, BlobIsImage
<1> QED
  BY <1>3, <1>4, <1>5 DEF Visible, Named

\* The loop of do_list shows every entry, and the header counts them.
LEMMA ListDoes ==
  ASSUME Safe, ListStdout
  PROVE  LET out == Prints(DOMAIN reply'.ids)
         IN  /\ out.count = Cardinality(DOMAIN out.entries)
             /\ Visible(disk_metadata) = [i \in DOMAIN out.entries |->
                                            <<out.entries[i].img_id, out.entries[i].SHA>>]
<1>1. is_open /\ header.nb_files = Cardinality(Valid(metadata))
  BY OpenAgree DEF ListStdout
<1>2. DOMAIN reply'.ids = Valid(metadata)
  <2>1. header.nb_files = 0 => Valid(metadata) = {}
    BY <1>1, ValidFinite, FS_EmptySet
  <2>2. DOMAIN Unlisted = {} /\ DOMAIN Listing(metadata) = Valid(metadata)
    BY BlankType DEF Unlisted, Listing
  <2> QED
    BY <2>1, <2>2 DEF ListStdout, Shown, Reply
<1>3. Prints(DOMAIN reply'.ids) =
        [count |-> header.nb_files, entries |-> [i \in Valid(metadata) |-> metadata[i]]]
  BY <1>2 DEF Prints
<1>4. /\ Valid(metadata) = Valid(disk_metadata)
      /\ \A j \in Valid(metadata) : metadata[j] = disk_metadata[j]
  BY <1>1, OpenAgree
<1> QED
  BY <1>1, <1>3, <1>4 DEF Visible

-----------------------------------------------------------------------------
(* Exit code 0. *)

\* The image that a read has been handed.
Handed ==
  \E i \in DOMAIN before.images :
    /\ before.images[i][1] = line[3]
    /\ image = Blob(before.images[i][2], ReadResolution(line))
    /\ image # NoImage

\* What a process has done when its call has returned ERR_NONE.
Performed ==
  /\ Command = "create" => Holds = [extent |-> "whole", images |-> <<>>]
  /\ Command = "insert" => Inserted(Holds.images)
  /\ Command = "delete" => Removed(Holds.images)
  /\ Command = "read" => Handed
  /\ Command = "list" => Holds = before /\ Showed(printed)

\* As long as no close has lost a buffer, the file is what the calls rely on.
Achieved ==
  /\ lost \/ Safe
  /\ stage = "failed" => code # "ERR_NONE"
  /\ stage = "write" \/ (stage = "close" /\ Command = "create") => code = "ERR_NONE"
  /\ stage \in {"close", "write"} /\ code = "ERR_NONE" /\ ~lost => Performed

\* do_create makes a file that the library can rely on, whatever was there.
LEMMA CreateIsSafe ==
  ASSUME TypeOK', Create
  PROVE  Safe'
<1>1. /\ is_open' = FALSE /\ disk_header' = BlankHeader /\ disk_metadata' = BlankIndex
  BY DEF Create, memory, TypeOK
<1>2. Valid(disk_metadata') = {}
  BY <1>1, BlankType
<1>3. Cardinality({}) = 0 /\ BlankHeader.nb_files = 0
  BY FS_EmptySet DEF BlankHeader
<1>4. FileInSync' /\ Counted'
  BY <1>1, <1>2, <1>3 DEF FileInSync, Counted
<1>5. Intact' /\ SharedOriginals'
  BY <1>2 DEF Intact, SharedOriginals
<1> QED
  BY <1>4, <1>5 DEF Safe

LEMMA SafeUnlessLost ==
  ASSUME Faults \subseteq {"read"}, Processes, Achieved, ToolNext
  PROVE  lost' \/ Safe'
<1>1. TypeOK'
  BY LibraryTyped
<1>2. CASE ClosesInVain
  BY <1>2 DEF ClosesInVain
<1>3. CASE CreateFails \/ CreateDone
  BY <1>1, <1>3, CreateIsSafe DEF CreateFails, CreateDone
<1>4. CASE ~ClosesInVain /\ ~CreateFails /\ ~CreateDone
  <2>1. [Next]_vars
    BY <1>4, LibraryCalls
  <2>2. lost' \/ lost' = lost
    <3>1. ASSUME NEW argv, Runs(argv)
          PROVE  lost' = lost
      BY <3>1 DEF Runs
    <3>2. Refuses \/ Helps \/ CreateUnopened \/ OpenFails \/ OpenDone \/ FailureExits => lost' = lost
      BY DEF Refuses, Helps, CreateUnopened, OpenFails, OpenDone, FailureExits, outcome
    <3>3. Inserts \/ Deletes \/ Reads \/ Lists => lost' = lost
      BY DEF Inserts, Deletes, Reads, Lists, CallReturns, outcome
    <3>4. SourceFails \/ Closes \/ NamesNothing \/ Exports \/ ExportFails => lost' = lost
      BY DEF SourceFails, Closes, NamesNothing, Exports, ExportFails, outcome
    <3>5. CreateCloses => lost' \/ lost' = lost
      BY DEF CreateCloses
    <3> QED
      BY <1>4, <3>1, <3>2, <3>3, <3>4, <3>5 DEF ToolNext
  <2>3. Safe => Safe'
    BY <2>1, NextSafe
  <2> QED
    BY <2>2, <2>3 DEF Achieved
<1> QED
  BY <1>2, <1>3, <1>4

\* do_create leaves a whole file without images.
LEMMA CreatePerforms ==
  ASSUME CreateDone
  PROVE  Performed'
<1>1. Command' = "create"
  BY StartStays DEF CreateDone, Accepted, Holding
<1>2. extent' = "whole" /\ disk_metadata' = BlankIndex
  BY DEF CreateDone, Create
<1>3. Visible(BlankIndex) = <<>>
  BY BlankType DEF Visible
<1>4. Holds' = [extent |-> "whole", images |-> <<>>]
  BY <1>2, <1>3 DEF Holds, Visible, Valid
<1> QED
  BY <1>1, <1>4 DEF Performed

\* The calls of the library, from an open file to what it holds afterwards.
LEMMA CallPerforms ==
  ASSUME Faults \subseteq {"read"}, Processes, Untouched, Safe,
         Inserts \/ Deletes \/ Reads \/ Lists, code' = "ERR_NONE"
  PROVE  Performed'
<1>1. /\ stage \in {"source", "call"} /\ UNCHANGED start /\ extent' = extent
  BY DEF Inserts, Deletes, Reads, Lists, CallReturns
<1>2. /\ Command' = Command /\ line' = line /\ before' = before
  BY <1>1, StartStays
<1>3. is_open
  BY DEF Inserts, Deletes, Reads, Lists, InsertCall, DeleteCall, ReadCall, ListStdout,
         InsertFull, InsertNowhere, InsertUndecodable, InsertRefused, InsertDone,
         InsertFailsAtData, InsertFailsAtMetadata, InsertFailsAtHeader,
         InsertAccepted, InsertAt,
         DeleteMissing, DeleteDone, DeleteFailsAtMetadata, DeleteFailsAtHeader,
         ReadMissing, ReadStored, ReadOutOfBounds, ReadUndecodable, ReadResized,
         ReadFailsAtMetadata, ReadFails, Resizes, ReadAt
<1>4. extent = "whole"
  BY <1>3 DEF Processes, ToolTypeOK
<1>5. before.images = Visible(disk_metadata) /\ Holds = before
  BY <1>1, <1>4 DEF Untouched, Holds
<1>6. Holds.images' = Visible(disk_metadata')
  BY <1>1, <1>4 DEF Holds, Visible, Valid
<1>7. line[3] \in Ids \/ Command \notin {"insert", "read", "delete"}
  BY <1>1, LineFacts DEF Processes, Staged
<1>8. CASE Inserts
  <2>1. Command = "insert" /\ reply'.err = "ERR_NONE"
    BY <1>8 DEF Inserts, CallReturns, Processes, Staged
  <2>2. PICK img \in Contents(Source) : InsertCall(line[3], img)
    BY <1>8 DEF Inserts
  <2>3. img \in Images
    BY <1>8, <2>2, SourceImages DEF Inserts
  <2>4. Inserted(Visible(disk_metadata'))
    BY <1>5, <1>7, <2>1, <2>2, <2>3, InsertDoes DEF Inserted
  <2>5. Inserted(Holds.images)'
    BY <1>2, <1>6, <2>4 DEF Inserted, Without
  <2> QED
    BY <1>2, <2>1, <2>5 DEF Performed
<1>9. CASE Deletes
  <2>1. Command = "delete" /\ DeleteCall(line[3]) /\ reply'.err = "ERR_NONE"
    BY <1>9 DEF Deletes, CallReturns
  <2>2. Removed(Visible(disk_metadata'))
    BY <1>5, <1>7, <2>1, DeleteDoes DEF Removed
  <2>3. Removed(Holds.images)'
    BY <1>2, <1>6, <2>2 DEF Removed, Without
  <2> QED
    BY <1>2, <2>1, <2>3 DEF Performed
<1>10. CASE Reads
  <2>1. /\ Command = "read" /\ ReadCall(line[3], ReadResolution(line))
        /\ reply'.err = "ERR_NONE" /\ image' = reply'.out
    BY <1>10 DEF Reads, CallReturns
  <2>2. ReadResolution(line) \in Res
    BY <1>1, <2>1, LineFacts DEF Processes, Staged
  <2>3. \E i \in DOMAIN before.images :
          /\ before.images[i][1] = line[3]
          /\ image' = Blob(before.images[i][2], ReadResolution(line))
          /\ image' # NoImage
    BY <1>5, <1>7, <2>1, <2>2, ReadDoes
  <2>4. ReadResolution(line)' = ReadResolution(line)
    BY <1>2
  <2>5. Handed'
    BY <1>2, <2>3, <2>4 DEF Handed
  <2> QED
    BY <1>2, <2>1, <2>5 DEF Performed
<1>11. CASE Lists
  <2>1. Command = "list" /\ ListStdout /\ printed' = Prints(DOMAIN reply'.ids)
    BY <1>11 DEF Lists
  <2>2. disk_metadata' = disk_metadata
    BY <2>1 DEF ListStdout, disk
  <2>3. Holds' = before'
    BY <1>1, <1>2, <1>5, <2>2, SameHolds
  <2>4. Showed(printed)'
    BY <1>2, <1>5, <2>1, ListDoes DEF Showed
  <2> QED
    BY <1>2, <2>1, <2>3, <2>4 DEF Performed
<1> QED
  BY <1>8, <1>9, <1>10, <1>11

LEMMA ToolNextAchieved ==
  ASSUME Faults \subseteq {"read"}, Processes, Untouched, Achieved, [ToolNext]_toolvars
  PROVE  Achieved'
<1>1. CASE UNCHANGED toolvars
  <2>1. UNCHANGED vars /\ UNCHANGED start
        /\ UNCHANGED <<stage, code, image, printed, extent, lost>>
    BY <1>1 DEF toolvars, pointers, outcome
  <2>2. Safe => Safe'
    BY <2>1, NextSafe
  <2>3. Command' = Command /\ line' = line /\ before' = before
    BY <2>1, StartStays
  <2>4. Holds' = Holds /\ Holds.images' = Holds.images
    BY <2>1, SameHolds DEF vars
  <2>5. /\ Inserted(Holds.images) => Inserted(Holds.images)'
        /\ Removed(Holds.images) => Removed(Holds.images)'
    <3>1. ASSUME Inserted(Holds.images)
          PROVE  Inserted(Holds.images)'
      BY <2>3, <2>4, <3>1 DEF Inserted, Without
    <3>2. ASSUME Removed(Holds.images)
          PROVE  Removed(Holds.images)'
      BY <2>3, <2>4, <3>2 DEF Removed, Without
    <3> QED
      BY <3>1, <3>2
  <2>6. (Handed => Handed') /\ (Showed(printed) => Showed(printed)')
    BY <2>1, <2>3 DEF Handed, ReadResolution, Showed
  <2>7. Performed => Performed'
    BY <2>3, <2>4, <2>5, <2>6 DEF Performed
  <2> QED
    BY <2>1, <2>2, <2>3, <2>7 DEF Achieved
<1>2. CASE ToolNext
  <2>1. lost' \/ Safe'
    BY <1>2, SafeUnlessLost
  <2>2. ASSUME stage' \notin {"failed", "close", "write"}
        PROVE  Achieved'
    BY <2>1, <2>2 DEF Achieved
  <2>3. CASE CreateFails \/ OpenFails
    <3>1. stage' = "failed" /\ code' # "ERR_NONE"
      BY <2>3 DEF CreateFails, OpenFails, Fails
    <3> QED
      BY <2>1, <3>1 DEF Achieved
  <2>4. CASE CreateDone
    <3>1. stage' = "close" /\ code' = "ERR_NONE"
      BY <2>4 DEF CreateDone, Accepted, Holding, Untouched
    <3> QED
      BY <2>1, <2>4, <3>1, CreatePerforms DEF Achieved
  <2>5. CASE Inserts \/ Deletes \/ Reads \/ Lists
    <3>1. stage' = "close" /\ lost' = lost
      BY <2>5 DEF Inserts, Deletes, Reads, Lists, CallReturns, outcome
    <3>2. code' = "ERR_NONE" /\ ~lost => Performed'
      BY <2>5, CallPerforms DEF Achieved
    <3>3. Command # "create" /\ UNCHANGED start
      BY <2>5 DEF Inserts, Deletes, Reads, Lists, CallReturns, Processes, Staged
    <3>4. Command' # "create"
      BY <3>3, StartStays
    <3> QED
      BY <2>1, <3>1, <3>2, <3>4 DEF Achieved
  <2>6. CASE Closes /\ stage' # "shell"
    <3>1. /\ HasImage /\ stage = "close" /\ stage' = "write" /\ lost' = lost
          /\ UNCHANGED <<start, code, image>>
      BY <2>6 DEF Closes, KeepsImage, Exits, outcome
    <3>2. Command' = Command /\ line' = line /\ before' = before
      BY <3>1, StartStays
    <3>3. Command = "read" /\ code = "ERR_NONE"
      BY <3>1 DEF HasImage
    <3>4. ~lost => Handed
      BY <3>1, <3>3 DEF Achieved, Performed
    <3>5. Handed => Handed'
      BY <3>1, <3>2 DEF Handed, ReadResolution
    <3>6. ~lost' => Performed'
      BY <3>1, <3>2, <3>3, <3>4, <3>5 DEF Performed
    <3> QED
      BY <2>1, <3>1, <3>3, <3>6 DEF Achieved
  <2>7. CASE \/ Refuses \/ Helps \/ CreateUnopened \/ FailureExits \/ SourceFails
             \/ ClosesInVain \/ CreateCloses \/ NamesNothing \/ Exports \/ ExportFails
    <3>1. stage' = "shell"
      BY <2>7
      DEF Refuses, Helps, CreateUnopened, FailureExits, SourceFails, ClosesInVain,
          CreateCloses, NamesNothing, Exports, ExportFails, Exits
    <3> QED
      BY <2>2, <3>1
  <2>8. CASE OpenDone
    <3>1. stage' \in {"source", "call"}
      BY <2>8 DEF OpenDone, Holding
    <3> QED
      BY <2>2, <3>1
  <2>9. ASSUME NEW argv, Runs(argv)
        PROVE  Achieved'
    <3>1. stage' = "main"
      BY <2>9 DEF Runs
    <3> QED
      BY <2>2, <3>1
  <2> QED
    BY <1>2, <2>2, <2>3, <2>4, <2>5, <2>6, <2>7, <2>8, <2>9 DEF ToolNext
<1> QED
  BY <1>1, <1>2

\* While every write that a call of the library makes works, and as long as no
\* close has lost the last buffer: a command that returns 0 has done what it is
\* for, whatever was in the file and whatever ran before.
THEOREM ToolZeroIsDone ==
  ASSUME Faults \subseteq {"read"}
  PROVE  ToolSpec => ZeroIsDone
<1> DEFINE Done == Ended /\ code' = "ERR_NONE" /\ ~lost' => DoneAsAsked
           All  == Processes /\ Untouched /\ Achieved
<1>1. All /\ [ToolNext]_toolvars => Done
  <2> SUFFICES ASSUME Processes, Untouched, Achieved, [ToolNext]_toolvars,
                      Ended, code' = "ERR_NONE", ~lost'
               PROVE  DoneAsAsked
    OBVIOUS
  <2>1. /\ ~Refuses /\ ~CreateUnopened /\ ~SourceFails
        /\ ~NamesNothing /\ ~ExportFails /\ ~ClosesInVain
    BY DEF Refuses, CreateUnopened, SourceFails, NamesNothing, ExportFails, ClosesInVain,
           Exits
  <2>2. ~FailureExits
    BY DEF FailureExits, Exits, Achieved
  <2>3. CASE Helps
    <3>1. stage = "main" /\ Command = "help" /\ extent' = extent /\ disk_metadata' = disk_metadata
      BY <2>3 DEF Helps, Accepted, vars
    <3>2. Holds' = before
      BY <3>1, SameHolds DEF Untouched
    <3> QED
      BY <3>1, <3>2 DEF DoneAsAsked
  <2>4. CASE CreateCloses
    <3>1. /\ stage = "close" /\ Command = "create" /\ lost' = lost
          /\ extent' = extent /\ disk_metadata' = disk_metadata
      BY <2>4 DEF CreateCloses, vars
    <3>2. code = "ERR_NONE"
      BY <3>1 DEF Achieved
    <3>3. Holds' = [extent |-> "whole", images |-> <<>>]
      BY <3>1, <3>2, SameHolds DEF Achieved, Performed
    <3> QED
      BY <3>1, <3>3 DEF DoneAsAsked
  <2>5. CASE Closes
    <3>1. /\ stage = "close" /\ Command # "create" /\ lost' = lost /\ ~HasImage /\ code = "ERR_NONE"
          /\ extent' = extent /\ disk_metadata' = disk_metadata /\ UNCHANGED printed
      BY <2>5 DEF Closes, Close, disk, outcome, KeepsImage, Exits, Ended
    <3>2. Command \in {"insert", "delete", "list"}
      BY <3>1 DEF HasImage, Processes, Staged, Openers
    <3>3. Holds' = Holds /\ Performed
      BY <3>1, SameHolds DEF Achieved
    <3> QED
      BY <3>2, <3>3 DEF DoneAsAsked, Performed
  <2>6. CASE Exports
    <3>1. /\ stage = "write" /\ Command = "read" /\ lost' = lost
          /\ extent' = extent /\ disk_metadata' = disk_metadata
      BY <2>6 DEF Exports, Processes, Staged, vars
    <3>2. Holds' = before
      BY <3>1, SameHolds DEF Untouched
    <3>3. cause' # "close" => Extracted(files'[Target])
      <4> SUFFICES ASSUME cause' # "close"
                   PROVE  Extracted(files'[Target])
        OBVIOUS
      <4>1. code = "ERR_NONE"
        BY <3>1 DEF Achieved
      <4>2. Handed
        BY <3>1, <4>1 DEF Achieved, Performed
      <4>3. image # NoImage
        BY <4>2 DEF Handed
      <4>4. Writes(Image(image))
        BY <2>6, <4>3 DEF Exports
      <4>5. Target \in Ids \X Res /\ files \in FileTypes
        BY <3>1, LineFacts, ProcessFacts DEF Processes, Staged, Target, CreateName
      <4>6. files'[Target] = Image(image)
        BY <4>4, <4>5 DEF Writes, FileTypes
      <4> QED
        BY <4>2, <4>6 DEF Handed, Extracted
    <3> QED
      BY <3>1, <3>2, <3>3 DEF DoneAsAsked
  <2> QED
    BY <2>1, <2>2, <2>3, <2>4, <2>5, <2>6, Ends
<1>2. ToolInit => All
  <2>1. ToolInit => Safe
    BY InitSafe DEF ToolInit
  <2> QED
    BY <2>1, ToolInitKeeps DEF ToolInit, Untouched, Achieved
<1>3. All /\ [ToolNext]_toolvars => All'
  BY ToolNextKeeps, ToolNextUntouched, ToolNextAchieved
<1>4. ToolSpec => [][Done]_toolvars
  BY <1>1, <1>2, <1>3, PTL DEF ToolSpec
<1> QED
  BY <1>4 DEF ZeroIsDone

-----------------------------------------------------------------------------
(* The loop over argv and the language of the help                         *)

\* The number that a word stands for is the one the conversion finds, and it
\* finds another only if it is 0 or above the limit.
LEMMA AtouintIsDenoted ==
  ASSUME NEW word, NEW limit \in Nat, NEW max \in Nat, limit <= max, max <= UINTMAX_LIMIT
  PROVE  /\ Atouint(word, max) \in 1 .. limit => Denotes(word, Atouint(word, max))
         /\ \A n \in 1 .. limit : Denotes(word, n) => Atouint(word, max) = n
<1> DEFINE v == Numeral[word].value
           m == UINTMAX_LIMIT + 1
<1>1. UINTMAX_LIMIT \in Nat /\ m \in Nat \ {0}
  BY LimitsAssumption
<1>2. ASSUME Atouint(word, max) \in 1 .. limit
      PROVE  Denotes(word, Atouint(word, max))
  <2>1. /\ word \in DOMAIN Numeral /\ ~Numeral[word].rest
        /\ v \in -UINTMAX_LIMIT .. UINTMAX_LIMIT
        /\ Atouint(word, max) = v % m
    BY <1>2 DEF Atouint
  <2>2. v \in Int
    BY <2>1, <1>1
  <2>3. v % m = v \/ v % m = v + m
    <3> HIDE DEF v, m
    <3>1. v % m \in 0 .. m - 1 /\ v = m * (v \div m) + (v % m) /\ v \div m \in Int
      BY <1>1, <2>2
    <3>2. -m < v /\ v < m
      BY <1>1, <2>1, <2>2 DEF m
    <3>3. v \div m \in {-1, 0}
      <4> DEFINE q == v \div m
                 r == v % m
      <4>1. q \in Int /\ r \in Int /\ 0 <= r /\ r < m /\ v = m * q + r
        BY <1>1, <3>1
      <4> HIDE DEF q, r
      <4>2. ASSUME q >= 1
            PROVE  FALSE
        <5>1. m * (q - 1) >= 0 /\ m * q = m * (q - 1) + m
          BY <1>1, <4>1, <4>2
        <5> QED
          BY <1>1, <2>2, <3>2, <4>1, <5>1
      <4>3. ASSUME q <= -2
            PROVE  FALSE
        <5>1. m * (q + 2) <= 0 /\ m * q = m * (q + 2) - m - m
          BY <1>1, <4>1, <4>3
        <5> QED
          BY <1>1, <2>2, <3>2, <4>1, <5>1
      <4> QED
        BY <4>1, <4>2, <4>3 DEF q
    <3> QED
      BY <1>1, <3>1, <3>3
  <2>4. \E k \in {-1, 0} : v = (v % m) + (k * m)
    <3> HIDE DEF v
    <3>1. v % m \in Int
      BY <1>1, <2>2
    <3>2. CASE v % m = v
      BY <2>2, <3>2, <1>1
    <3>3. CASE v % m = v + m
      <4> HIDE DEF m
      <4>1. v = (v % m) + ((-1) * m)
        BY <1>1, <2>2, <3>1, <3>3
      <4> QED
        BY <4>1
    <3> QED
      BY <2>3, <3>2, <3>3
  <2> QED
    BY <2>1, <2>4 DEF Denotes
<1>3. ASSUME NEW n \in 1 .. limit, Denotes(word, n)
      PROVE  Atouint(word, max) = n
  <2>1. /\ word \in DOMAIN Numeral /\ ~Numeral[word].rest
        /\ v = n \/ v = n - m
    BY <1>1, <1>3 DEF Denotes
  <2>2. /\ n \in Nat /\ n <= UINTMAX_LIMIT /\ n <= max /\ n < m
        /\ v \in -UINTMAX_LIMIT .. UINTMAX_LIMIT
    BY <1>1, <2>1
  <2>3. v % m = n
    <3> HIDE DEF v, m
    <3>1. v \in Int
      BY <2>1, <2>2, <1>1
    <3>2. v % m \in 0 .. m - 1 /\ v = m * (v \div m) + (v % m) /\ v \div m \in Int
      BY <1>1, <3>1
    <3> DEFINE q == v \div m
               r == v % m
    <3>3. q \in Int /\ r \in 0 .. m - 1 /\ v = m * q + r
      BY <3>2
    <3> HIDE DEF q, r
    <3>4. CASE v = n
      <4>1. q = 0
        BY <1>1, <2>2, <3>3, <3>4
      <4> QED
        BY <1>1, <3>3, <3>4, <4>1 DEF r
    <3>5. CASE v = n - m
      <4>1. m * (q + 1) + r = n
        BY <1>1, <2>2, <3>3, <3>5
      <4>2. q + 1 = 0
        BY <1>1, <2>2, <3>3, <4>1
      <4> QED
        BY <1>1, <3>3, <4>1, <4>2 DEF r
    <3> QED
      BY <2>1, <3>4, <3>5
  <2> QED
    BY <2>1, <2>2, <2>3 DEF Atouint
<1> QED
  BY <1>2, <1>3

LEMMA OptionFacts ==
  ASSUME NEW o \in Options
  PROVE  /\ Arity(o) \in {1, 2}
         /\ Width(o) \in Nat /\ Limit(o) \in Nat
         /\ Limit(o) <= Width(o) /\ Width(o) <= UINTMAX_LIMIT
  BY LimitsAssumption DEF Options, Arity, Width, Limit

\* The loop takes an option where the help has one, and with the numbers that
\* stand there.
LEMMA OptionIsTaken ==
  ASSUME NEW args, Len(args) \in Nat, NEW i \in 1 .. Len(args)
  PROVE  /\ OptionError(args, i) = "ERR_NONE" <=> OptionAt(args, i)
         /\ OptionAt(args, i) =>
              \A k \in 1 .. Arity(args[i]) :
                /\ Values(args, i)[k] \in 1 .. Limit(args[i])
                /\ Denotes(args[i + k], Values(args, i)[k])
<1> DEFINE o == args[i]
           Fits == \A k \in 1 .. Arity(o) : Values(args, i)[k] \in 1 .. Limit(o)
<1>1. ASSUME o \in Options
      PROVE  \A k \in 1 .. Arity(o) :
               /\ Values(args, i)[k] = Atouint(args[i + k], Width(o))
               /\ Values(args, i)[k] \in 1 .. Limit(o) => Denotes(args[i + k], Values(args, i)[k])
               /\ \A n \in 1 .. Limit(o) : Denotes(args[i + k], n) => Values(args, i)[k] = n
  <2> SUFFICES ASSUME NEW k \in 1 .. Arity(o)
               PROVE  /\ Values(args, i)[k] = Atouint(args[i + k], Width(o))
                      /\ Values(args, i)[k] \in 1 .. Limit(o) =>
                           Denotes(args[i + k], Values(args, i)[k])
                      /\ \A n \in 1 .. Limit(o) :
                           Denotes(args[i + k], n) => Values(args, i)[k] = n
    OBVIOUS
  <2>1. Values(args, i)[k] = Atouint(args[i + k], Width(o))
    BY DEF Values
  <2>2. /\ Width(o) \in Nat /\ Limit(o) \in Nat
        /\ Limit(o) <= Width(o) /\ Width(o) <= UINTMAX_LIMIT
    BY <1>1, OptionFacts
  <2> HIDE DEF o
  <2> QED
    BY <2>1, <2>2, AtouintIsDenoted
<1>2. OptionError(args, i) = "ERR_NONE" <=>
        o \in Options /\ ~(Len(args) - i < Arity(o)) /\ Fits
  BY DEF OptionError
<1>3. OptionAt(args, i) <=>
        o \in Options /\ i + Arity(o) <= Len(args) /\ Fits
  <2>1. ASSUME o \in Options
        PROVE  (\A k \in 1 .. Arity(o) : \E n \in 1 .. Limit(o) : Denotes(args[i + k], n))
               <=> Fits
    <3>1. ASSUME NEW k \in 1 .. Arity(o)
          PROVE  (\E n \in 1 .. Limit(o) : Denotes(args[i + k], n))
                 <=> Values(args, i)[k] \in 1 .. Limit(o)
      BY <1>1, <2>1
    <3> QED
      BY <3>1
  <2> QED
    BY <2>1 DEF OptionAt
<1>4. o \in Options => (~(Len(args) - i < Arity(o)) <=> i + Arity(o) <= Len(args))
  <2> SUFFICES ASSUME o \in Options
               PROVE  ~(Len(args) - i < Arity(o)) <=> i + Arity(o) <= Len(args)
    OBVIOUS
  <2>1. Arity(o) \in Nat
    BY OptionFacts
  <2> HIDE DEF o
  <2> QED
    BY <2>1
<1>5. OptionError(args, i) = "ERR_NONE" <=> OptionAt(args, i)
  BY <1>2, <1>3, <1>4
<1> QED
  BY <1>1, <1>3, <1>5

\* What the loop does from word i on, once it knows what it does from there.
LoopFrom(args, from, i) ==
  IF i = Len(args) + 1 THEN [err |-> "ERR_NONE", set |-> <<>>]
  ELSE IF OptionError(args, i) # "ERR_NONE"
       THEN [err |-> OptionError(args, i), set |-> <<>>]
       ELSE LET rest == from[i + Arity(args[i]) + 1]
            IN  [rest EXCEPT !.set = SetEarlier(args[i], Values(args, i), @)]

LEMMA LoopRuns ==
  ASSUME NEW args, Len(args) \in Nat
  PROVE  \E from : /\ CreateOptions(args) = from[1]
                   /\ \A i \in 1 .. Len(args) + 1 : from[i] = LoopFrom(args, from, i)
<1> DEFINE n == Len(args)
           Unfolds(f, j) == f = [i \in j .. n + 1 |-> LoopFrom(args, f, i)]
           T == {m \in Nat : m <= n => \E f : Unfolds(f, n + 1 - m)}
<1>1. ASSUME NEW i \in 1 .. n, OptionError(args, i) = "ERR_NONE"
      PROVE  i + Arity(args[i]) + 1 \in i + 1 .. n + 1
  <2>1. args[i] \in Options /\ i + Arity(args[i]) <= n
    BY <1>1, OptionIsTaken DEF OptionAt
  <2>2. Arity(args[i]) \in {1, 2}
    BY <2>1, OptionFacts
  <2> QED
    BY <2>1, <2>2
<1>2. ASSUME NEW i \in 1 .. n + 1, NEW f, NEW g, \A j \in i + 1 .. n + 1 : f[j] = g[j]
      PROVE  LoopFrom(args, f, i) = LoopFrom(args, g, i)
  <2>1. CASE i = n + 1
    BY <2>1 DEF LoopFrom
  <2>2. CASE i # n + 1 /\ OptionError(args, i) # "ERR_NONE"
    BY <2>2 DEF LoopFrom
  <2>3. CASE i # n + 1 /\ OptionError(args, i) = "ERR_NONE"
    <3>1. f[i + Arity(args[i]) + 1] = g[i + Arity(args[i]) + 1]
      BY <1>1, <1>2, <2>3
    <3> QED
      BY <2>3, <3>1 DEF LoopFrom
  <2> QED
    BY <2>1, <2>2, <2>3
<1>3. ASSUME NEW m \in Nat, 0 .. m - 1 \subseteq T
      PROVE  m \in T
  <2> SUFFICES ASSUME m <= n
               PROVE  \E f : Unfolds(f, n + 1 - m)
    OBVIOUS
  <2> DEFINE j == n + 1 - m
  <2>1. j \in 1 .. n + 1
    OBVIOUS
  <2>2. \E g : \A i \in j + 1 .. n + 1 : g[i] = LoopFrom(args, g, i)
    <3>1. CASE m = 0
      BY <3>1
    <3>2. CASE m # 0
      <4>1. m - 1 \in T
        <5>1. m - 1 \in 0 .. m - 1
          BY <3>2
        <5> HIDE DEF T
        <5> QED
          BY <1>3, <5>1
      <4>2. PICK g : Unfolds(g, n + 1 - (m - 1))
        <5> HIDE DEF Unfolds
        <5> QED
          BY <4>1
      <4>3. n + 1 - (m - 1) = j + 1
        OBVIOUS
      <4> HIDE DEF j
      <4>4. g = [i \in j + 1 .. n + 1 |-> LoopFrom(args, g, i)]
        BY <4>2, <4>3
      <4>5. \A i \in j + 1 .. n + 1 : g[i] = LoopFrom(args, g, i)
        BY <4>4
      <4> QED
        BY <4>5
    <3> QED
      BY <3>1, <3>2
  <2>3. PICK g : \A i \in j + 1 .. n + 1 : g[i] = LoopFrom(args, g, i)
    BY <2>2
  <2> DEFINE h == [i \in j .. n + 1 |-> LoopFrom(args, g, i)]
  <2>4. ASSUME NEW i \in j .. n + 1
        PROVE  h[i] = LoopFrom(args, h, i)
    <3>1. h[i] = LoopFrom(args, g, i)
      OBVIOUS
    <3>2. \A k \in i + 1 .. n + 1 : h[k] = g[k]
      <4> SUFFICES ASSUME NEW k \in i + 1 .. n + 1
                   PROVE  h[k] = g[k]
        OBVIOUS
      <4>1. k \in j .. n + 1 /\ k \in j + 1 .. n + 1
        BY <2>1
      <4> HIDE DEF j
      <4> QED
        BY <2>3, <4>1
    <3>3. i \in 1 .. n + 1
      BY <2>1
    <3> HIDE DEF h, n
    <3>4. LoopFrom(args, h, i) = LoopFrom(args, g, i)
      BY <1>2, <3>2, <3>3
    <3> QED
      BY <3>1, <3>4
  <2>5. Unfolds(h, j)
    <3>1. h = [i \in j .. n + 1 |-> h[i]]
      OBVIOUS
    <3> HIDE DEF h, j, n
    <3> QED
      BY <2>4, <3>1
  <2> HIDE DEF Unfolds, h
  <2> QED
    BY <2>5
<1>4. T = Nat
  <2> HIDE DEF T
  <2>1. T \in SUBSET Nat
    BY DEF T
  <2> QED
    BY <1>3, <2>1, Induction
<1>5. \E f : Unfolds(f, 1)
  <2>1. n \in T /\ n + 1 - n = 1
    BY <1>4
  <2> HIDE DEF Unfolds
  <2> QED
    BY <2>1
<1> DEFINE from == CHOOSE f : Unfolds(f, 1)
<1>6. Unfolds(from, 1)
  <2> HIDE DEF Unfolds
  <2> QED
    BY <1>5
<1>7. CreateOptions(args) = from[1]
  BY DEF CreateOptions, LoopFrom
<1> HIDE DEF from
<1>8. \A i \in 1 .. n + 1 : from[i] = LoopFrom(args, from, i)
  BY <1>6
<1> QED
  BY <1>7, <1>8

\* Where the loop reaches its end from word i on, the words from there are a list
\* of options, and of each option the last numbers are set.
OptionList(args, i, starts, set) ==
  /\ \A p \in starts : OptionAt(args, p)
  /\ \A j \in i .. Len(args) : \E p \in starts : j \in p .. p + Arity(args[p])
  /\ \A p, q \in starts : p < q => p + Arity(args[p]) < q
  /\ DOMAIN set = {args[p] : p \in starts}
  /\ \A o \in DOMAIN set :
       \E p \in starts : /\ args[p] = o /\ set[o] = Values(args, p)
                         /\ \A q \in starts : args[q] = o => q <= p

LEMMA OneMoreOption ==
  ASSUME NEW args, Len(args) \in Nat, NEW i \in 1 .. Len(args), OptionAt(args, i),
         NEW next, next = i + Arity(args[i]) + 1,
         NEW starts \in SUBSET (next .. Len(args)), NEW set, OptionList(args, next, starts, set)
  PROVE  OptionList(args, i, starts \union {i}, SetEarlier(args[i], Values(args, i), set))
<1> DEFINE all == starts \union {i}
           new == SetEarlier(args[i], Values(args, i), set)
<1>1. args[i] \in Options /\ Arity(args[i]) \in {1, 2} /\ next \in i + 1 .. Len(args) + 1
  BY OptionFacts DEF OptionAt
<1>2. \A p \in starts : p \in Nat /\ next <= p /\ i < p
  BY <1>1
<1>3. /\ DOMAIN new = DOMAIN set \union {args[i]}
      /\ \A o \in DOMAIN set : new[o] = set[o]
      /\ args[i] \notin DOMAIN set => new[args[i]] = Values(args, i)
  BY DEF SetEarlier
<1> HIDE DEF new
<1>4. \A p \in all : OptionAt(args, p)
  BY DEF OptionList
<1>5. ASSUME NEW j \in i .. Len(args)
      PROVE  \E p \in all : j \in p .. p + Arity(args[p])
  <2>1. CASE j < next
    <3>1. j \in i .. i + Arity(args[i])
      BY <1>1, <2>1
    <3> QED
      BY <3>1
  <2>2. CASE j >= next
    <3>1. j \in next .. Len(args)
      BY <1>1, <2>2
    <3> QED
      BY <3>1 DEF OptionList
  <2> QED
    BY <1>1, <2>1, <2>2
<1>6. ASSUME NEW p \in all, NEW q \in all, p < q
      PROVE  p + Arity(args[p]) < q
  <2>1. CASE p \in starts /\ q \in starts
    BY <1>6, <2>1 DEF OptionList
  <2>2. CASE p = i /\ q \in starts
    BY <1>1, <1>2, <2>2
  <2>3. CASE q = i
    BY <1>2, <1>6, <2>3
  <2> QED
    BY <2>1, <2>2, <2>3
<1>7. DOMAIN new = {args[p] : p \in all}
  <2>1. DOMAIN set = {args[p] : p \in starts}
    BY DEF OptionList
  <2>2. {args[p] : p \in all} = {args[p] : p \in starts} \union {args[i]}
    OBVIOUS
  <2> HIDE DEF all
  <2> QED
    BY <1>3, <2>1, <2>2
<1>8. ASSUME NEW o \in DOMAIN new
      PROVE  \E p \in all : /\ args[p] = o /\ new[o] = Values(args, p)
                            /\ \A q \in all : args[q] = o => q <= p
  <2>1. CASE o \in DOMAIN set
    <3>1. PICK p \in starts : /\ args[p] = o /\ set[o] = Values(args, p)
                              /\ \A q \in starts : args[q] = o => q <= p
      BY <2>1 DEF OptionList
    <3>2. i <= p /\ new[o] = Values(args, p)
      BY <1>2, <1>3, <2>1, <3>1
    <3> QED
      BY <3>1, <3>2
  <2>2. CASE o \notin DOMAIN set
    <3>1. o = args[i] /\ new[o] = Values(args, i)
      BY <1>3, <2>2
    <3>2. \A q \in starts : args[q] # o
      BY <2>2 DEF OptionList
    <3>3. \A q \in all : args[q] = o => q <= i
      BY <3>2
    <3> QED
      BY <3>1, <3>3
  <2> QED
    BY <2>1, <2>2
<1> HIDE DEF all
<1>9. OptionList(args, i, all, new)
  BY <1>4, <1>5, <1>6, <1>7, <1>8 DEF OptionList
<1> QED
  BY <1>9 DEF all, new

\* What the loop does from word i on: it stops at an error, or it has read a list
\* of options.
LoopResult(args, i, result) ==
  \/ result.err # "ERR_NONE"
  \/ \E starts \in SUBSET (i .. Len(args)) : \E set :
       result = [err |-> "ERR_NONE", set |-> set] /\ OptionList(args, i, starts, set)

LEMMA LoopReads ==
  ASSUME NEW args, Len(args) \in Nat, NEW from,
         \A i \in 1 .. Len(args) + 1 : from[i] = LoopFrom(args, from, i)
  PROVE  \A i \in 1 .. Len(args) + 1 : LoopResult(args, i, from[i])
<1> DEFINE n == Len(args)
           T == {m \in Nat : m <= n => LoopResult(args, n + 1 - m, from[n + 1 - m])}
<1>1. ASSUME NEW m \in Nat, 0 .. m - 1 \subseteq T
      PROVE  m \in T
  <2> SUFFICES ASSUME m <= n, NEW i \in 1 .. n + 1, i = n + 1 - m
               PROVE  LoopResult(args, i, from[i])
    OBVIOUS
  <2>1. i \in 1 .. n + 1 /\ from[i] = LoopFrom(args, from, i)
    OBVIOUS
  <2>2. CASE i = n + 1
    <3>1. from[i] = [err |-> "ERR_NONE", set |-> <<>>]
      BY <2>1, <2>2 DEF LoopFrom
    <3>2. OptionList(args, i, {}, <<>>)
      <4>1. i .. Len(args) = {}
        BY <2>2
      <4>2. DOMAIN <<>> = {}
        OBVIOUS
      <4> QED
        BY <4>1, <4>2 DEF OptionList
    <3> QED
      BY <3>1, <3>2 DEF LoopResult
  <2>3. CASE i # n + 1 /\ OptionError(args, i) # "ERR_NONE"
    <3>1. from[i] = [err |-> OptionError(args, i), set |-> <<>>]
      BY <2>1, <2>3 DEF LoopFrom
    <3>2. from[i].err = OptionError(args, i)
      BY <3>1
    <3> QED
      BY <2>3, <3>2 DEF LoopResult
  <2>4. CASE i # n + 1 /\ OptionError(args, i) = "ERR_NONE"
    <3> DEFINE next == i + Arity(args[i]) + 1
               more(set) == SetEarlier(args[i], Values(args, i), set)
    <3>1. i \in 1 .. n
      BY <2>1, <2>4
    <3>2. OptionAt(args, i)
      BY <2>4, <3>1, OptionIsTaken
    <3>3. next \in i + 1 .. n + 1
      BY <3>1, <3>2, OptionFacts DEF OptionAt
    <3>4. from[i] = [from[next] EXCEPT !.set = more(from[next].set)]
      <4> HIDE DEF more
      <4> QED
        BY <2>1, <2>4 DEF LoopFrom, more
    <3>5. LoopResult(args, next, from[next])
      <4> DEFINE k == n + 1 - next
      <4>1. k \in 0 .. m - 1 /\ k <= n /\ n + 1 - k = next
        BY <3>1, <3>3
      <4> HIDE DEF k, next
      <4>2. k \in T
        BY <1>1, <4>1
      <4> QED
        BY <4>1, <4>2
    <3> HIDE DEF next, more
    <3>6. CASE from[next].err # "ERR_NONE"
      <4>1. from[i].err = from[next].err
        BY <3>4
      <4> QED
        BY <3>6, <4>1 DEF LoopResult
    <3>7. CASE from[next].err = "ERR_NONE"
      <4>0. PICK starts \in SUBSET (next .. n) : \E set :
              from[next] = [err |-> "ERR_NONE", set |-> set] /\ OptionList(args, next, starts, set)
        BY <3>5, <3>7 DEF LoopResult
      <4>1. PICK set :
              from[next] = [err |-> "ERR_NONE", set |-> set] /\ OptionList(args, next, starts, set)
        BY <4>0
      <4>2. from[i] = [err |-> "ERR_NONE", set |-> more(set)]
        BY <3>4, <4>1
      <4>3. OptionList(args, i, starts \union {i}, more(set))
        BY <3>1, <3>2, <4>1, OneMoreOption DEF next, more
      <4>4. starts \union {i} \in SUBSET (i .. n)
        <5>1. \A s \in next .. n : s \in i .. n
          BY <3>1, <3>3
        <5>2. i \in i .. n
          BY <3>1
        <5> QED
          BY <4>1, <5>1, <5>2
      <4> QED
        BY <4>2, <4>3, <4>4 DEF LoopResult
    <3> QED
      BY <3>6, <3>7
  <2> QED
    BY <2>1, <2>2, <2>3, <2>4
<1>2. T = Nat
  <2> HIDE DEF T
  <2>1. T \in SUBSET Nat
    BY DEF T
  <2> QED
    BY <1>1, <2>1, Induction
<1>3. ASSUME NEW i \in 1 .. n + 1
      PROVE  LoopResult(args, i, from[i])
  <2> DEFINE k == n + 1 - i
  <2>1. k \in Nat /\ k <= n /\ n + 1 - k = i
    OBVIOUS
  <2> HIDE DEF k
  <2>2. k \in T
    BY <1>2, <2>1
  <2> QED
    BY <2>1, <2>2
<1> QED
  BY <1>3

\* A list of options is read to its end: the loop goes from one start to the next.
LEMMA ListIsRead ==
  ASSUME NEW args, Len(args) \in Nat, DOMAIN args = 1 .. Len(args), NEW from,
         \A i \in 1 .. Len(args) + 1 : from[i] = LoopFrom(args, from, i),
         NEW starts \in SUBSET DOMAIN args, Divides(args, starts)
  PROVE  from[1].err = "ERR_NONE"
<1> DEFINE n == Len(args)
           T == {m \in Nat : m <= n /\ n + 1 - m \in starts \union {n + 1} =>
                               from[n + 1 - m].err = "ERR_NONE"}
<1>1. ASSUME NEW m \in Nat, 0 .. m - 1 \subseteq T
      PROVE  m \in T
  <2> SUFFICES ASSUME m <= n, NEW i \in starts \union {n + 1}, i = n + 1 - m
               PROVE  from[i].err = "ERR_NONE"
    OBVIOUS
  <2>1. i \in 1 .. n + 1 /\ from[i] = LoopFrom(args, from, i)
    OBVIOUS
  <2>2. CASE i = n + 1
    <3>1. from[i] = [err |-> "ERR_NONE", set |-> <<>>]
      BY <2>1, <2>2 DEF LoopFrom
    <3> QED
      BY <3>1
  <2>3. CASE i # n + 1
    <3> DEFINE next == i + Arity(args[i]) + 1
               more(set) == SetEarlier(args[i], Values(args, i), set)
    <3>1. i \in starts /\ i \in 1 .. n
      BY <2>1, <2>3
    <3>2. OptionAt(args, i)
      BY <3>1 DEF Divides
    <3>3. Arity(args[i]) \in {1, 2} /\ next \in i + 1 .. n + 1
      BY <3>1, <3>2, OptionFacts DEF OptionAt
    <3>4. from[i] = [from[next] EXCEPT !.set = more(from[next].set)]
      <4>1. OptionError(args, i) = "ERR_NONE"
        BY <3>1, <3>2, OptionIsTaken
      <4> HIDE DEF more
      <4> QED
        BY <2>1, <2>3, <4>1 DEF LoopFrom, more
    <3>5. next \in starts \union {n + 1}
      <4> SUFFICES ASSUME next # n + 1
                   PROVE  next \in starts
        OBVIOUS
      <4>1. next \in DOMAIN args
        BY <3>1, <3>3
      <4>2. PICK s \in starts : next \in s .. s + Arity(args[s])
        BY <4>1 DEF Divides
      <4>3. s \in 1 .. n /\ Arity(args[s]) \in {1, 2}
        BY <4>2, OptionFacts DEF Divides, OptionAt
      <4>4. CASE s < i
        <5>1. s + Arity(args[s]) < i
          BY <3>1, <4>4 DEF Divides
        <5> QED
          BY <3>1, <3>3, <4>2, <4>3, <5>1
      <4>5. CASE s = i
        BY <3>1, <3>3, <4>2, <4>5
      <4>6. CASE s > i
        <5>1. i < s
          BY <3>1, <4>3, <4>6
        <5>2. i + Arity(args[i]) < s
          BY <3>1, <5>1 DEF Divides
        <5>3. s = next
          BY <3>1, <3>3, <4>2, <4>3, <5>2
        <5> QED
          BY <5>3
      <4> QED
        BY <3>1, <4>3, <4>4, <4>5, <4>6
    <3>6. from[next].err = "ERR_NONE"
      <4> DEFINE k == n + 1 - next
      <4>1. k \in 0 .. m - 1 /\ k <= n /\ n + 1 - k = next
        BY <3>1, <3>3
      <4> HIDE DEF k, next
      <4>2. k \in T
        BY <1>1, <4>1
      <4> QED
        BY <3>5, <4>1, <4>2
    <3> HIDE DEF next, more
    <3>7. from[i].err = from[next].err
      BY <3>4
    <3> QED
      BY <3>6, <3>7
  <2> QED
    BY <2>2, <2>3
<1>2. T = Nat
  <2> HIDE DEF T
  <2>1. T \in SUBSET Nat
    BY DEF T
  <2> QED
    BY <1>1, <2>1, Induction
<1>3. 1 \in starts \union {n + 1}
  <2> SUFFICES ASSUME n # 0
               PROVE  1 \in starts
    OBVIOUS
  <2>1. PICK s \in starts : 1 \in s .. s + Arity(args[s])
    BY DEF Divides
  <2>2. s \in 1 .. n
    OBVIOUS
  <2> QED
    BY <2>1, <2>2
<1>4. n \in T /\ n <= n /\ n + 1 - n = 1
  BY <1>2
<1> QED
  BY <1>3, <1>4

\* No word is an option and a number as well.
LEMMA OptionsStart ==
  ASSUME NEW args, Len(args) \in Nat, DOMAIN args = 1 .. Len(args),
         NEW starts \in SUBSET DOMAIN args, Divides(args, starts),
         NEW i \in DOMAIN args, args[i] \in Options
  PROVE  i \in starts
<1>1. PICK p \in starts : i \in p .. p + Arity(args[p])
  BY DEF Divides
<1>2. OptionAt(args, p) /\ p \in 1 .. Len(args)
  BY DEF Divides
<1>3. CASE i = p
  BY <1>3
<1>4. CASE i # p
  <2> DEFINE k == i - p
  <2>1. Arity(args[p]) \in {1, 2}
    BY <1>2, OptionFacts DEF OptionAt
  <2>2. k \in 1 .. Arity(args[p]) /\ p + k = i
    BY <1>1, <1>2, <1>4, <2>1
  <2> HIDE DEF k
  <2>3. \E m \in 1 .. Limit(args[p]) : Denotes(args[i], m)
    BY <1>2, <2>2 DEF OptionAt
  <2> QED
    BY <2>3, OptionsAssumption DEF Denotes
<1> QED
  BY <1>3, <1>4

\* The loop over argv takes what the help describes, with the values that stand
\* there, and nothing else.
LEMMA ParsedIsUsage ==
  ASSUME NEW args, Len(args) \in Nat, DOMAIN args = 1 .. Len(args)
  PROVE  LET parsed == CreateOptions(args)
         IN  /\ parsed.err = "ERR_NONE" <=> Usable(args)
             /\ parsed.err = "ERR_NONE" =>
                  \A o \in Options :
                    IF o \in DOMAIN parsed.set THEN Asks(args, o, parsed.set[o])
                                               ELSE \A i \in DOMAIN args : args[i] # o
<1>1. PICK from : /\ CreateOptions(args) = from[1]
                  /\ \A i \in 1 .. Len(args) + 1 : from[i] = LoopFrom(args, from, i)
  BY LoopRuns
<1>2. Usable(args) => from[1].err = "ERR_NONE"
  BY <1>1, ListIsRead DEF Usable
<1>3. ASSUME from[1].err = "ERR_NONE"
      PROVE  /\ Usable(args)
             /\ \A o \in Options :
                  IF o \in DOMAIN from[1].set THEN Asks(args, o, from[1].set[o])
                                              ELSE \A i \in DOMAIN args : args[i] # o
  <2>1. LoopResult(args, 1, from[1])
    BY <1>1, LoopReads
  <2>0. PICK starts \in SUBSET (1 .. Len(args)) : \E set :
          from[1] = [err |-> "ERR_NONE", set |-> set] /\ OptionList(args, 1, starts, set)
    BY <1>3, <2>1 DEF LoopResult
  <2>2. PICK set :
          from[1] = [err |-> "ERR_NONE", set |-> set] /\ OptionList(args, 1, starts, set)
    BY <2>0
  <2>3. Divides(args, starts)
    BY <2>2 DEF OptionList, Divides
  <2>4. from[1].set = set
    BY <2>2
  <2>5. ASSUME NEW o \in Options, o \in DOMAIN set
        PROVE  Asks(args, o, set[o])
    <3>1. PICK p \in starts : /\ args[p] = o /\ set[o] = Values(args, p)
                              /\ \A q \in starts : args[q] = o => q <= p
      BY <2>2, <2>5 DEF OptionList
    <3>2. OptionAt(args, p) /\ Arity(o) \in Nat
      BY <2>2, OptionFacts DEF OptionList
    <3> DEFINE v == Values(args, p)
    <3>3. DOMAIN v = 1 .. Arity(o) /\ Len(v) = Arity(o)
      BY <3>1, <3>2 DEF Values
    <3>4. \A k \in 1 .. Arity(o) : v[k] \in 1 .. Limit(o) /\ Denotes(args[p + k], v[k])
      BY <3>1, <3>2, OptionIsTaken
    <3>5. \A k \in DOMAIN v : v[k] <= Limit(o) /\ Denotes(args[p + k], v[k])
      BY <3>3, <3>4, OptionFacts
    <3> HIDE DEF v
    <3>6. set[o] = v
      BY <3>1 DEF v
    <3> QED
      BY <2>3, <3>1, <3>3, <3>5, <3>6 DEF Asks
  <2>6. ASSUME NEW o \in Options, o \notin DOMAIN set, NEW i \in DOMAIN args, args[i] = o
        PROVE  FALSE
    <3>1. i \in starts
      BY <2>3, <2>6, OptionsStart
    <3> QED
      BY <2>2, <2>6, <3>1 DEF OptionList
  <2> QED
    BY <2>3, <2>4, <2>5, <2>6 DEF Usable
<1> QED
  BY <1>1, <1>2, <1>3

\* Create parses its words as the help describes them, in every process.
THEOREM CreateParsesUsage == ToolSpec => []ParsedAsUsage
<1>1. Processes => ParsedAsUsage
  <2> SUFFICES ASSUME Processes, stage = "main", Command = "create", Len(line) >= 2
               PROVE  LET args   == SubSeq(line, 3, Len(line))
                          parsed == CreateOptions(args)
                      IN  /\ parsed.err = "ERR_NONE" <=> Usable(args)
                          /\ parsed.err = "ERR_NONE" =>
                               \A o \in Options :
                                 IF o \in DOMAIN parsed.set
                                 THEN Asks(args, o, parsed.set[o])
                                 ELSE \A i \in DOMAIN args : args[i] # o
    BY DEF ParsedAsUsage
  <2>1. line \in CommandLines \union CreateLines
    BY DEF Processes, ToolTypeOK, Command
  <2>2. Len(line) \in Nat /\ line = [k \in 1 .. Len(line) |-> line[k]]
    BY <2>1, LinesAssumption
  <2> DEFINE args == SubSeq(line, 3, Len(line))
             Words == {line[k] : k \in 1 .. Len(line)}
  <2>3. line \in Seq(Words)
    BY <2>2
  <2>4. args \in Seq(Words)
    BY <2>3
  <2> HIDE DEF Words, args
  <2>5. Len(args) \in Nat /\ DOMAIN args = 1 .. Len(args)
    BY <2>4
  <2> QED
    BY <2>5, ParsedIsUsage DEF args
<1>2. ToolInit => Processes
  BY ToolInitKeeps
<1>3. Processes /\ [ToolNext]_toolvars => Processes'
  BY ToolNextKeeps
<1> QED
  BY <1>1, <1>2, <1>3, PTL DEF ToolSpec

=============================================================================
