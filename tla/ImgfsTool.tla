------------------------------ MODULE ImgfsTool ------------------------------
(***************************************************************************)
(* imgfscmd, as it is and as it was first handed in, as a shell runs it:   *)
(* one process after another on one imgFS file and on the image files      *)
(* beside it.  A process reads its command line (ToolArguments), creates   *)
(* or opens the file, makes its call of the library (Imgfs), closes the    *)
(* file and, for a read, writes the image to a file of its own.  What the  *)
(* library does when an access fails within a call is in Imgfs and         *)
(* ImgfsFaults; here the accesses fail that the command, do_create and     *)
(* do_open make, those named by MayFail:                                   *)
(*   "fopen", "write" and "read" of the imgFS file, "alloc", the memory    *)
(*   for its array or for the name of an image file, "close", when the     *)
(*   last buffer cannot be written, which nobody sees, "files", any        *)
(*   access to an image file, "print", the output of the help.             *)
(***************************************************************************)
EXTENDS ImgfsSafety, ToolArguments

CONSTANTS
  MayFail,       \* what may fail
  CommandLines,  \* the command lines the shell runs
  CreateLines    \* those it runs in an empty directory, to create a file

ASSUME MayFailAssumption ==
  MayFail \subseteq {"fopen", "write", "read", "alloc", "close", "files", "print"}

\* A command line is a sequence of words; what one that is accepted names is in Ids
\* and Res, and "crashed" is no error code.
ASSUME LinesAssumption ==
  \A argv \in CommandLines \union CreateLines :
    /\ Len(argv) \in Nat /\ argv = [k \in 1 .. Len(argv) |-> argv[k]]
    /\ \A err \in {CommandLineError(argv), HandinLineError(argv)} :
         /\ err # "crashed"
         /\ err = "ERR_NONE" =>
              /\ argv[1] \in {"insert", "read", "delete"} => argv[3] \in Ids
              /\ argv[1] = "read" => ReadResolution(argv) \in Res

VARIABLES
  stage,    \* where the process is; "shell" between two of them
  build,    \* the imgfscmd it runs, or the last one
  line,     \* its command line, or the last one
  code,     \* what it returns, or the last one returned; "crashed" by a signal
  file,     \* imgfs_file.file
  array,    \* imgfs_file.metadata
  image,    \* image_buffer of a read
  printed,  \* what list printed: the number of images and the entries
  extent,   \* how much of the imgFS file there is
  files     \* the image files in the directory that reads have written

VARIABLES
  before,   \* history: the imgFS file and its images when the process began
  opened,   \* history: the header in the file at that time
  cause,    \* history: what failed in the process
  twice,    \* history: the process has closed or freed something twice
  lost      \* history: a close lost the last buffer, since the last create

pointers == <<file, array, image>>
outcome  == <<cause, twice, lost>>
start    == <<build, line, before, opened>>
toolvars == <<vars, stage, code, pointers, printed, extent, files, start, outcome>>

\* An image file: bytes that are an image, or what is left of one.
Image(b) == [is |-> "image", blob |-> b]
Remains  == {[is |-> "empty"], [is |-> "cut"]}
NoFile   == [is |-> "absent"]

NothingPrinted == [count |-> 0, entries |-> <<>>]

ToolTypeOK ==
  /\ TypeOK
  /\ stage \in {"shell", "main", "failed", "source", "call", "close", "write"}
  /\ build \in {"final", "handin"}
  /\ line = <<>> \/ line \in CommandLines \/ line \in CreateLines
  /\ file \in {"null", "open", "dangling"}
  /\ array \in {"null", "held", "dangling"}
  /\ image \in Blobs \union {NoImage}
  /\ extent \in {"absent", "headless", "short", "whole"}
  /\ files \in [Ids \X Res -> {NoFile} \union Remains \union {Image(b) : b \in Blobs}]
  /\ is_open => file = "open" /\ array = "held" /\ extent = "whole"

Command == IF line = <<>> THEN "none" ELSE line[1]

\* The images, and how much of the file there is.
Holds == [extent |-> extent,
          images |-> IF extent = "whole" THEN Visible(disk_metadata) ELSE <<>>]

ToolInit ==
  /\ Init
  /\ stage = "shell"
  /\ build = "final"
  /\ line = <<>>
  /\ code = "ERR_NONE"
  /\ file = "null"
  /\ array = "null"
  /\ image = NoImage
  /\ printed = NothingPrinted
  /\ extent = "absent"
  /\ files = [p \in Ids \X Res |-> NoFile]
  /\ before = [extent |-> "absent", images |-> <<>>]
  /\ opened = BlankHeader
  /\ cause = "none"
  /\ twice = FALSE
  /\ lost = FALSE

-----------------------------------------------------------------------------
(* main *)

\* Bound: a call that may append an image is run while there is room for one.
Bounded(argv) ==
  argv # <<>> /\ argv[1] \in {"insert", "read"} => Len(data) < MaxBlobs

Runs(argv) ==
  /\ stage = "shell"
  /\ Bounded(argv)
  /\ stage' = "main"
  /\ build' \in {"final", "handin"}
  /\ line' = argv
  /\ code' = "ERR_NONE"
  /\ printed' = NothingPrinted
  /\ before' = Holds
  /\ opened' = disk_header
  /\ cause' = "none"
  /\ twice' = FALSE
  /\ UNCHANGED <<vars, pointers, extent, files, lost>>

\* Nothing of the process is left but its exit code.
Exits(err) ==
  /\ stage' = "shell"
  /\ code' = err
  /\ file' = "null"
  /\ array' = "null"
  /\ image' = NoImage
  /\ UNCHANGED <<start, printed>>

\* main of either imgfscmd.
LineError ==
  IF build = "handin" THEN HandinLineError(line) ELSE CommandLineError(line)

\* The command line is refused: main prints the error and the help.
Refuses ==
  /\ stage = "main"
  /\ LineError # "ERR_NONE"
  /\ Exits(LineError)
  /\ UNCHANGED <<vars, extent, files, outcome>>

Accepted(commands) ==
  /\ stage = "main"
  /\ LineError = "ERR_NONE"
  /\ Command \in commands

Helps ==
  /\ Accepted({"help"})
  /\ \/ Exits("ERR_NONE") /\ UNCHANGED cause
     \/ "print" \in MayFail /\ Exits("ERR_IO") /\ cause' = "print"
  /\ UNCHANGED <<vars, extent, files, twice, lost>>

-----------------------------------------------------------------------------
(* do_create and do_open *)

\* They return an error, and leave in the struct what is named here.
Fails(err, why, f, a) ==
  /\ stage' = "failed"
  /\ code' = err
  /\ cause' = why
  /\ file' = f
  /\ array' = a
  /\ UNCHANGED <<start, image, printed, twice>>

Holding(next) ==
  /\ stage' = next
  /\ file' = "open"
  /\ array' = "held"
  /\ UNCHANGED <<start, code, image, printed, cause, twice>>

\* fopen() gives NULL, and do_create closes that.
CreateUnopened ==
  /\ Accepted({"create"})
  /\ "fopen" \in MayFail
  /\ Exits("crashed")
  /\ cause' = "fopen"
  /\ UNCHANGED <<vars, extent, files, twice, lost>>

\* do_create closes its stream and frees its array where it fails, and leaves
\* both pointers as they are.  The file has been emptied by then.
CreateFails ==
  /\ Accepted({"create"})
  /\ Create
  /\ \/ /\ "write" \in MayFail
        /\ Fails("ERR_IO", "write", "dangling", "null")
        /\ extent' = "headless"
     \/ /\ "alloc" \in MayFail
        /\ Fails("ERR_IO", "alloc", "dangling", "null")
        /\ extent' \in {"headless", "short"}
     \/ /\ "write" \in MayFail
        /\ Fails("ERR_IO", "write", "dangling", "dangling")
        /\ extent' \in {"headless", "short"}
  /\ lost' = FALSE
  /\ UNCHANGED files

\* The size of the array is a constant here: what -max_files asks for is left to
\* ToolArguments.
CreateDone ==
  /\ Accepted({"create"})
  /\ Create
  /\ Holding("close")
  /\ extent' = "whole"
  /\ lost' = FALSE
  /\ UNCHANGED files

Opens == Accepted({"list", "insert", "read", "delete"})

\* The stream stays in the struct in every case.
OpenFailsDangling ==
  /\ Opens
  /\ \/ /\ extent = "absent" \/ "fopen" \in MayFail
        /\ Fails("ERR_IO", "fopen", "null", "null")
     \/ /\ extent = "headless" \/ (extent # "absent" /\ "read" \in MayFail)
        /\ Fails("ERR_IO", "header", "dangling", "null")
     \/ /\ extent \in {"short", "whole"} /\ "alloc" \in MayFail
        /\ Fails("ERR_OUT_OF_MEMORY", "alloc", "dangling", "null")
     \/ /\ extent = "short" \/ (extent = "whole" /\ "read" \in MayFail)
        /\ Fails("ERR_IO", "array", "dangling", "dangling")
  /\ UNCHANGED <<vars, extent, files, lost>>

\* The file is opened in a mode that empties it.
OpenFailsEmptied ==
  /\ Opens
  /\ Fails("ERR_IO", "header", "dangling", "null")
  /\ extent' = "headless"
  /\ UNCHANGED <<vars, files, lost>>

\* do_open closes its stream where it fails, and takes it out of the struct only
\* where it cannot read the array.
OpenFails ==
  /\ Opens
  /\ \/ /\ extent = "absent" \/ "fopen" \in MayFail
        /\ Fails("ERR_IO", "fopen", "null", "null")
     \/ /\ extent = "headless" \/ (extent # "absent" /\ "read" \in MayFail)
        /\ Fails("ERR_IO", "header", "dangling", "null")
     \/ /\ extent \in {"short", "whole"} /\ "alloc" \in MayFail
        /\ Fails("ERR_OUT_OF_MEMORY", "alloc", "dangling", "null")
     \/ /\ extent = "short" \/ (extent = "whole" /\ "read" \in MayFail)
        /\ Fails("ERR_IO", "array", "null", "null")
  /\ UNCHANGED <<vars, extent, files, lost>>

OpenDone ==
  /\ Opens
  /\ extent = "whole"
  /\ Open
  /\ Holding(IF Command = "insert" THEN "source" ELSE "call")
  /\ UNCHANGED <<extent, files, lost>>

\* The commands that call do_close also when nothing was opened.
ClosesAgain == Command \in {"create", "list"}

Dangles == file = "dangling" \/ array = "dangling"

\* A stream or an array that is let go twice ends the process, or does not.
FailureExits ==
  /\ stage = "failed"
  /\ twice' = (ClosesAgain /\ Dangles)
  /\ \/ Exits(IF Command = "list" THEN "ERR_IO" ELSE code)
     \/ twice' /\ Exits("crashed")
  /\ UNCHANGED <<vars, extent, files, cause, lost>>

-----------------------------------------------------------------------------
(* The call *)

\* The image files: those of the user, and those that reads have written.
SourceOf(word) ==
  IF word \in DOMAIN files THEN files[word]
  ELSE IF word \in Images THEN Image(Blob(word, ORIG_RES))
  ELSE NoFile

Source == SourceOf(line[4])

\* What a source may be to the library: a derived image, or one that was cut,
\* may be anything.
Contents(f) ==
  IF f.is = "image" /\ f.blob.res = ORIG_RES THEN {f.blob.img} ELSE Images

\* The imgFS stays open.
SourceFailsOpen ==
  /\ stage = "source"
  /\ Source.is \in {"absent", "empty"}
  /\ Exits("ERR_IO")
  /\ cause' = "source"
  /\ UNCHANGED <<vars, extent, files, twice, lost>>

\* The error is not returned.
SourceFailsSilently ==
  /\ stage = "source"
  /\ Close
  /\ Source.is \in {"absent", "empty"}
  /\ Exits("ERR_NONE")
  /\ cause' = "source"
  /\ UNCHANGED <<extent, files, twice, lost>>

\* read_disk_image, which cannot read an empty file: the imgFS is closed.
SourceFails ==
  /\ stage = "source"
  /\ Close
  /\ \/ Source.is \in {"absent", "empty"} /\ Exits("ERR_IO")
     \/ "files" \in MayFail /\ \E err \in {"ERR_IO", "ERR_OUT_OF_MEMORY"} : Exits(err)
  /\ cause' = "source"
  /\ UNCHANGED <<extent, files, twice, lost>>

CallReturns ==
  /\ stage' = "close"
  /\ code' = reply'.err
  /\ image' = reply'.out
  /\ UNCHANGED <<start, file, array, printed, extent, files, outcome>>

Inserts ==
  /\ stage = "source"
  /\ Source.is \in {"image", "cut"}
  /\ \E img \in Contents(Source) : InsertCall(line[3], img)
  /\ CallReturns

Deletes ==
  /\ stage = "call"
  /\ Command = "delete"
  /\ DeleteCall(line[3])
  /\ CallReturns

Reads ==
  /\ stage = "call"
  /\ Command = "read"
  /\ ReadCall(line[3], ReadResolution(line))
  /\ CallReturns

\* print_header, and print_metadata of the entries that do_list shows.
Prints(listed) ==
  [count |-> header.nb_files, entries |-> [i \in listed |-> metadata[i]]]

\* The result of do_list is not looked at.
Lists ==
  /\ stage = "call"
  /\ Command = "list"
  /\ ListStdout
  /\ printed' = Prints(DOMAIN reply'.ids)
  /\ stage' = "close"
  /\ UNCHANGED <<code, pointers, start, extent, files, outcome>>

-----------------------------------------------------------------------------
(* do_close and the end of the process *)

\* A read goes on to write its image to a file.
HasImage == Command = "read" /\ code = "ERR_NONE"

KeepsImage ==
  /\ stage' = "write"
  /\ file' = "null"
  /\ array' = "null"
  /\ UNCHANGED <<start, code, image, printed>>

Closes ==
  /\ stage = "close"
  /\ Command # "create"
  /\ Close
  /\ IF HasImage THEN KeepsImage ELSE Exits(code)
  /\ UNCHANGED <<extent, files, outcome>>

\* fclose() cannot write the last buffer, which holds the header.
ClosesInVain ==
  /\ stage = "close"
  /\ "close" \in MayFail
  /\ Command # "create"
  /\ disk_header # opened
  /\ is_open' = FALSE
  /\ header' = BlankHeader
  /\ metadata' = BlankIndex
  /\ disk_header' = opened
  /\ lost' = TRUE
  /\ Exits(code)
  /\ UNCHANGED <<disk_metadata, data, reply, extent, files, cause, twice>>

\* For a create the buffer holds the end of the array, or all of the file.
CreateCloses ==
  /\ stage = "close"
  /\ Command = "create"
  /\ Exits("ERR_NONE")
  /\ \/ UNCHANGED <<extent, lost>>
     \/ "close" \in MayFail /\ extent' \in {"headless", "short"} /\ lost' = TRUE
  /\ UNCHANGED <<vars, files, cause, twice>>

\* create_name
CreateName(id, res) == <<id, res>>

Target == CreateName(line[3], ReadResolution(line))

\* malloc() gives create_name NULL, and it formats the name into that.
NamesNothing ==
  /\ stage = "write"
  /\ "alloc" \in MayFail
  /\ Exits("crashed")
  /\ cause' = "name"
  /\ UNCHANGED <<vars, extent, files, twice, lost>>

Writes(f) == files' = [files EXCEPT ![Target] = f]

\* write_disk_image; what fclose() cannot write is missing from the file.
Exports ==
  /\ stage = "write"
  /\ Exits("ERR_NONE")
  /\ \/ /\ Writes(IF image = NoImage THEN [is |-> "cut"] ELSE Image(image))
        /\ UNCHANGED cause
     \/ /\ "files" \in MayFail
        /\ \E f \in Remains : Writes(f)
        /\ cause' = "close"
  /\ UNCHANGED <<vars, extent, twice, lost>>

\* fopen() gives NULL, and write_disk_image closes that; or fwrite() fails.
ExportFails ==
  /\ stage = "write"
  /\ "files" \in MayFail
  /\ \/ Exits("crashed") /\ UNCHANGED files
     \/ Exits("ERR_IO") /\ \E f \in Remains : Writes(f)
  /\ cause' = "target"
  /\ UNCHANGED <<vars, extent, twice, lost>>

-----------------------------------------------------------------------------
ToolNext ==
  \/ \E argv \in CommandLines : Runs(argv)
  \/ extent = "absent" /\ \E argv \in CreateLines : Runs(argv)
  \/ Refuses
  \/ Helps
  \/ CreateUnopened
  \/ CreateFails
  \/ CreateDone
  \/ OpenFails
  \/ OpenDone
  \/ FailureExits
  \/ SourceFails
  \/ Inserts
  \/ Deletes
  \/ Reads
  \/ Lists
  \/ Closes
  \/ ClosesInVain
  \/ CreateCloses
  \/ NamesNothing
  \/ Exports
  \/ ExportFails

ToolSpec == ToolInit /\ [][ToolNext]_toolvars

=============================================================================
