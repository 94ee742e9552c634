---------------------------- MODULE ImgfsToolProps ----------------------------
(***************************************************************************)
(* What the exit code of imgfscmd tells.                                   *)
(***************************************************************************)
EXTENDS ImgfsTool

\* create takes what the help text describes, with the values it describes, and
\* nothing else: the loop over argv is the language of the help.
ParsedAsUsage ==
  stage = "main" /\ Command = "create" /\ Len(line) >= 2 =>
    LET args   == SubSeq(line, 3, Len(line))
        parsed == CreateOptions(args)
    IN  /\ parsed.err = "ERR_NONE" <=> Usable(args)
        /\ parsed.err = "ERR_NONE" =>
             \A o \in Options :
               IF o \in DOMAIN parsed.set THEN Asks(args, o, parsed.set[o])
                                          ELSE \A i \in DOMAIN args : args[i] # o

-----------------------------------------------------------------------------
Ended == stage # "shell" /\ stage' = "shell"

Without(f, i) == [j \in DOMAIN f \ {i} |-> f[j]]

Inserted(now) ==
  \E i \in DOMAIN now \ DOMAIN before.images :
    now[i][1] = line[3] /\ Without(now, i) = before.images

Removed(now) ==
  \E i \in DOMAIN before.images :
    before.images[i][1] = line[3] /\ now = Without(before.images, i)

Extracted(f) ==
  \E i \in DOMAIN before.images :
    /\ before.images[i][1] = line[3]
    /\ f = Image(Blob(before.images[i][2], ReadResolution(line)))

Showed(out) ==
  /\ out.count = Cardinality(DOMAIN out.entries)
  /\ before.images = [i \in DOMAIN out.entries |->
                        <<out.entries[i].img_id, out.entries[i].SHA>>]

DoneAsAsked ==
  CASE Command = "create" -> Holds' = [extent |-> "whole", images |-> <<>>]
    [] Command = "insert" -> Inserted(Holds'.images)
    [] Command = "delete" -> Removed(Holds'.images)
    [] Command = "read" ->
         Holds' = before /\ (cause' # "close" => Extracted(files'[Target]))
    [] Command = "list" -> Holds' = before /\ Showed(printed)
    [] Command = "help" -> Holds' = before

(***************************************************************************)
(* Exit code 0 means that the command has done what it is for: the image   *)
(* is in the file, gone from it or in a file of its own, the list is what  *)
(* the file holds.  The one exception is a close that lost the last        *)
(* buffer, now or before: then the counters are wrong, nobody is told, and *)
(* later insertions may do nothing.                                        *)
(***************************************************************************)
ZeroIsDone == [][Ended /\ code' = "ERR_NONE" /\ ~lost' => DoneAsAsked]_toolvars

(***************************************************************************)
(* A command that ends in any other way leaves the images as they were:    *)
(* only a create that could open the file has emptied it.                  *)
(***************************************************************************)
FailureIsHarmless ==
  [][Ended /\ code' # "ERR_NONE" /\ ~(Command = "create" /\ cause' \in {"write", "alloc"})
       => Holds' = before]_toolvars

(***************************************************************************)
(* The ends that no exit code tells: something was closed twice, by a      *)
(* create that failed or by a list that could not read the header or get   *)
(* memory; what could not be opened was closed, the imgFS by a create or   *)
(* an image file by a read; or a read had no memory for that file's name.  *)
(***************************************************************************)
CrashesHaveCause ==
  [][Ended =>
       /\ twice' => \/ Command = "create" /\ cause' \in {"write", "alloc"}
                    \/ Command = "list" /\ cause' \in {"header", "alloc"}
       /\ code' = "crashed" => \/ twice'
                               \/ Command = "create" /\ cause' = "fopen"
                               \/ Command = "read" /\ cause' \in {"name", "target"}]_toolvars

=============================================================================
