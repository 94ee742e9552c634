----------------------------- MODULE ImgfsFaults -----------------------------
(***************************************************************************)
(* The library, final and as first handed in, with accesses to the file    *)
(* that fail, and with history variables that remember what the failed     *)
(* calls were about, to say how far the damage of a failed call can reach: *)
(* through the rest of the session, through later successful calls         *)
(* (do_delete writes the whole array, lazily_resize a whole entry,         *)
(* whatever failed calls left in them), and through closing the file and   *)
(* opening it again with either version.                                   *)
(***************************************************************************)
EXTENDS ImgfsHandin

CONSTANT MaxFailures  \* bound: calls that fail
ASSUME MaxFailuresAssumption == MaxFailures \in Nat

VARIABLES
  hurt_images,  \* the contents failed calls were given, or found under their id
  failures      \* how many calls have failed

history == <<hurt_images, failures>>
fvars == <<vars, build, history>>

\* The contents that a call on an id may have touched.
Touched(call) ==
  ({call.arg} \union {metadata[i].SHA : i \in Named(metadata, call.id)})
    \intersect Images

\* A call that returned ERR_IO, or should have.
Failed == reply'.err = "ERR_IO" \/ Unwritten

FInit ==
  /\ Init
  /\ build = "none"
  /\ hurt_images = {}
  /\ failures = 0

\* Creating the file anew leaves nothing to remember.
FNext ==
  /\ BuildNext
  /\ CASE reply'.call.call = "create" ->
            hurt_images' = {} /\ failures' = 0
       [] Failed ->
            /\ failures < MaxFailures
            /\ failures' = failures + 1
            /\ hurt_images' = hurt_images \union Touched(reply'.call)
       [] OTHER -> UNCHANGED history

FSpec == FInit /\ [][FNext]_fvars

-----------------------------------------------------------------------------
\* An entry with a content that no failed call had to do with.
Unhurt(m) == m.is_valid /\ m.SHA \notin hurt_images

\* The damage of a failed call is confined to the contents it was about: every
\* other image is the same in memory and in the file, under whatever id, and
\* every place its entry names holds that image, however often calls fail.
Confined ==
  \A i \in Slots :
    /\ Unhurt(disk_metadata[i]) =>
         /\ EntryIntact(disk_metadata[i], data)
         /\ is_open => metadata[i] = disk_metadata[i]
    /\ Unhurt(metadata[i]) => metadata[i] = disk_metadata[i]

=============================================================================
