-------------------------- MODULE ImgfsSessionsProps --------------------------
(***************************************************************************)
(* What holds of a file whose users are killed, interrupted, or work on it *)
(* at the same time, and that Imgfs is what one user of the file sees.     *)
(***************************************************************************)
EXTENDS ImgfsSessions

TypeOK ==
  /\ pc \in [Users -> Phases]
  /\ header \in [Users -> Headers]
  /\ metadata \in [Users -> [Slots -> Metadata]]
  /\ slot \in [Users -> Slots]
  /\ pending \in [Users -> Writes]
  /\ disk_header \in Headers
  /\ disk_metadata \in [Slots -> Metadata]
  /\ data \in Seq(Blobs)
  /\ kept \subseteq Ids \X Images
  /\ overlapped \in BOOLEAN
  /\ clashed \in BOOLEAN

-----------------------------------------------------------------------------
\* Wherever a process is stopped, and whatever two processes with outdated
\* copies write over each other's entries: an entry leads to its image, in the
\* file and in every copy of the array, unless two appended at one place at once.
ImagesIntact ==
  ~clashed =>
    /\ \A i \in Valid(disk_metadata) : EntryIntact(disk_metadata[i], data)
    /\ \A u \in Users : \A i \in Valid(metadata[u]) :
         EntryIntact(metadata[u][i], DataWith(pending[u]))

\* An image whose insertion has returned is in the file itself, not only in the
\* buffer: while one process at a time has the file open, no kill and no signal
\* takes it away.
KeptSurvives ==
  ~overlapped =>
    \A p \in kept : \E i \in Valid(disk_metadata) :
      disk_metadata[i].img_id = p[1] /\ disk_metadata[i].SHA = p[2]

\* Every process that is cut off may leave the number of images in the header
\* wrong by one, and nothing else does.
CountDrifts ==
  ~overlapped /\ (\A u \in Users : Off(u)) =>
    \E d \in -cuts .. cuts :
      disk_header.nb_files
        = (Cardinality(Valid(disk_metadata)) + d) % (UINT32_MAX + 1)

-----------------------------------------------------------------------------
(* The file and the copy of its user as they are when the call has returned *)

Holder == IF Off("server") THEN "command" ELSE "server"

Counts(u) == pc[u] \in {"image", "entry", "array"}

HeaderAhead(u) ==
  CASE pc[u] \in {"image", "entry"} -> Mine(u)!BumpInsert
    [] pc[u] = "array" -> Mine(u)!BumpDelete
    [] OTHER -> header[u]

DiskHeaderAhead(u) ==
  IF Counts(u) THEN HeaderAhead(u) ELSE HeaderWith(pending[u])

IndexAhead(u) ==
  IF pc[u] \in {"image", "derived"}
  THEN [IndexWith(pending[u]) EXCEPT ![slot[u]] = metadata[u][slot[u]]]
  ELSE IndexWith(pending[u])

Library == INSTANCE Imgfs WITH
  is_open <- ~Off(Holder),
  header <- HeaderAhead(Holder), metadata <- metadata[Holder],
  disk_header <- DiskHeaderAhead(Holder), disk_metadata <- IndexAhead(Holder),
  data <- DataWith(pending[Holder]), Faults <- {}

\* For a process that has the file for itself the calls are those of Imgfs, done
\* with their first write: each step is one call or none, as long as nobody is
\* cut off.
ImplementsLibrary ==
  [][~overlapped' /\ cuts' = cuts => Library!Next \/ UNCHANGED Library!vars]_vars

=============================================================================
