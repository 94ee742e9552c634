------------------------------- MODULE MCImgfs -------------------------------
(***************************************************************************)
(* Imgfs on small instances: model values for ids and image contents, and  *)
(* a size of its own for every image at every resolution, so that bytes    *)
(* read at the wrong place are never taken for an image.                   *)
(***************************************************************************)
EXTENDS ImgfsSafety, TLC

CONSTANTS a, b, x, y, bad

MCIds    == {a, b}
MCImages == {x, y, bad}
MCBroken == {bad}
MCSizeOf ==
  [p \in Images \X Res |->
     (CASE p[1] = x -> 1 [] p[1] = y -> 2 [] p[1] = bad -> 3)
     + (CASE p[2] = ORIG_RES -> 0 [] p[2] = "thumb" -> 3 [] p[2] = "small" -> 6)]

\* Ids differ in nothing but their names.
Symmetry == Permutations(MCIds)

\* No action reads the last reply, and the version in no other way than to count
\* it up: a state stands for those that differ in them only, as long as memory and
\* file agree on both.  The action properties see every step of every state.
View == <<is_open, header.nb_files, metadata, disk_header.nb_files, disk_metadata, data,
          is_open => header = disk_header>>

\* Bound of the run with unlimited failures: how far memory and file may differ.
OneSlotApart ==
  is_open => Cardinality({i \in Slots : ~SameSlot(metadata[i], disk_metadata[i])}) <= 1

=============================================================================
