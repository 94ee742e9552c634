--------------------------- MODULE MCImgfsSessions ---------------------------
(***************************************************************************)
(* ImgfsSessions on small instances, with the ids, contents and sizes of   *)
(* MCImgfs.                                                                *)
(***************************************************************************)
EXTENDS ImgfsSessionsProps, TLC

CONSTANTS a, b, x, y, bad

MCIds    == {a, b}
MCImages == {x, y, bad}
MCBroken == {bad}
MCSizeOf ==
  [p \in Images \X Res |->
     (CASE p[1] = x -> 1 [] p[1] = y -> 2 [] p[1] = bad -> 3)
     + (CASE p[2] = ORIG_RES -> 0 [] p[2] = "thumb" -> 3)]
Symmetry == Permutations(MCIds)
View == <<pc, [u \in Users |-> header[u].nb_files], metadata,
          [u \in Users |-> IF pending[u].to = "header"
                           THEN pending[u].header.nb_files ELSE pending[u]],
          disk_header.nb_files, disk_metadata, data, slot, call, history>>
=============================================================================
