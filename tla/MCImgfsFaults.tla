---------------------------- MODULE MCImgfsFaults ----------------------------
(***************************************************************************)
(* ImgfsFaults on the small instances of MCImgfs.                          *)
(***************************************************************************)
EXTENDS MCImgfs, ImgfsFaults

\* Confined mentions neither the last reply nor the version.
FaultsView == <<View, build, history>>

=============================================================================
