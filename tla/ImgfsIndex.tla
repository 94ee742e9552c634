------------------------------ MODULE ImgfsIndex ------------------------------
(***************************************************************************)
(* The index of an imgFS file and the pure parts of the functions that     *)
(* search it: struct img_metadata (imgfs.h), the slot searches of          *)
(* do_insert, do_delete and do_read, do_name_and_content_dedup             *)
(* (image_dedup.c) and the bytes a metadata entry leads a reader to.       *)
(*                                                                         *)
(* Data is abstracted.  An element of Images is the content of one image   *)
(* and also its SHA-256 digest (the hash is taken to be injective).  The   *)
(* region of the file behind the metadata array is a sequence of blobs:    *)
(* offset k > 0 is the k-th blob, and offset 0 is the start of the file,   *)
(* where the header lies and no blob ever does.                            *)
(*                                                                         *)
(* Here and in the other modules a definition that is used nowhere is a    *)
(* faulty variant of the one that follows it: the faults that the          *)
(* properties of the model-checking runs are known to tell apart.          *)
(***************************************************************************)
EXTENDS Integers, Sequences, FiniteSets

CONSTANTS
  MaxFiles,    \* header.max_files, fixed when the file is created
  Ids,         \* image ids a caller may pass
  Images,      \* image contents a caller may pass
  Broken,      \* those contents that libvips cannot decode
  DerivedRes,  \* the resolutions below ORIG_RES (THUMB_RES and SMALL_RES)
  ORIG_RES,    \* the resolution of the inserted image itself
  SizeOf,      \* bytes of an image at a resolution, after JPEG encoding
  NoId,        \* the img_id of a slot that calloc() zeroed
  NoImage,     \* the SHA of such a slot, and the result of a call without one
  UINT32_MAX   \* largest value of a uint32_t

ASSUME MaxFilesAssumption == MaxFiles \in Nat \ {0} /\ UINT32_MAX \in Nat
ASSUME WidthAssumption == MaxFiles <= UINT32_MAX
ASSUME NamesAssumption == NoId \notin Ids /\ NoImage \notin Images
ASSUME BrokenAssumption == Broken \subseteq Images
ASSUME ResAssumption == ORIG_RES \notin DerivedRes

Res == DerivedRes \union {ORIG_RES}

ASSUME SizeAssumption == SizeOf \in [Images \X Res -> Nat \ {0}]

Slots == 0 .. MaxFiles - 1

\* What lies at an offset of the data region: an image at one resolution.
Blobs == [img : Images, res : Res]

Blob(img, res) == [img |-> img, res |-> res]

ASSUME NoImageAssumption == NoImage \notin Blobs

BlobSize(b) == SizeOf[<<b.img, b.res>>]

\* struct img_metadata; orig_res is only ever displayed and is left out.
Metadata == [img_id   : Ids \union {NoId},
             SHA      : Images \union {NoImage},
             size     : [Res -> Nat],
             offset   : [Res -> Nat],
             is_valid : BOOLEAN]

\* A slot as calloc() leaves it.
BlankMetadata == [img_id   |-> NoId,
                  SHA      |-> NoImage,
                  size     |-> [r \in Res |-> 0],
                  offset   |-> [r \in Res |-> 0],
                  is_valid |-> FALSE]

BlankIndex == [i \in Slots |-> BlankMetadata]

\* The two counters of struct imgfs_header that change after creation.
Headers == [version : 0 .. UINT32_MAX, nb_files : 0 .. UINT32_MAX]

BlankHeader == [version |-> 0, nb_files |-> 0]

\* A counter that goes below zero.
SignedDec(n) == n - 1

\* ++ and -- on a uint32_t.
Inc(n) == IF n = UINT32_MAX THEN 0 ELSE n + 1
Dec(n) == IF n = 0 THEN UINT32_MAX ELSE n - 1

-----------------------------------------------------------------------------
Valid(index) == {i \in Slots : index[i].is_valid}

Named(index, id) == {i \in Valid(index) : index[i].img_id = id}

\* The loops leave at the first match.
First(S) == CHOOSE i \in S : \A j \in S : i <= j

\* The slot do_insert fills, before get_resolution has accepted the image.
Filled(m, id, img) == [m EXCEPT !.img_id = id, !.SHA = img,
                                !.size[ORIG_RES] = SizeOf[<<img, ORIG_RES>>]]

\* A search that misses equal names.
DedupStopsBySHA(index, i) ==
  {j \in Valid(index) \ {i} : index[j].SHA = index[i].SHA}

\* A search that ends at the new slot.
DedupStopsBelow(index, i) ==
  {j \in Valid(index) \intersect 0 .. i - 1 : \/ index[j].img_id = index[i].img_id
                                              \/ index[j].SHA = index[i].SHA}

\* The slots at which the loop of do_name_and_content_dedup stops: the same
\* name or the same content, whichever slot comes first.
DedupStops(index, i) ==
  {j \in Valid(index) \ {i} : \/ index[j].img_id = index[i].img_id
                              \/ index[j].SHA = index[i].SHA}

\* The return value of do_name_and_content_dedup.
DedupError(index, nb_files, i) ==
  IF i > nb_files \/ ~index[i].is_valid THEN "ERR_IMAGE_NOT_FOUND"
  ELSE IF /\ DedupStops(index, i) # {}
          /\ index[First(DedupStops(index, i))].img_id = index[i].img_id
       THEN "ERR_DUPLICATE_ID"
       ELSE "ERR_NONE"

\* Deduplication that does not clear the offset.
DedupedUncleared(index, nb_files, i) ==
  LET stops == DedupStops(index, i)
  IN  IF stops # {} /\ DedupError(index, nb_files, i) = "ERR_NONE"
      THEN [index[i] EXCEPT !.offset = index[First(stops)].offset,
                            !.size   = index[First(stops)].size]
      ELSE index[i]

\* The entry do_name_and_content_dedup leaves in slot i.  Every iteration that
\* does not leave the loop clears the offset of the original; only a loop left
\* with ERR_DUPLICATE_ID at slot 0 has not cleared it.
Deduped(index, nb_files, i) ==
  LET stops == DedupStops(index, i)
      j     == First(stops)
      err   == DedupError(index, nb_files, i)
  IN  CASE \/ err = "ERR_IMAGE_NOT_FOUND"
           \/ err = "ERR_DUPLICATE_ID" /\ j = 0 -> index[i]
        [] err = "ERR_NONE" /\ stops # {} ->
             [index[i] EXCEPT !.offset = index[j].offset,
                              !.size   = index[j].size]
        [] OTHER -> [index[i] EXCEPT !.offset[ORIG_RES] = 0]

\* What fread() of size bytes at offset yields: a blob when both come from the
\* same blob, otherwise bytes that are no image (offset 0 is the header).
BytesAt(data, offset, size) ==
  IF offset \in 1 .. Len(data) /\ BlobSize(data[offset]) = size
  THEN data[offset]
  ELSE NoImage

\* What a reader of the entry gets at a resolution.
Content(m, data, res) == BytesAt(data, m.offset[res], m.size[res])

-----------------------------------------------------------------------------
\* Two slots a caller cannot tell apart: the same entry, or both empty.  An
\* empty slot may hold different remains in memory and in the file.
SameSlot(m, n) == m = n \/ (~m.is_valid /\ ~n.is_valid)

\* A derived image of the entry is either not made yet or where the entry says.
DerivedIntact(m, d, res) ==
  \/ m.size[res] = 0 /\ m.offset[res] = 0
  \/ Content(m, d, res) = Blob(m.SHA, res)

EntryIntact(m, d) ==
  /\ m.SHA \in Images \ Broken
  /\ Content(m, d, ORIG_RES) = Blob(m.SHA, ORIG_RES)
  /\ \A res \in DerivedRes : DerivedIntact(m, d, res)

\* The images a file shows, in the order of its array.
Visible(index) == [i \in Valid(index) |-> <<index[i].img_id, index[i].SHA>>]

=============================================================================
