--------------------------- MODULE ImgfsIndexProofs ---------------------------
(***************************************************************************)
(* Lemmas about the index: the searches of its array, deduplication, the   *)
(* number of its images, and where its entries lead.  They speak of no     *)
(* state and serve the proofs of every module that works on an imgFS file. *)
(***************************************************************************)
EXTENDS ImgfsIndex, FiniteSetTheorems, TLAPS

-----------------------------------------------------------------------------
(* Induction over the naturals, for a set instead of a predicate. *)

\* A set of naturals has a least member.
LEMMA Least ==
  ASSUME NEW T \in SUBSET Nat, T # {}
  PROVE  \E x \in T : \A y \in T : x <= y
<1> DEFINE U == {0 .. x - 1 : x \in T}
<1>1. IsWellFoundedOn(StrictSubsetOrdering(Nat), FiniteSubsetsOf(Nat))
  BY FS_StrictSubsetOrderingWellFounded
<1>2. U \in SUBSET FiniteSubsetsOf(Nat)
  <2> SUFFICES ASSUME NEW x \in T
               PROVE  0 .. x - 1 \in FiniteSubsetsOf(Nat)
    OBVIOUS
  <2>1. IsFiniteSet(0 .. x - 1)
    BY FS_Interval
  <2> QED
    BY <2>1 DEF FiniteSubsetsOf
<1>3. U # {}
  OBVIOUS
<1>4. PICK S \in U : \A V \in U : <<V, S>> \notin StrictSubsetOrdering(Nat)
  <2> HIDE DEF U
  <2> QED
    BY <1>1, <1>2, <1>3, WFMin
<1>5. PICK x \in T : S = 0 .. x - 1
  BY <1>4
<1>6. ASSUME NEW y \in T, y < x
      PROVE  FALSE
  <2>1. 0 .. y - 1 \in U
    OBVIOUS
  <2>2. <<0 .. y - 1, S>> \notin StrictSubsetOrdering(Nat)
    BY <2>1, <1>4
  <2>3. /\ 0 .. y - 1 \subseteq S
        /\ y \in S /\ y \notin 0 .. y - 1
        /\ S \subseteq Nat
    BY <1>5, <1>6
  <2> QED
    BY <2>2, <2>3 DEF StrictSubsetOrdering
<1> QED
  BY <1>6

\* Strong induction.
LEMMA Induction ==
  ASSUME NEW T \in SUBSET Nat, \A n \in Nat : 0 .. n - 1 \subseteq T => n \in T
  PROVE  T = Nat
<1> SUFFICES ASSUME Nat \ T # {}
             PROVE  FALSE
  OBVIOUS
<1>1. PICK x \in Nat \ T : \A y \in Nat \ T : x <= y
  BY Least
<1>2. 0 .. x - 1 \subseteq T
  BY <1>1
<1> QED
  BY <1>1, <1>2

-----------------------------------------------------------------------------
(* The operators the model is built from. *)

\* The loops over the array visit finitely many slots.
LEMMA SlotsFinite == IsFiniteSet(Slots)
  BY FS_Interval, MaxFilesAssumption DEF Slots

\* The first match of a loop is a match, and no match comes before it.
LEMMA FirstIsLeast ==
  ASSUME NEW S \in SUBSET Slots, S # {}
  PROVE  First(S) \in S /\ \A j \in S : First(S) <= j
<1>1. PICK k \in S : \A j \in S : k <= j
  <2>1. S \in SUBSET Nat
    BY MaxFilesAssumption DEF Slots
  <2> QED
    BY <2>1, Least
<1> QED
  BY <1>1 DEF First

\* Counting on a uint32_t stays within a uint32_t.
LEMMA CounterType ==
  ASSUME NEW n \in 0 .. UINT32_MAX
  PROVE  Inc(n) \in 0 .. UINT32_MAX /\ Dec(n) \in 0 .. UINT32_MAX
  BY MaxFilesAssumption DEF Inc, Dec

\* The blank slot and the blank header are well typed.
LEMMA BlankType ==
  /\ BlankHeader \in Headers
  /\ BlankIndex \in [Slots -> Metadata]
  /\ Valid(BlankIndex) = {}
  BY MaxFilesAssumption
  DEF BlankHeader, Headers, BlankIndex, BlankMetadata, Metadata, Valid

\* The slot do_insert fills is well typed.
LEMMA FilledType ==
  ASSUME NEW m \in Metadata, NEW id \in Ids, NEW img \in Images
  PROVE  Filled(m, id, img) \in Metadata
<1>1. SizeOf[<<img, ORIG_RES>>] \in Nat
  BY SizeAssumption DEF Res
<1> QED
  BY <1>1 DEF Filled, Metadata, Res

\* do_name_and_content_dedup leaves a well typed entry.
LEMMA DedupedType ==
  ASSUME NEW index \in [Slots -> Metadata], NEW i \in Slots, NEW n
  PROVE  Deduped(index, n, i) \in Metadata
<1> DEFINE stops == DedupStops(index, i)
           j     == First(stops)
<1>1. stops \in SUBSET Slots
  BY DEF DedupStops, Valid
<1>2. stops # {} => index[j] \in Metadata
  BY <1>1, FirstIsLeast
<1>3. index[i] \in Metadata
  OBVIOUS
<1>4. [index[i] EXCEPT !.offset[ORIG_RES] = 0] \in Metadata
  BY <1>3 DEF Metadata
<1>5. stops # {} => [index[i] EXCEPT !.offset = index[j].offset,
                                     !.size   = index[j].size] \in Metadata
  BY <1>2, <1>3 DEF Metadata
<1> HIDE DEF stops, j
<1> QED
  BY <1>3, <1>4, <1>5 DEF Deduped, stops, j

\* Bytes read from the data region are an image or nothing.
LEMMA ContentType ==
  ASSUME NEW d \in Seq(Blobs), NEW offset, NEW size
  PROVE  BytesAt(d, offset, size) \in Blobs \union {NoImage}
  BY DEF BytesAt

-----------------------------------------------------------------------------
(* The data region only grows. *)

\* What an entry leads to stays there when something is appended.
LEMMA AppendKeeps ==
  ASSUME NEW d \in Seq(Blobs), NEW b \in Blobs, NEW m \in Metadata, NEW res \in Res,
         Content(m, d, res) # NoImage
  PROVE  Content(m, Append(d, b), res) = Content(m, d, res)
<1>1. m.offset[res] \in 1 .. Len(d)
  BY DEF Content, BytesAt
<1>2. m.offset[res] \in 1 .. Len(Append(d, b))
  BY <1>1
<1>3. Append(d, b)[m.offset[res]] = d[m.offset[res]]
  BY <1>1
<1> QED
  BY <1>1, <1>2, <1>3 DEF Content, BytesAt

\* What has been appended is found at the new end.
LEMMA AppendedIsFound ==
  ASSUME NEW d \in Seq(Blobs), NEW b \in Blobs
  PROVE  BytesAt(Append(d, b), Len(d) + 1, BlobSize(b)) = b
<1>1. Append(d, b)[Len(d) + 1] = b /\ Len(Append(d, b)) = Len(d) + 1
  OBVIOUS
<1>2. Len(d) + 1 \in 1 .. Len(d) + 1
  OBVIOUS
<1> QED
  BY <1>1, <1>2 DEF BytesAt

\* A blob is an image, and not the absence of one.
LEMMA BlobIsImage ==
  ASSUME NEW img \in Images, NEW res \in Res
  PROVE  /\ Blob(img, res) \in Blobs
         /\ Blob(img, res) # NoImage
         /\ BlobSize(Blob(img, res)) = SizeOf[<<img, res>>]
         /\ SizeOf[<<img, res>>] \in Nat \ {0}
  BY NoImageAssumption, SizeAssumption DEF Blob, Blobs, BlobSize

\* An intact entry stays intact when something is appended.
LEMMA AppendKeepsIntact ==
  ASSUME NEW d \in Seq(Blobs), NEW b \in Blobs, NEW m \in Metadata,
         EntryIntact(m, d)
  PROVE  EntryIntact(m, Append(d, b))
<1>1. m.SHA \in Images /\ ORIG_RES \in Res /\ DerivedRes \subseteq Res
  BY DEF EntryIntact, Res
<1>2. Content(m, Append(d, b), ORIG_RES) = Blob(m.SHA, ORIG_RES)
  BY <1>1, AppendKeeps, BlobIsImage DEF EntryIntact
<1>3. ASSUME NEW res \in DerivedRes
      PROVE  DerivedIntact(m, Append(d, b), res)
  BY <1>1, AppendKeeps, BlobIsImage DEF EntryIntact, DerivedIntact
<1> QED
  BY <1>2, <1>3 DEF EntryIntact

\* The original of an intact entry is not at the start of the file.
LEMMA IntactIsPlaced ==
  ASSUME NEW d \in Seq(Blobs), NEW m \in Metadata, EntryIntact(m, d)
  PROVE  m.offset[ORIG_RES] # 0
<1>1. Content(m, d, ORIG_RES) # NoImage
  BY BlobIsImage DEF EntryIntact, Res
<1> QED
  BY <1>1 DEF Content, BytesAt

-----------------------------------------------------------------------------
(* The array and the number of its valid entries. *)

LEMMA ValidFinite ==
  ASSUME NEW index
  PROVE  /\ Valid(index) \in SUBSET Slots
         /\ IsFiniteSet(Valid(index))
         /\ Cardinality(Valid(index)) \in 0 .. MaxFiles
<1>1. Valid(index) \in SUBSET Slots
  BY DEF Valid
<1>2. Cardinality(Slots) = MaxFiles
  BY FS_Interval, MaxFilesAssumption DEF Slots
<1> QED
  BY <1>1, <1>2, SlotsFinite, FS_Subset, FS_CardinalityType, MaxFilesAssumption

\* An entry put into an empty slot adds one to the images of the array ...
LEMMA FillCounts ==
  ASSUME NEW index \in [Slots -> Metadata], NEW i \in Slots \ Valid(index),
         NEW m \in Metadata, m.is_valid
  PROVE  LET after == [index EXCEPT ![i] = m]
         IN  /\ Valid(after) = Valid(index) \union {i}
             /\ Cardinality(Valid(after)) = Inc(Cardinality(Valid(index)))
<1> DEFINE after == [index EXCEPT ![i] = m]
<1>1. Valid(after) = Valid(index) \union {i}
  BY DEF Valid
<1>2. Cardinality(Valid(after)) = Cardinality(Valid(index)) + 1
  BY <1>1, ValidFinite, FS_AddElement
<1>3. Cardinality(Valid(index)) + 1 <= UINT32_MAX
  BY <1>2, ValidFinite, MaxFilesAssumption, WidthAssumption
<1>4. Inc(Cardinality(Valid(index))) = Cardinality(Valid(index)) + 1
  BY <1>3, ValidFinite, MaxFilesAssumption DEF Inc
<1> QED
  BY <1>1, <1>2, <1>4

\* ... and an entry taken out takes one away.
LEMMA EmptyCounts ==
  ASSUME NEW index \in [Slots -> Metadata], NEW i \in Valid(index)
  PROVE  LET after == [index EXCEPT ![i].is_valid = FALSE]
         IN  /\ Valid(after) = Valid(index) \ {i}
             /\ Cardinality(Valid(after)) = Dec(Cardinality(Valid(index)))
<1> DEFINE after == [index EXCEPT ![i].is_valid = FALSE]
<1>0. i \in Slots
  BY DEF Valid
<1>1. Valid(after) = Valid(index) \ {i}
  BY <1>0 DEF Valid, Metadata
<1>2. Cardinality(Valid(after)) = Cardinality(Valid(index)) - 1
  BY <1>1, ValidFinite, FS_RemoveElement
<1>3. Cardinality(Valid(index)) # 0
  BY ValidFinite, FS_EmptySet
<1> QED
  BY <1>1, <1>2, <1>3, ValidFinite DEF Dec

\* Two arrays that agree slot by slot show the same entries.
LEMMA SameValid ==
  ASSUME NEW f \in [Slots -> Metadata], NEW g \in [Slots -> Metadata],
         \A i \in Slots : SameSlot(f[i], g[i])
  PROVE  /\ Valid(f) = Valid(g)
         /\ \A i \in Valid(f) : f[i] = g[i]
  BY DEF SameSlot, Valid

-----------------------------------------------------------------------------
(* The entries that the calls put together. *)

\* The slot i of the array with a new entry in it, valid.
WithNew(index, i, id, img) ==
  [index EXCEPT ![i] = [Filled(@, id, img) EXCEPT !.is_valid = TRUE]]

\* What deduplication finds there: the new name, the new content, and for the
\* rest the entries there were.
LEMMA NewEntryFacts ==
  ASSUME NEW index \in [Slots -> Metadata], NEW i \in Slots \ Valid(index),
         NEW id \in Ids, NEW img \in Images
  PROVE  LET after == WithNew(index, i, id, img)
         IN  /\ after \in [Slots -> Metadata]
             /\ after[i].img_id = id
             /\ after[i].SHA = img
             /\ after[i].is_valid
             /\ after[i].size[ORIG_RES] = SizeOf[<<img, ORIG_RES>>]
             /\ \A j \in Slots \ {i} : after[j] = index[j]
             /\ Valid(after) \ {i} = Valid(index)
             /\ DedupStops(after, i) =
                  {j \in Valid(index) : index[j].img_id = id \/ index[j].SHA = img}
<1> DEFINE after == WithNew(index, i, id, img)
           m     == Filled(index[i], id, img)
<1>1. index[i] \in Metadata
  OBVIOUS
<1>2. after[i] = [m EXCEPT !.is_valid = TRUE]
  BY <1>1 DEF WithNew
<1>3. m \in Metadata
  BY <1>1, FilledType
<1>4. /\ m.img_id = id
      /\ m.SHA = img
      /\ m.size[ORIG_RES] = SizeOf[<<img, ORIG_RES>>]
  BY <1>1 DEF Filled, Metadata, Res
<1>5. /\ after[i].img_id = id
      /\ after[i].SHA = img
      /\ after[i].is_valid
      /\ after[i].size[ORIG_RES] = SizeOf[<<img, ORIG_RES>>]
      /\ after[i] \in Metadata
  <2> HIDE DEF m
  <2> QED
    BY <1>2, <1>3, <1>4 DEF Metadata
<1>6. \A j \in Slots \ {i} : after[j] = index[j]
  BY DEF WithNew
<1>7. DOMAIN after = Slots /\ after = [j \in Slots |-> after[j]]
  BY DEF WithNew
<1> HIDE DEF after
<1>8. after \in [Slots -> Metadata]
  BY <1>5, <1>6, <1>7
<1>9. Valid(after) \ {i} = Valid(index)
  BY <1>6 DEF Valid
<1>10. \A j \in Valid(index) : after[j] = index[j]
  BY <1>6 DEF Valid
<1>11. DedupStops(after, i) =
         {j \in Valid(index) : index[j].img_id = id \/ index[j].SHA = img}
  BY <1>5, <1>9, <1>10 DEF DedupStops
<1> QED
  BY <1>5, <1>6, <1>8, <1>9, <1>11 DEF after

\* The entry that deduplication accepts shares the places of an image with the
\* same content, or there is none and the entry has no place.
LEMMA DedupedEntry ==
  ASSUME NEW index \in [Slots -> Metadata], NEW i \in Slots \ Valid(index),
         NEW id \in Ids, NEW img \in Images, NEW n,
         DedupError(WithNew(index, i, id, img), n, i) = "ERR_NONE"
  PROVE  LET c == Deduped(WithNew(index, i, id, img), n, i)
         IN  /\ c \in Metadata
             /\ c.img_id = id
             /\ c.SHA = img
             /\ c.is_valid
             /\ \/ /\ \A j \in Valid(index) : index[j].SHA # img
                   /\ c.offset[ORIG_RES] = 0
                   /\ c.size[ORIG_RES] = SizeOf[<<img, ORIG_RES>>]
                \/ \E j \in Valid(index) : /\ index[j].SHA = img
                                            /\ c.offset = index[j].offset
                                            /\ c.size = index[j].size
<1> DEFINE after == WithNew(index, i, id, img)
           stops == DedupStops(after, i)
           first == First(stops)
           c     == Deduped(after, n, i)
<1>1. /\ after \in [Slots -> Metadata]
      /\ after[i].img_id = id
      /\ after[i].SHA = img
      /\ after[i].is_valid
      /\ after[i].size[ORIG_RES] = SizeOf[<<img, ORIG_RES>>]
      /\ \A j \in Slots \ {i} : after[j] = index[j]
      /\ stops = {j \in Valid(index) : index[j].img_id = id \/ index[j].SHA = img}
  BY NewEntryFacts
<1> HIDE DEF after
<1>2. c \in Metadata
  BY <1>1, DedupedType
<1>3. c = IF stops # {}
          THEN [after[i] EXCEPT !.offset = after[first].offset,
                                !.size   = after[first].size]
          ELSE [after[i] EXCEPT !.offset[ORIG_RES] = 0]
  BY DEF Deduped, after
<1>4. after[i] \in Metadata
  BY <1>1
<1>5. CASE stops # {}
  <2>1. first \in stops
    <3>1. stops \in SUBSET Slots
      BY <1>1 DEF Valid
    <3> QED
      BY <1>5, <3>1, FirstIsLeast
  <2>2. /\ first \in Valid(index)
        /\ first \in Slots \ {i}
        /\ after[first] = index[first]
    BY <1>1, <2>1 DEF Valid
  <2>3. index[first].img_id # id
    BY <1>1, <1>5, <2>2 DEF DedupError, after
  <2>4. index[first].SHA = img
    BY <1>1, <2>1, <2>3
  <2>5. c = [after[i] EXCEPT !.offset = index[first].offset,
                             !.size   = index[first].size]
    BY <1>3, <1>5, <2>2
  <2> HIDE DEF c, first, stops
  <2>6. /\ c.img_id = id
        /\ c.SHA = img
        /\ c.is_valid
        /\ c.offset = index[first].offset
        /\ c.size = index[first].size
    BY <1>1, <1>4, <2>5 DEF Metadata
  <2> QED
    BY <1>2, <2>2, <2>4, <2>6 DEF c, after
<1>6. CASE stops = {}
  <2>1. c = [after[i] EXCEPT !.offset[ORIG_RES] = 0]
    BY <1>3, <1>6
  <2>2. \A j \in Valid(index) : index[j].SHA # img
    BY <1>1, <1>6
  <2> HIDE DEF c, first, stops
  <2>3. /\ c.img_id = id
        /\ c.SHA = img
        /\ c.is_valid
        /\ c.offset[ORIG_RES] = 0
        /\ c.size[ORIG_RES] = SizeOf[<<img, ORIG_RES>>]
    BY <1>1, <1>4, <2>1 DEF Metadata, Res
  <2> QED
    BY <1>2, <2>2, <2>3 DEF c, after
<1> QED
  BY <1>5, <1>6

\* An entry with the places of an intact one of the same content is intact.
LEMMA SharedIsIntact ==
  ASSUME NEW m, NEW e, NEW d, EntryIntact(m, d),
         e.SHA = m.SHA, e.offset = m.offset, e.size = m.size
  PROVE  EntryIntact(e, d)
  BY DEF EntryIntact, DerivedIntact, Content

\* An entry with the place of the image just appended, and no other, is intact.
LEMMA PlacedIsIntact ==
  ASSUME NEW d \in Seq(Blobs), NEW img \in Images \ Broken, NEW e \in Metadata,
         e.SHA = img,
         e.offset[ORIG_RES] = Len(d) + 1,
         e.size[ORIG_RES] = SizeOf[<<img, ORIG_RES>>],
         \A res \in DerivedRes : e.offset[res] = 0 /\ e.size[res] = 0
  PROVE  EntryIntact(e, Append(d, Blob(img, ORIG_RES)))
<1>1. Content(e, Append(d, Blob(img, ORIG_RES)), ORIG_RES) = Blob(img, ORIG_RES)
  BY BlobIsImage, AppendedIsFound DEF Content, Res
<1> QED
  BY <1>1 DEF EntryIntact, DerivedIntact

\* An intact entry that gets the place of a derived image, just appended, is
\* intact.
LEMMA ResizedIsIntact ==
  ASSUME NEW d \in Seq(Blobs), NEW m \in Metadata, EntryIntact(m, d),
         NEW res \in DerivedRes
  PROVE  LET b == Blob(m.SHA, res)
             e == [m EXCEPT !.size[res] = BlobSize(b), !.offset[res] = Len(d) + 1]
         IN  /\ b \in Blobs
             /\ e \in Metadata
             /\ e.is_valid = m.is_valid
             /\ e.img_id = m.img_id
             /\ e.SHA = m.SHA
             /\ e.offset[ORIG_RES] = m.offset[ORIG_RES]
             /\ EntryIntact(e, Append(d, b))
             /\ Content(e, Append(d, b), res) = b
<1> DEFINE b == Blob(m.SHA, res)
           e == [m EXCEPT !.size[res] = BlobSize(b), !.offset[res] = Len(d) + 1]
<1>1. m.SHA \in Images \ Broken /\ res \in Res /\ res # ORIG_RES
  BY ResAssumption DEF EntryIntact, Res
<1>2. b \in Blobs /\ BlobSize(b) \in Nat
  BY <1>1, BlobIsImage
<1>3. Len(d) + 1 \in Nat
  OBVIOUS
<1> HIDE DEF b
<1>4. /\ e \in Metadata
      /\ e.is_valid = m.is_valid
      /\ e.img_id = m.img_id
      /\ e.SHA = m.SHA
      /\ e.size[res] = BlobSize(b)
      /\ e.offset[res] = Len(d) + 1
      /\ \A r \in Res \ {res} : e.size[r] = m.size[r] /\ e.offset[r] = m.offset[r]
  BY <1>1, <1>2, <1>3 DEF Metadata
<1> HIDE DEF e
<1>5. EntryIntact(m, Append(d, b))
  BY <1>2, AppendKeepsIntact
<1>6. Content(e, Append(d, b), res) = b
  BY <1>2, <1>4, AppendedIsFound DEF Content
<1>7. Content(e, Append(d, b), ORIG_RES) = Blob(e.SHA, ORIG_RES)
  BY <1>1, <1>4, <1>5 DEF EntryIntact, Content, Res
<1>8. ASSUME NEW r \in DerivedRes
      PROVE  DerivedIntact(e, Append(d, b), r)
  <2>1. CASE r = res
    BY <1>4, <1>6, <2>1 DEF DerivedIntact, b
  <2>2. CASE r # res
    <3>1. DerivedIntact(m, Append(d, b), r)
      BY <1>5 DEF EntryIntact
    <3>2. e.size[r] = m.size[r] /\ e.offset[r] = m.offset[r]
      BY <1>4, <2>2 DEF Res
    <3> QED
      BY <1>4, <3>1, <3>2 DEF DerivedIntact, Content
  <2> QED
    BY <2>1, <2>2
<1>9. EntryIntact(e, Append(d, b))
  BY <1>1, <1>4, <1>7, <1>8 DEF EntryIntact
<1>10. e.offset[ORIG_RES] = m.offset[ORIG_RES]
  BY <1>1, <1>4 DEF Res
<1> QED
  BY <1>2, <1>4, <1>6, <1>9, <1>10 DEF b, e

=============================================================================
