------------------------- MODULE ImgfsSessionsProofs -------------------------
(***************************************************************************)
(* Proofs about the users of one imgFS file, for every number of slots,    *)
(* every set of ids and contents, every width of the counters, and however *)
(* often processes are killed or interrupted.                              *)
(***************************************************************************)
EXTENDS ImgfsSessionsProps, ImgfsIndexProofs, SequenceTheorems

-----------------------------------------------------------------------------
(* The library as one user sees it: the operators of Imgfs on its copies.  *)

\* The operators of the index are those of ImgfsIndex.
LEMMA MineIndex ==
  ASSUME NEW u \in Users
  PROVE  /\ \A f : Mine(u)!Valid(f) = Valid(f)
         /\ \A f, id : Mine(u)!Named(f, id) = Named(f, id)
         /\ \A S : Mine(u)!First(S) = First(S)
         /\ \A m, id, img : Mine(u)!Filled(m, id, img) = Filled(m, id, img)
         /\ \A f, n, i : Mine(u)!DedupError(f, n, i) = DedupError(f, n, i)
         /\ \A f, n, i : Mine(u)!Deduped(f, n, i) = Deduped(f, n, i)
         /\ \A m, d, res : Mine(u)!Content(m, d, res) = Content(m, d, res)
         /\ \A img, res : Mine(u)!Blob(img, res) = Blob(img, res)
         /\ \A b : Mine(u)!BlobSize(b) = BlobSize(b)
         /\ \A n : Mine(u)!Inc(n) = Inc(n) /\ Mine(u)!Dec(n) = Dec(n)
<1>s. Mine(u)!Slots = Slots
  BY DEF Mine!Slots, Slots
<1>1. \A f : Mine(u)!Valid(f) = Valid(f)
  BY <1>s DEF Mine!Valid, Valid
<1>2. \A f, id : Mine(u)!Named(f, id) = Named(f, id)
  BY <1>1 DEF Mine!Named, Named
<1>3. \A S : Mine(u)!First(S) = First(S)
  BY DEF Mine!First, First
<1>4. \A m, id, img : Mine(u)!Filled(m, id, img) = Filled(m, id, img)
  BY DEF Mine!Filled, Filled
<1>5. \A f, i : Mine(u)!DedupStops(f, i) = DedupStops(f, i)
  BY <1>1 DEF Mine!DedupStops, DedupStops
<1>6. \A f, n, i : Mine(u)!DedupError(f, n, i) = DedupError(f, n, i)
  BY <1>3, <1>5 DEF Mine!DedupError, DedupError
<1>7. \A f, n, i : Mine(u)!Deduped(f, n, i) = Deduped(f, n, i)
  <2> SUFFICES ASSUME NEW f, NEW n, NEW i
               PROVE  Mine(u)!Deduped(f, n, i) = Deduped(f, n, i)
    OBVIOUS
  <2>1. /\ Mine(u)!DedupStops(f, i) = DedupStops(f, i)
        /\ Mine(u)!DedupError(f, n, i) = DedupError(f, n, i)
        /\ Mine(u)!First(DedupStops(f, i)) = First(DedupStops(f, i))
    BY <1>3, <1>5, <1>6
  <2> QED
    BY <2>1 DEF Mine!Deduped, Deduped
<1>8. \A b : Mine(u)!BlobSize(b) = BlobSize(b)
  BY DEF Mine!BlobSize, BlobSize
<1>9. \A m, d, res : Mine(u)!Content(m, d, res) = Content(m, d, res)
  BY <1>8 DEF Mine!Content, Content, Mine!BytesAt, BytesAt
<1>10. \A img, res : Mine(u)!Blob(img, res) = Blob(img, res)
  BY DEF Mine!Blob, Blob
<1>11. \A n : Mine(u)!Inc(n) = Inc(n) /\ Mine(u)!Dec(n) = Dec(n)
  BY DEF Mine!Inc, Inc, Mine!Dec, Dec
<1> QED
  BY <1>1, <1>2, <1>3, <1>4, <1>6, <1>7, <1>8, <1>9, <1>10, <1>11

\* The file's images as a user sees them, behind the write in its buffer.
Stored(u) == DataWith(pending[u])

\* The entry that deduplication leaves in slot i of a user's array, and what it
\* returns.
Offered(u, i, id, img) ==
  Deduped(WithNew(metadata[u], i, id, img), header[u].nb_files, i)

OfferError(u, i, id, img) ==
  DedupError(WithNew(metadata[u], i, id, img), header[u].nb_files, i)

LEMMA MineInserts ==
  ASSUME NEW u \in Users, NEW i, NEW id, NEW img
  PROVE  /\ Mine(u)!EmptySlots = Slots \ Valid(metadata[u])
         /\ Mine(u)!InsertAt(i) <=> /\ ~Off(u)
                                    /\ header[u].nb_files < MaxFiles
                                    /\ Slots \ Valid(metadata[u]) # {}
                                    /\ i = First(Slots \ Valid(metadata[u]))
         /\ Mine(u)!Candidate(i, id, img) = Offered(u, i, id, img)
         /\ Mine(u)!CandidateError(i, id, img) = OfferError(u, i, id, img)
         /\ Mine(u)!IsNew(i, id, img) <=> Offered(u, i, id, img).offset[ORIG_RES] = 0
         /\ Mine(u)!InsertAccepted(i, id, img) <=>
              /\ Mine(u)!InsertAt(i)
              /\ img \notin Broken
              /\ OfferError(u, i, id, img) = "ERR_NONE"
<1>1. Mine(u)!EmptySlots = Slots \ Valid(metadata[u])
  BY MineIndex DEF Mine!EmptySlots, Mine!Slots, Slots
<1>2. Mine(u)!WithEntry(i, id, img) = WithNew(metadata[u], i, id, img)
  <2>1. Mine(u)!Filled(metadata[u][i], id, img) = Filled(metadata[u][i], id, img)
    BY MineIndex
  <2> QED
    BY <2>1 DEF Mine!WithEntry, WithNew
<1>3. Mine(u)!Candidate(i, id, img) = Offered(u, i, id, img)
  BY <1>2, MineIndex DEF Mine!Candidate, Offered
<1>4. Mine(u)!CandidateError(i, id, img) = OfferError(u, i, id, img)
  BY <1>2, MineIndex DEF Mine!CandidateError, OfferError
<1>5. Mine(u)!IsNew(i, id, img) <=> Offered(u, i, id, img).offset[ORIG_RES] = 0
  BY <1>3 DEF Mine!IsNew
<1>6. Mine(u)!InsertAt(i) <=> /\ ~Off(u)
                              /\ header[u].nb_files < MaxFiles
                              /\ Slots \ Valid(metadata[u]) # {}
                              /\ i = First(Slots \ Valid(metadata[u]))
  BY <1>1, MineIndex DEF Mine!InsertAt, Off
<1>7. Mine(u)!InsertAccepted(i, id, img) <=>
        /\ Mine(u)!InsertAt(i)
        /\ img \notin Broken
        /\ OfferError(u, i, id, img) = "ERR_NONE"
  BY <1>4 DEF Mine!InsertAccepted
<1> QED
  BY <1>1, <1>3, <1>4, <1>5, <1>6, <1>7

\* The slot that do_insert works on is empty in the user's array.
LEMMA MineSlot ==
  ASSUME NEW u \in Users, NEW i, Mine(u)!InsertAt(i)
  PROVE  i \in Slots \ Valid(metadata[u])
<1>1. Slots \ Valid(metadata[u]) # {} /\ i = First(Slots \ Valid(metadata[u]))
  BY MineInserts
<1>2. Slots \ Valid(metadata[u]) \in SUBSET Slots
  OBVIOUS
<1> QED
  BY <1>1, <1>2, FirstIsLeast

\* The entry that do_insert writes.
LEMMA MineEntry ==
  ASSUME NEW u \in Users, NEW i, NEW id, NEW img
  PROVE  LET c == Offered(u, i, id, img)
         IN  Mine(u)!Entry(i, id, img) =
               IF c.offset[ORIG_RES] = 0
               THEN [c EXCEPT
                       !.offset = [r \in Res |-> IF r = ORIG_RES THEN End(u) ELSE 0],
                       !.size   = [r \in Res |-> IF r = ORIG_RES THEN @[r] ELSE 0]]
               ELSE c
<1>1. Mine(u)!Candidate(i, id, img) = Offered(u, i, id, img)
  BY MineInserts
<1>2. Mine(u)!IsNew(i, id, img) <=> Offered(u, i, id, img).offset[ORIG_RES] = 0
  BY MineInserts
<1>3. Mine(u)!Res = Res
  BY DEF Mine!Res, Res
<1> QED
  BY <1>1, <1>2, <1>3 DEF Mine!Entry, Mine!Placed, End

LEMMA MineDeletes ==
  ASSUME NEW u \in Users, NEW id
  PROVE  /\ Mine(u)!Deleted(id) =
              [metadata[u] EXCEPT ![First(Named(metadata[u], id))].is_valid = FALSE]
         /\ Mine(u)!BumpInsert = [version  |-> Inc(header[u].version),
                                  nb_files |-> Inc(header[u].nb_files)]
         /\ Mine(u)!BumpDelete = [version  |-> Inc(header[u].version),
                                  nb_files |-> Dec(header[u].nb_files)]
<1>1. Mine(u)!Deleted(id) =
        [metadata[u] EXCEPT ![First(Named(metadata[u], id))].is_valid = FALSE]
  BY MineIndex DEF Mine!Deleted
<1>2. /\ Mine(u)!BumpInsert = [version  |-> Inc(header[u].version),
                               nb_files |-> Inc(header[u].nb_files)]
      /\ Mine(u)!BumpDelete = [version  |-> Inc(header[u].version),
                               nb_files |-> Dec(header[u].nb_files)]
  BY MineIndex DEF Mine!BumpInsert, Mine!BumpDelete
<1> QED
  BY <1>1, <1>2

LEMMA MineReads ==
  ASSUME NEW u \in Users, NEW i, NEW id, NEW res
  PROVE  LET m == metadata[u][i]
             b == Blob(Content(m, Stored(u), ORIG_RES).img, res)
         IN  /\ Mine(u)!ReadAt(i, id) <=> /\ ~Off(u)
                                          /\ Named(metadata[u], id) # {}
                                          /\ i = First(Named(metadata[u], id))
             /\ Mine(u)!CallsResize(i, res) <=>
                  res # ORIG_RES /\ (m.size[res] = 0 \/ m.offset[res] = 0)
             /\ Mine(u)!NeedsResize(i, res) <=>
                  /\ Mine(u)!CallsResize(i, res)
                  /\ i < header[u].nb_files
                  /\ m.size[res] = 0
             /\ Mine(u)!Resizes(i, id, res) <=>
                  /\ Mine(u)!ReadAt(i, id)
                  /\ Mine(u)!NeedsResize(i, res)
                  /\ Content(m, Stored(u), ORIG_RES) # NoImage
             /\ Mine(u)!Resized(i, res) = b
             /\ Mine(u)!ResizedEntry(i, res) =
                  [m EXCEPT !.size[res] = BlobSize(b), !.offset[res] = End(u)]
<1> DEFINE m == metadata[u][i]
           b == Blob(Content(m, Stored(u), ORIG_RES).img, res)
<1>1. Mine(u)!ReadAt(i, id) <=> /\ ~Off(u)
                                /\ Named(metadata[u], id) # {}
                                /\ i = First(Named(metadata[u], id))
  BY MineIndex DEF Mine!ReadAt, Off
<1>2. Mine(u)!CallsResize(i, res) <=>
        res # ORIG_RES /\ (m.size[res] = 0 \/ m.offset[res] = 0)
  BY DEF Mine!CallsResize
<1>3. Mine(u)!NeedsResize(i, res) <=>
        /\ Mine(u)!CallsResize(i, res)
        /\ i < header[u].nb_files
        /\ m.size[res] = 0
  BY DEF Mine!NeedsResize
<1>4. Mine(u)!Content(m, Stored(u), ORIG_RES) = Content(m, Stored(u), ORIG_RES)
  BY MineIndex
<1>5. Mine(u)!Resizes(i, id, res) <=>
        /\ Mine(u)!ReadAt(i, id)
        /\ Mine(u)!NeedsResize(i, res)
        /\ Content(m, Stored(u), ORIG_RES) # NoImage
  BY <1>4 DEF Mine!Resizes, Stored
<1>6. Mine(u)!Resized(i, res) = b
  BY <1>4, MineIndex DEF Mine!Resized, Stored
<1>7. Mine(u)!ResizedEntry(i, res) =
        [m EXCEPT !.size[res] = BlobSize(b), !.offset[res] = End(u)]
  BY <1>6, MineIndex DEF Mine!ResizedEntry, End
<1> QED
  BY <1>1, <1>2, <1>3, <1>5, <1>6, <1>7

-----------------------------------------------------------------------------
(* Type correctness. *)

\* do_insert remembers its parameters until it returns.
CallsTyped ==
  /\ call = [u \in Users |-> call[u]]
  /\ \A u \in Users :
       pc[u] \in {"image", "entry"} => call[u].id \in Ids /\ call[u].arg \in Images

Typed == TypeOK /\ CallsTyped

\* The file when a write has reached it is well typed.
LEMMA WithType ==
  ASSUME TypeOK, NEW w \in Writes
  PROVE  /\ HeaderWith(w) \in Headers
         /\ IndexWith(w) \in [Slots -> Metadata]
         /\ DataWith(w) \in Seq(Blobs)
<1>1. /\ disk_header \in Headers
      /\ disk_metadata \in [Slots -> Metadata]
      /\ data \in Seq(Blobs)
  BY DEF TypeOK
<1>2. /\ w.to = "header" => w.header \in Headers
      /\ w.to = "entry" => w.at \in Slots /\ w.entry \in Metadata
      /\ w.to = "array" => w.from \in Nat /\ w.index \in [Slots -> Metadata]
      /\ w.to = "images" => w.at \in Nat /\ w.blob \in Blobs
  BY DEF Writes, NoWrite
<1>3. IndexWith(w) \in [Slots -> Metadata]
  <2>1. CASE w.to = "entry"
    BY <1>1, <1>2, <2>1 DEF IndexWith
  <2>2. CASE w.to = "array"
    BY <1>1, <1>2, <2>2 DEF IndexWith
  <2>3. CASE w.to \notin {"entry", "array"}
    BY <1>1, <2>3 DEF IndexWith
  <2> QED
    BY <2>1, <2>2, <2>3
<1>4. DataWith(w) \in Seq(Blobs)
  <2>1. CASE w.to # "images"
    BY <1>1, <2>1 DEF DataWith
  <2>2. CASE w.to = "images" /\ w.at > Len(data)
    BY <1>1, <1>2, <2>2 DEF DataWith
  <2>3. CASE w.to = "images" /\ ~(w.at > Len(data))
    <3>1. DataWith(w) = [data EXCEPT ![w.at] = w.blob]
      BY <2>3 DEF DataWith
    <3>2. CASE w.at \in 1 .. Len(data)
      BY <1>1, <1>2, <2>3, <3>1, <3>2, ExceptSeq
    <3>3. CASE w.at \notin 1 .. Len(data)
      <4>1. [data EXCEPT ![w.at] = w.blob] = data
        BY <1>1, <3>3
      <4> QED
        BY <1>1, <3>1, <4>1
    <3> QED
      BY <3>2, <3>3
  <2> QED
    BY <2>1, <2>2, <2>3
<1> QED
  BY <1>1, <1>2, <1>3, <1>4 DEF HeaderWith

LEMMA FlushType ==
  ASSUME TypeOK, NEW u \in Users
  PROVE  /\ HeaderWith(pending[u]) \in Headers
         /\ IndexWith(pending[u]) \in [Slots -> Metadata]
         /\ Stored(u) \in Seq(Blobs)
         /\ End(u) \in Nat
<1>1. pending[u] \in Writes
  BY DEF TypeOK
<1>2. Stored(u) \in Seq(Blobs)
  BY <1>1, WithType DEF Stored
<1> QED
  BY <1>1, <1>2, WithType DEF Stored, End

\* The writes of the calls are well typed.
LEMMA WritesType ==
  /\ NoWrite \in Writes
  /\ \A k \in Nat, b \in Blobs : ToImages(k, b) \in Writes
  /\ \A i \in Slots, m \in Metadata : ToEntry(i, m) \in Writes
  /\ \A k \in Nat, f \in [Slots -> Metadata] : ToArray(k, f) \in Writes
  /\ \A h \in Headers : ToHeader(h) \in Writes
  BY DEF Writes, NoWrite, ToImages, ToEntry, ToArray, ToHeader

\* The entries that do_insert puts together are well typed.
LEMMA OfferType ==
  ASSUME TypeOK, NEW u \in Users, NEW i \in Slots \ Valid(metadata[u]),
         NEW id \in Ids, NEW img \in Images
  PROVE  /\ Filled(metadata[u][i], id, img) \in Metadata
         /\ Offered(u, i, id, img) \in Metadata
         /\ Mine(u)!Entry(i, id, img) \in Metadata
<1>1. metadata[u] \in [Slots -> Metadata] /\ End(u) \in Nat
  BY FlushType DEF TypeOK
<1>2. Filled(metadata[u][i], id, img) \in Metadata
  BY <1>1, FilledType
<1>3. WithNew(metadata[u], i, id, img) \in [Slots -> Metadata]
  BY <1>1, NewEntryFacts
<1> DEFINE c == Offered(u, i, id, img)
<1>4. c \in Metadata
  BY <1>3, DedupedType DEF Offered
<1> HIDE DEF c
<1>5. [c EXCEPT !.offset = [r \in Res |-> IF r = ORIG_RES THEN End(u) ELSE 0],
                !.size   = [r \in Res |-> IF r = ORIG_RES THEN @[r] ELSE 0]] \in Metadata
  BY <1>1, <1>4 DEF Metadata
<1>6. Mine(u)!Entry(i, id, img) \in Metadata
  BY <1>4, <1>5, MineEntry DEF c
<1> QED
  BY <1>2, <1>4, <1>6 DEF c

\* The header that do_insert and do_delete write, and the array of do_delete.
LEMMA BumpedType ==
  ASSUME TypeOK, NEW u \in Users
  PROVE  /\ Mine(u)!BumpInsert \in Headers
         /\ Mine(u)!BumpDelete \in Headers
         /\ \A id \in Ids : Mine(u)!Deleted(id) \in [Slots -> Metadata]
<1>1. /\ header[u].version \in 0 .. UINT32_MAX
      /\ header[u].nb_files \in 0 .. UINT32_MAX
      /\ metadata[u] \in [Slots -> Metadata]
  BY DEF TypeOK, Headers
<1>2. \A j \in Slots : [metadata[u][j] EXCEPT !.is_valid = FALSE] \in Metadata
  BY <1>1 DEF Metadata
<1>3. \A k : [metadata[u] EXCEPT ![k].is_valid = FALSE] \in [Slots -> Metadata]
  BY <1>1, <1>2
<1>4. /\ [version |-> Inc(header[u].version), nb_files |-> Inc(header[u].nb_files)] \in Headers
      /\ [version |-> Inc(header[u].version), nb_files |-> Dec(header[u].nb_files)] \in Headers
  BY <1>1, CounterType DEF Headers
<1>5. /\ Mine(u)!BumpInsert \in Headers
      /\ Mine(u)!BumpDelete \in Headers
  BY <1>4, MineDeletes
<1>6. \A id \in Ids : Mine(u)!Deleted(id) \in [Slots -> Metadata]
  <2> SUFFICES ASSUME NEW id \in Ids
               PROVE  Mine(u)!Deleted(id) \in [Slots -> Metadata]
    OBVIOUS
  <2> DEFINE k == First(Named(metadata[u], id))
  <2>1. Mine(u)!Deleted(id) = [metadata[u] EXCEPT ![k].is_valid = FALSE]
    BY MineDeletes
  <2> HIDE DEF k
  <2> QED
    BY <1>3, <2>1
<1> QED
  BY <1>5, <1>6

\* The image that lazily_resize makes, and its entry.
LEMMA ResizeType ==
  ASSUME TypeOK, NEW u \in Users, NEW i \in Slots, NEW res \in Res,
         Content(metadata[u][i], Stored(u), ORIG_RES) # NoImage
  PROVE  /\ Mine(u)!Resized(i, res) \in Blobs
         /\ Mine(u)!ResizedEntry(i, res) \in Metadata
<1> DEFINE m == metadata[u][i]
           b == Blob(Content(m, Stored(u), ORIG_RES).img, res)
<1>1. /\ m \in Metadata
      /\ Stored(u) \in Seq(Blobs)
      /\ End(u) \in Nat
  BY FlushType DEF TypeOK
<1>2. Content(m, Stored(u), ORIG_RES) \in Blobs
  BY <1>1, ContentType DEF Content
<1>3. b \in Blobs
  BY <1>2 DEF Blob, Blobs
<1>4. BlobSize(b) \in Nat
  BY <1>3, SizeAssumption DEF BlobSize, Blobs
<1>5. /\ Mine(u)!Resized(i, res) = b
      /\ Mine(u)!ResizedEntry(i, res) =
           [m EXCEPT !.size[res] = BlobSize(b), !.offset[res] = End(u)]
  BY MineReads
<1> HIDE DEF m, b
<1>6. [m EXCEPT !.size[res] = BlobSize(b), !.offset[res] = End(u)] \in Metadata
  BY <1>1, <1>4 DEF Metadata
<1> QED
  BY <1>3, <1>5, <1>6

\* A call that returns without a write keeps the types if its array does.
LEMMA AtOnceType ==
  ASSUME Typed, NEW u \in Users, NEW c, NEW err, ReturnsAtOnce(u, c, err),
         metadata' \in [Users -> [Slots -> Metadata]]
  PROVE  Typed'
<1>1. /\ pc' \in [Users -> Phases]
      /\ \A v \in Users : pc'[v] \in {"image", "entry"} => pc'[v] = pc[v]
  BY DEF ReturnsAtOnce, Goes, Returned, Phases, Typed, TypeOK
<1> QED
  BY <1>1 DEF ReturnsAtOnce, disk, Typed, TypeOK, CallsTyped

LEMMA WriteType ==
  ASSUME TypeOK, NEW u \in Users, NEW w \in Writes, Write(u, w)
  PROVE  /\ pending' \in [Users -> Writes]
         /\ disk_header' \in Headers
         /\ disk_metadata' \in [Slots -> Metadata]
         /\ data' \in Seq(Blobs)
<1>1. pending' \in [Users -> Writes]
  BY DEF Write, TypeOK
<1> QED
  BY <1>1, FlushType DEF Write, Flush, Stored

\* One entry of a user's array is replaced.
LEMMA SetsSlotType ==
  ASSUME TypeOK, NEW u \in Users, NEW i \in Slots, NEW m \in Metadata, SetsSlot(u, i, m)
  PROVE  metadata' \in [Users -> [Slots -> Metadata]]
<1>1. metadata \in [Users -> [Slots -> Metadata]]
  BY DEF TypeOK
<1> QED
  BY <1>1 DEF SetsSlot

LEMMA InsertStepType ==
  ASSUME Typed, NEW u \in Users, NEW id \in Ids, NEW img \in Images,
         InsertStep(u, id, img)
  PROVE  Typed'
<1>t. TypeOK
  BY DEF Typed
<1>1. CASE InsertFull(u, id, img) \/ InsertNowhere(u, id, img)
  <2>1. metadata' \in [Users -> [Slots -> Metadata]]
    BY <1>1, <1>t DEF InsertFull, InsertNowhere, TypeOK
  <2> QED
    BY <1>1, <2>1, AtOnceType DEF InsertFull, InsertNowhere
<1>2. ASSUME NEW i \in Slots, InsertUndecodable(u, i, id, img)
      PROVE  Typed'
  <2>1. Filled(metadata[u][i], id, img) \in Metadata
    BY <1>2, <1>t, MineSlot, OfferType DEF InsertUndecodable
  <2>2. metadata' \in [Users -> [Slots -> Metadata]]
    BY <1>2, <1>t, <2>1, SetsSlotType DEF InsertUndecodable
  <2> QED
    BY <1>2, <2>2, AtOnceType DEF InsertUndecodable
<1>3. ASSUME NEW i \in Slots, InsertRefused(u, i, id, img)
      PROVE  Typed'
  <2>1. Mine(u)!Candidate(i, id, img) \in Metadata
    <3>1. i \in Slots \ Valid(metadata[u])
      BY <1>3, MineSlot DEF InsertRefused
    <3>2. Offered(u, i, id, img) \in Metadata
      BY <1>t, <3>1, OfferType
    <3> QED
      BY <3>2, MineInserts
  <2>2. [Mine(u)!Candidate(i, id, img) EXCEPT !.is_valid = FALSE] \in Metadata
    <3> DEFINE c == Mine(u)!Candidate(i, id, img)
    <3>1. c \in Metadata
      BY <2>1
    <3> HIDE DEF c
    <3>2. [c EXCEPT !.is_valid = FALSE] \in Metadata
      BY <3>1 DEF Metadata
    <3> QED
      BY <3>2 DEF c
  <2>3. metadata' \in [Users -> [Slots -> Metadata]]
    BY <1>3, <1>t, <2>2, SetsSlotType DEF InsertRefused
  <2> QED
    BY <1>3, <2>3, AtOnceType DEF InsertRefused
<1>4. ASSUME NEW i \in Slots, InsertImage(u, i, id, img) \/ InsertShared(u, i, id, img)
      PROVE  Typed'
  <2>1. InsertAccepted(u, i, id, img)
    BY <1>4 DEF InsertImage, InsertShared
  <2>2. Mine(u)!Entry(i, id, img) \in Metadata
    BY <1>t, <2>1, MineSlot, MineInserts, OfferType DEF InsertAccepted
  <2>3. metadata' \in [Users -> [Slots -> Metadata]]
    BY <1>t, <2>1, <2>2, SetsSlotType DEF InsertAccepted
  <2>4. Blob(img, ORIG_RES) \in Blobs /\ End(u) \in Nat
    BY <1>t, BlobIsImage, FlushType DEF Res
  <2>5. PICK w \in Writes : Write(u, w)
    <3>1. /\ ToImages(End(u), Blob(img, ORIG_RES)) \in Writes
          /\ ToEntry(i, Mine(u)!Entry(i, id, img)) \in Writes
      BY <2>2, <2>4, WritesType
    <3> QED
      BY <1>4, <3>1 DEF InsertImage, InsertShared, Appends
  <2>6. clashed' \in BOOLEAN
    BY <1>4, <1>t DEF InsertImage, InsertShared, Appends, TypeOK
  <2>7. PICK phase \in {"image", "entry"} : Starts(u, phase, Insert(id, img), i)
    BY <1>4 DEF InsertImage, InsertShared
  <2>8. pc' \in [Users -> Phases] /\ slot' \in [Users -> Slots]
    <3>1. phase \in Phases
      BY DEF Phases
    <3> QED
      BY <1>t, <2>7, <3>1 DEF Starts, Goes, TypeOK
  <2>9. CallsTyped'
    <3>1. /\ pc' = [pc EXCEPT ![u] = phase]
          /\ call' = [call EXCEPT ![u] = Insert(id, img)]
          /\ Insert(id, img).id = id /\ Insert(id, img).arg = img
      BY <2>7 DEF Starts, Goes, Insert, Call
    <3> QED
      BY <1>t, <3>1 DEF Typed, TypeOK, CallsTyped
  <2> QED
    BY <1>t, <2>1, <2>3, <2>5, <2>6, <2>8, <2>9, WriteType
    DEF InsertAccepted, Typed, TypeOK
<1> QED
  BY <1>1, <1>2, <1>3, <1>4 DEF InsertStep

LEMMA DeleteStepType ==
  ASSUME Typed, NEW u \in Users, NEW id \in Ids, DeleteStep(u, id)
  PROVE  Typed'
<1>t. TypeOK
  BY DEF Typed
<1>1. CASE DeleteMissing(u, id)
  <2>1. metadata' \in [Users -> [Slots -> Metadata]]
    BY <1>1, <1>t DEF DeleteMissing, TypeOK
  <2> QED
    BY <1>1, <2>1, AtOnceType DEF DeleteMissing
<1>2. ASSUME NEW k \in 0 .. MaxFiles, DeleteArray(u, id, k)
      PROVE  Typed'
  <2> DEFINE after == Mine(u)!Deleted(id)
  <2>1. after \in [Slots -> Metadata]
    BY <1>t, BumpedType
  <2> HIDE DEF after
  <2>2. /\ Named(metadata[u], id) # {}
        /\ Starts(u, "array", Delete(id), First(Named(metadata[u], id)))
        /\ metadata' = [metadata EXCEPT ![u] = after]
        /\ disk_header' = HeaderWith(pending[u])
        /\ disk_metadata' = [i \in Slots |-> IF i < k THEN after[i]
                                                      ELSE IndexWith(pending[u])[i]]
        /\ data' = Stored(u)
        /\ pending' = [pending EXCEPT ![u] = ToArray(k, after)]
        /\ kept' = {p \in kept : p[1] # id}
        /\ UNCHANGED <<header, overlapped, clashed, cuts>>
    BY <1>2 DEF DeleteArray, Stored, after
  <2>3. First(Named(metadata[u], id)) \in Slots
    <3>1. Named(metadata[u], id) \in SUBSET Slots
      BY DEF Named, Valid
    <3> QED
      BY <2>2, <3>1, FirstIsLeast
  <2>4. ToArray(k, after) \in Writes
    BY <2>1, WritesType, MaxFilesAssumption
  <2>5. pc' \in [Users -> Phases] /\ slot' \in [Users -> Slots]
    BY <1>t, <2>2, <2>3 DEF Starts, Goes, TypeOK, Phases
  <2>6. /\ metadata' \in [Users -> [Slots -> Metadata]]
        /\ pending' \in [Users -> Writes]
    BY <1>t, <2>1, <2>2, <2>4 DEF TypeOK
  <2>7. disk_metadata' \in [Slots -> Metadata]
    BY <1>t, <2>1, <2>2, FlushType
  <2>8. CallsTyped'
    BY <1>t, <2>2 DEF Starts, Goes, Typed, TypeOK, CallsTyped
  <2>9. /\ disk_header' \in Headers
        /\ data' \in Seq(Blobs)
        /\ kept' \subseteq Ids \X Images
    BY <1>t, <2>2, FlushType DEF TypeOK
  <2> QED
    BY <1>t, <2>2, <2>5, <2>6, <2>7, <2>8, <2>9 DEF Typed, TypeOK
<1> QED
  BY <1>1, <1>2 DEF DeleteStep

LEMMA ReadStepType ==
  ASSUME Typed, NEW u \in Users, NEW id \in Ids, NEW res \in Res, ReadStep(u, id, res)
  PROVE  Typed'
<1>t. TypeOK
  BY DEF Typed
<1>1. ASSUME \/ ReadMissing(u, id, res)
             \/ \E i \in Slots : ReadOutOfBounds(u, i, id, res)
      PROVE  Typed'
  <2>1. metadata' \in [Users -> [Slots -> Metadata]]
    BY <1>1, <1>t DEF ReadMissing, ReadOutOfBounds, TypeOK
  <2> QED
    BY <1>1, <2>1, AtOnceType DEF ReadMissing, ReadOutOfBounds
<1>2. ASSUME NEW c, NEW err, NEW out, ReadsAndReturns(u, c, err, out)
      PROVE  Typed'
  <2>1. Write(u, NoWrite) /\ NoWrite \in Writes
    BY <1>2, WritesType DEF ReadsAndReturns
  <2>2. /\ pc' \in [Users -> Phases]
        /\ \A v \in Users : pc'[v] \in {"image", "entry"} => pc'[v] = pc[v]
    BY <1>2, <1>t DEF ReadsAndReturns, Goes, Returned, Phases, TypeOK
  <2> QED
    BY <1>2, <1>t, <2>1, <2>2, WriteType
    DEF ReadsAndReturns, copies, Typed, TypeOK, CallsTyped
<1>3. ASSUME NEW i \in Slots, ResizeImage(u, i, id, res)
      PROVE  Typed'
  <2>1. Content(metadata[u][i], Stored(u), ORIG_RES) # NoImage
    BY <1>3, MineReads DEF ResizeImage
  <2>2. Mine(u)!Resized(i, res) \in Blobs /\ Mine(u)!ResizedEntry(i, res) \in Metadata
    BY <1>t, <2>1, ResizeType
  <2>3. metadata' \in [Users -> [Slots -> Metadata]]
    BY <1>3, <1>t, <2>2, SetsSlotType DEF ResizeImage
  <2>4. PICK w \in Writes : Write(u, w)
    BY <1>3, <1>t, <2>2, FlushType, WritesType DEF ResizeImage, Appends
  <2>5. Starts(u, "derived", Read(id, res), i)
    BY <1>3 DEF ResizeImage
  <2>6. pc' \in [Users -> Phases] /\ slot' \in [Users -> Slots]
    BY <1>t, <2>5 DEF Starts, Goes, TypeOK, Phases
  <2>7. CallsTyped'
    BY <1>t, <2>5 DEF Starts, Goes, Typed, TypeOK, CallsTyped
  <2>8. clashed' \in BOOLEAN
    BY <1>3, <1>t DEF ResizeImage, Appends, TypeOK
  <2>9. UNCHANGED <<header, kept, overlapped>>
    BY <1>3 DEF ResizeImage
  <2> QED
    BY <1>t, <2>3, <2>4, <2>6, <2>7, <2>8, <2>9, WriteType DEF Typed, TypeOK
<1>4. ASSUME NEW i \in Slots, ReadStored(u, i, id, res) \/ ReadUnresized(u, i, id, res)
      PROVE  Typed'
  BY <1>4, <1>2 DEF ReadStored, ReadUnresized
<1> QED
  BY <1>1, <1>3, <1>4 DEF ReadStep

\* The initial state is well typed.
LEMMA InitTyped == Init => Typed
<1> SUFFICES ASSUME Init
             PROVE  Typed
  OBVIOUS
<1>1. 0 \in Slots
  BY MaxFilesAssumption DEF Slots
<1>2. NoWrite \in Writes /\ <<>> \in Seq(Blobs)
  BY WritesType
<1>3. TypeOK
  BY <1>1, <1>2, BlankType DEF Init, TypeOK, Phases
<1>4. CallsTyped
  BY DEF Init, CallsTyped
<1> QED
  BY <1>3, <1>4 DEF Typed

\* A process that is gone leaves no types broken, whatever reached the file.
LEMMA GoneType ==
  ASSUME Typed, NEW u \in Users, Gone(u), Flush(u) \/ UNCHANGED disk
  PROVE  Typed'
<1>t. TypeOK
  BY DEF Typed
<1>1. 0 \in Slots /\ "off" \in Phases /\ NoWrite \in Writes
  BY MaxFilesAssumption, WritesType DEF Slots, Phases
<1>2. /\ pc' \in [Users -> Phases]
      /\ header' \in [Users -> Headers]
      /\ metadata' \in [Users -> [Slots -> Metadata]]
      /\ slot' \in [Users -> Slots]
      /\ pending' \in [Users -> Writes]
  BY <1>t, <1>1, BlankType DEF Gone, Goes, TypeOK
<1>3. /\ disk_header' \in Headers
      /\ disk_metadata' \in [Slots -> Metadata]
      /\ data' \in Seq(Blobs)
  BY <1>t, FlushType DEF Flush, Stored, disk, TypeOK
<1>4. CallsTyped'
  BY <1>t DEF Gone, Goes, Typed, TypeOK, CallsTyped
<1> QED
  BY <1>t, <1>2, <1>3, <1>4 DEF Gone, Typed, TypeOK

\* A later write of a call, and its return.
LEMMA LaterType ==
  ASSUME Typed, NEW u \in Users, NEW w \in Writes, Write(u, w),
         NEW from, NEW to \in Phases,
         \/ Continues(u, from, to) /\ (to \in {"image", "entry"} => from = "image")
         \/ Returns(u, from),
         header' \in [Users -> Headers],
         kept' \subseteq Ids \X Images,
         UNCHANGED <<metadata, overlapped, clashed>>
  PROVE  Typed'
<1>t. TypeOK
  BY DEF Typed
<1>1. 0 \in Slots /\ "done" \in Phases /\ "idle" \in Phases
  BY MaxFilesAssumption DEF Slots, Phases
<1>2. CASE Continues(u, from, to) /\ (to \in {"image", "entry"} => from = "image")
  <2>1. pc' \in [Users -> Phases] /\ slot' \in [Users -> Slots]
    BY <1>t, <1>2 DEF Continues, Goes, TypeOK
  <2>2. CallsTyped'
    BY <1>t, <1>2 DEF Continues, Goes, Typed, TypeOK, CallsTyped
  <2> QED
    BY <1>t, <2>1, <2>2, WriteType DEF Typed, TypeOK
<1>3. CASE Returns(u, from)
  <2>1. pc' \in [Users -> Phases] /\ slot' \in [Users -> Slots]
    BY <1>t, <1>1, <1>3 DEF Returns, Returned, Goes, TypeOK
  <2>2. CallsTyped'
    BY <1>t, <1>3 DEF Returns, Returned, Goes, Typed, TypeOK, CallsTyped
  <2> QED
    BY <1>t, <2>1, <2>2, WriteType DEF Typed, TypeOK
<1> QED
  BY <1>2, <1>3

\* Every step of every user keeps the types.
LEMMA NextTyped == Typed /\ [Next]_vars => Typed'
<1> SUFFICES ASSUME Typed, [Next]_vars
             PROVE  Typed'
  OBVIOUS
<1>t. TypeOK
  BY DEF Typed
<1>p. /\ "entry" \in Phases /\ "update" \in Phases /\ "idle" \in Phases
      /\ NoWrite \in Writes
  BY WritesType DEF Phases
<1>1. ASSUME NEW u \in Users, Open(u)
      PROVE  Typed'
  <2>1. pc' \in [Users -> Phases]
    BY <1>t, <1>p, <1>1 DEF Open, Goes, TypeOK
  <2>2. CallsTyped'
    BY <1>t, <1>1 DEF Open, Goes, Typed, TypeOK, CallsTyped
  <2>3. overlapped' \in BOOLEAN
    BY <1>1, <1>t DEF Open, TypeOK
  <2>4. /\ header' \in [Users -> Headers]
        /\ metadata' \in [Users -> [Slots -> Metadata]]
    BY <1>1, <1>t DEF Open, TypeOK
  <2> QED
    BY <1>t, <1>1, <2>1, <2>2, <2>3, <2>4 DEF Open, disk, Typed, TypeOK
<1>2. ASSUME NEW u \in Users, NEW id \in Ids, NEW img \in Images, InsertStep(u, id, img)
      PROVE  Typed'
  BY <1>2, InsertStepType
<1>3. ASSUME NEW u \in Users, InsertEntry(u) \/ ResizeEntry(u)
      PROVE  Typed'
  <2>1. ToEntry(slot[u], metadata[u][slot[u]]) \in Writes
    BY <1>t, WritesType DEF TypeOK
  <2>2. /\ header' \in [Users -> Headers]
        /\ kept' \subseteq Ids \X Images
        /\ UNCHANGED <<metadata, overlapped, clashed>>
    BY <1>t, <1>3 DEF InsertEntry, ResizeEntry, copies, TypeOK
  <2> QED
    BY <1>3, <1>p, <2>1, <2>2, LaterType DEF InsertEntry, ResizeEntry
<1>4. ASSUME NEW u \in Users, InsertHeader(u)
      PROVE  Typed'
  <2>1. Mine(u)!BumpInsert \in Headers /\ ToHeader(Mine(u)!BumpInsert) \in Writes
    BY <1>t, BumpedType, WritesType
  <2>2. <<call[u].id, call[u].arg>> \in Ids \X Images
    BY <1>4 DEF InsertHeader, Returns, Typed, CallsTyped
  <2>3. /\ header' \in [Users -> Headers]
        /\ kept' \subseteq Ids \X Images
        /\ UNCHANGED <<metadata, overlapped, clashed>>
    BY <1>t, <1>4, <2>1, <2>2 DEF InsertHeader, TypeOK
  <2> QED
    BY <1>4, <1>p, <2>1, <2>3, LaterType DEF InsertHeader
<1>5. ASSUME NEW u \in Users, NEW id \in Ids, DeleteStep(u, id)
      PROVE  Typed'
  BY <1>5, DeleteStepType
<1>6. ASSUME NEW u \in Users, DeleteHeader(u)
      PROVE  Typed'
  <2>1. Mine(u)!BumpDelete \in Headers /\ ToHeader(Mine(u)!BumpDelete) \in Writes
    BY <1>t, BumpedType, WritesType
  <2>2. /\ header' \in [Users -> Headers]
        /\ kept' \subseteq Ids \X Images
        /\ UNCHANGED <<metadata, overlapped, clashed>>
    BY <1>t, <1>6, <2>1 DEF DeleteHeader, TypeOK
  <2> QED
    BY <1>6, <1>p, <2>1, <2>2, LaterType DEF DeleteHeader
<1>7. ASSUME NEW u \in Users, NEW id \in Ids, NEW res \in Res, ReadStep(u, id, res)
      PROVE  Typed'
  BY <1>7, ReadStepType
<1>8. ASSUME NEW u \in Users, ReadDerived(u)
      PROVE  Typed'
  <2>1. /\ header' \in [Users -> Headers]
        /\ kept' \subseteq Ids \X Images
        /\ UNCHANGED <<metadata, overlapped, clashed>>
    BY <1>t, <1>8 DEF ReadDerived, copies, TypeOK
  <2> QED
    BY <1>8, <1>p, <2>1, LaterType DEF ReadDerived
<1>9. ASSUME NEW u \in Users, Close(u) \/ Kill(u)
      PROVE  Typed'
  BY <1>9, GoneType DEF Close, Kill
<1>10. CASE Interrupt
  <2>1. "server" \in Users
    BY DEF Users
  <2> QED
    BY <1>10, <2>1, GoneType DEF Interrupt
<1>11. CASE Create
  <2>1. <<>> \in Seq(Blobs)
    OBVIOUS
  <2>2. CallsTyped'
    BY <1>11 DEF Create, Typed, CallsTyped
  <2> QED
    BY <1>t, <1>11, <2>1, <2>2, BlankType DEF Create, copies, Typed, TypeOK
<1>12. CASE UNCHANGED vars
  BY <1>t, <1>12 DEF vars, copies, disk, calling, history, Typed, TypeOK, CallsTyped
<1> QED
  BY <1>1, <1>2, <1>3, <1>4, <1>5, <1>6, <1>7, <1>8, <1>9, <1>10, <1>11, <1>12
  DEF Next, UserStep

\* The state of every user stays well typed, whoever is killed in whatever call:
\* in particular what is written to the file is an index.
THEOREM SessionsTypeCorrect == Spec => []TypeOK
<1>1. Init => Typed
  BY InitTyped
<1>2. Typed /\ [Next]_vars => Typed'
  BY NextTyped
<1>3. Typed => TypeOK
  BY DEF Typed
<1> QED
  BY <1>1, <1>2, <1>3, PTL DEF Spec

-----------------------------------------------------------------------------
(* Entries lead to their images. *)

IntactIn(f, d) == \A i \in Valid(f) : EntryIntact(f[i], d)

\* A write in a buffer leads to its image as soon as it is in the file, and an
\* image in a buffer goes to the end of the file.
Lands(w) ==
  /\ w.to = "images" => w.at = Len(data) + 1
  /\ w.to = "entry" /\ w.entry.is_valid => EntryIntact(w.entry, data)
  /\ w.to = "array" => IntactIn(w.index, data)

\* Nothing is left of a process that is gone.
Forgotten ==
  \A u \in Users :
    Off(u) => /\ header[u] = BlankHeader
              /\ metadata[u] = BlankIndex
              /\ pending[u] = NoWrite

\* One image at a time is on its way to the end of the file.
Apart ==
  \A u, v \in Users :
    u # v => pending[u].to # "images" \/ pending[v].to # "images"

Placing ==
  /\ Apart
  /\ IntactIn(disk_metadata, data)
  /\ \A u \in Users : Lands(pending[u]) /\ IntactIn(metadata[u], Stored(u))

\* The inductive invariant.
Sessions == Typed /\ Forgotten /\ (~clashed => Placing)

\* A user's buffer only ever adds to the images in the file.
LEMMA StoredGrows ==
  ASSUME TypeOK, NEW u \in Users, Lands(pending[u])
  PROVE  IF pending[u].to = "images"
         THEN pending[u].blob \in Blobs /\ Stored(u) = Append(data, pending[u].blob)
         ELSE Stored(u) = data
<1>1. CASE pending[u].to = "images"
  <2>1. pending[u].at = Len(data) + 1
    BY <1>1 DEF Lands
  <2>2. pending[u] \in Writes /\ data \in Seq(Blobs)
    BY DEF TypeOK
  <2>3. pending[u].blob \in Blobs
    BY <1>1, <2>2 DEF Writes, NoWrite
  <2>4. pending[u].at > Len(data)
    BY <2>1, <2>2
  <2> QED
    BY <1>1, <2>3, <2>4 DEF Stored, DataWith
<1>2. CASE pending[u].to # "images"
  BY <1>2 DEF Stored, DataWith
<1> QED
  BY <1>1, <1>2

\* What leads to its images in the file does so behind any buffer.
LEMMA StoredKeeps ==
  ASSUME TypeOK, NEW u \in Users, Lands(pending[u])
  PROVE  /\ \A m \in Metadata : EntryIntact(m, data) => EntryIntact(m, Stored(u))
         /\ \A f \in [Slots -> Metadata] : IntactIn(f, data) => IntactIn(f, Stored(u))
<1>1. data \in Seq(Blobs)
  BY DEF TypeOK
<1>2. \A m \in Metadata : EntryIntact(m, data) => EntryIntact(m, Stored(u))
  BY <1>1, StoredGrows, AppendKeepsIntact
<1> QED
  BY <1>2 DEF IntactIn, Valid

\* What a flush leaves in the file leads to its images.
LEMMA FlushedIntact ==
  ASSUME TypeOK, NEW u \in Users, Lands(pending[u]), IntactIn(disk_metadata, data)
  PROVE  IntactIn(IndexWith(pending[u]), Stored(u))
<1>1. disk_metadata \in [Slots -> Metadata] /\ pending[u] \in Writes
  BY DEF TypeOK
<1>2. IntactIn(IndexWith(pending[u]), data)
  <2>1. CASE pending[u].to = "entry"
    BY <1>1, <2>1 DEF IndexWith, Lands, IntactIn, Valid
  <2>2. CASE pending[u].to = "array"
    BY <1>1, <2>2 DEF IndexWith, Lands, IntactIn, Valid
  <2>3. CASE pending[u].to \notin {"entry", "array"}
    BY <2>3 DEF IndexWith
  <2> QED
    BY <2>1, <2>2, <2>3
<1> QED
  BY <1>2, FlushType, StoredKeeps

\* A write of one user leaves the others' entries and buffers in order.
LEMMA OthersPlaced ==
  ASSUME TypeOK, Placing, NEW u \in Users, NEW v \in Users \ {u},
         data' = Stored(u), pending'[v] = pending[v], metadata'[v] = metadata[v]
  PROVE  Lands(pending[v])' /\ IntactIn(metadata[v], Stored(v))'
<1>1. /\ Lands(pending[u])
      /\ Lands(pending[v])
      /\ IntactIn(metadata[v], Stored(v))
      /\ pending[u].to # "images" \/ pending[v].to # "images"
  BY DEF Placing, Apart
<1>2. /\ pending[v] \in Writes
      /\ metadata[v] \in [Slots -> Metadata]
  BY DEF TypeOK
<1>3. Lands(pending[v])'
  <2>1. CASE pending[v].to = "images"
    <3>1. data' = data
      BY <1>1, <2>1, StoredGrows
    <3> QED
      BY <1>1, <3>1 DEF Lands
  <2>2. CASE pending[v].to = "entry"
    <3>1. pending[v].entry \in Metadata
      BY <1>2, <2>2 DEF Writes, NoWrite
    <3> QED
      BY <1>1, <2>2, <3>1, StoredKeeps DEF Lands
  <2>3. CASE pending[v].to = "array"
    <3>1. pending[v].index \in [Slots -> Metadata]
      BY <1>2, <2>3 DEF Writes, NoWrite
    <3> QED
      BY <1>1, <2>3, <3>1, StoredKeeps DEF Lands
  <2>4. CASE pending[v].to \notin {"images", "entry", "array"}
    BY <2>4 DEF Lands
  <2> QED
    BY <2>1, <2>2, <2>3, <2>4
<1>4. IntactIn(metadata[v], Stored(v)')
  <2>1. CASE pending[v].to = "images"
    <3>1. data' = data
      BY <1>1, <2>1, StoredGrows
    <3>2. Stored(v)' = Stored(v)
      BY <3>1 DEF Stored, DataWith
    <3> QED
      BY <1>1, <3>2
  <2>2. CASE pending[v].to # "images"
    <3>1. Stored(v)' = data' /\ Stored(v) = data
      BY <2>2 DEF Stored, DataWith
    <3> QED
      BY <1>1, <1>2, <3>1, StoredKeeps
  <2> QED
    BY <2>1, <2>2
<1> QED
  BY <1>3, <1>4 DEF IntactIn

\* A write keeps the order of the file if what is written is in order.
LEMMA WritePlaced ==
  ASSUME TypeOK, Placing, NEW u \in Users, NEW w \in Writes,
         data' = Stored(u),
         IntactIn(disk_metadata', Stored(u)),
         pending' = [pending EXCEPT ![u] = w],
         \A v \in Users \ {u} : metadata'[v] = metadata[v],
         w.to = "images" =>
           /\ w.at = Len(Stored(u)) + 1
           /\ \A v \in Users \ {u} : pending[v].to # "images"
           /\ IntactIn(metadata'[u], Append(Stored(u), w.blob)),
         w.to # "images" => IntactIn(metadata'[u], Stored(u)),
         w.to = "entry" /\ w.entry.is_valid => EntryIntact(w.entry, Stored(u)),
         w.to = "array" => IntactIn(w.index, Stored(u))
  PROVE  Placing'
<1>1. pending'[u] = w /\ \A v \in Users \ {u} : pending'[v] = pending[v]
  BY DEF TypeOK
<1>2. Apart'
  BY <1>1 DEF Placing, Apart
<1>3. IntactIn(disk_metadata, data)'
  BY DEF IntactIn
<1>4. Lands(pending[u])'
  BY <1>1 DEF Lands
<1>5. IntactIn(metadata[u], Stored(u))'
  <2>1. CASE w.to = "images"
    <3>1. w.at > Len(data')
      BY <2>1, FlushType
    <3>2. Stored(u)' = Append(data', w.blob)
      BY <1>1, <2>1, <3>1 DEF Stored, DataWith
    <3> QED
      BY <2>1, <3>2 DEF IntactIn
  <2>2. CASE w.to # "images"
    <3>1. Stored(u)' = data'
      BY <1>1, <2>2 DEF Stored, DataWith
    <3> QED
      BY <2>2, <3>1 DEF IntactIn
  <2> QED
    BY <2>1, <2>2
<1>6. ASSUME NEW v \in Users \ {u}
      PROVE  Lands(pending[v])' /\ IntactIn(metadata[v], Stored(v))'
  BY <1>1, OthersPlaced
<1> QED
  BY <1>2, <1>3, <1>4, <1>5, <1>6 DEF Placing

\* The entry of an insertion that is accepted, whatever the file holds.
LEMMA AcceptedEntry ==
  ASSUME TypeOK, NEW u \in Users, NEW i \in Slots, NEW id \in Ids, NEW img \in Images,
         Mine(u)!InsertAccepted(i, id, img)
  PROVE  LET e == Mine(u)!Entry(i, id, img)
         IN  /\ e \in Metadata
             /\ e.img_id = id
             /\ e.SHA = img
             /\ e.is_valid
<1> DEFINE c == Offered(u, i, id, img)
           e == Mine(u)!Entry(i, id, img)
<1>1. metadata[u] \in [Slots -> Metadata] /\ End(u) \in Nat
  BY FlushType DEF TypeOK
<1>2. /\ i \in Slots \ Valid(metadata[u])
      /\ OfferError(u, i, id, img) = "ERR_NONE"
  BY MineInserts, MineSlot
<1>3. /\ c \in Metadata
      /\ c.img_id = id
      /\ c.SHA = img
      /\ c.is_valid
  <2>1. /\ c \in Metadata
        /\ c.img_id = id
        /\ c.SHA = img
        /\ c.is_valid
        /\ \/ /\ \A j \in Valid(metadata[u]) : metadata[u][j].SHA # img
              /\ c.offset[ORIG_RES] = 0
              /\ c.size[ORIG_RES] = SizeOf[<<img, ORIG_RES>>]
           \/ \E j \in Valid(metadata[u]) : /\ metadata[u][j].SHA = img
                                             /\ c.offset = metadata[u][j].offset
                                             /\ c.size = metadata[u][j].size
    BY <1>1, <1>2, DedupedEntry DEF Offered, OfferError
  <2> QED
    BY <2>1
<1>e. e = IF c.offset[ORIG_RES] = 0
          THEN [c EXCEPT
                  !.offset = [r \in Res |-> IF r = ORIG_RES THEN End(u) ELSE 0],
                  !.size   = [r \in Res |-> IF r = ORIG_RES THEN @[r] ELSE 0]]
          ELSE c
  BY MineEntry, Zenon
<1> HIDE DEF c, e
<1>4. /\ e \in Metadata
      /\ e.img_id = id
      /\ e.SHA = img
      /\ e.is_valid
  <2>1. CASE c.offset[ORIG_RES] = 0
    BY <1>1, <1>3, <1>e, <2>1 DEF Metadata
  <2>2. CASE c.offset[ORIG_RES] # 0
    BY <1>3, <1>e, <2>2
  <2> QED
    BY <2>1, <2>2
<1> QED
  BY <1>4 DEF e

\* The entry of an insertion that is accepted: new content is to be appended, or
\* its places are those of an entry with the same content.
LEMMA AcceptedIntact ==
  ASSUME TypeOK, NEW u \in Users, IntactIn(metadata[u], Stored(u)),
         NEW i \in Slots, NEW id \in Ids, NEW img \in Images,
         Mine(u)!InsertAccepted(i, id, img)
  PROVE  LET e == Mine(u)!Entry(i, id, img)
         IN  /\ e \in Metadata
             /\ e.img_id = id
             /\ e.SHA = img
             /\ e.is_valid
             /\ IF Mine(u)!IsNew(i, id, img)
                THEN EntryIntact(e, Append(Stored(u), Blob(img, ORIG_RES)))
                ELSE EntryIntact(e, Stored(u))
<1> DEFINE c == Offered(u, i, id, img)
           e == Mine(u)!Entry(i, id, img)
<1>1. /\ metadata[u] \in [Slots -> Metadata]
      /\ Stored(u) \in Seq(Blobs)
      /\ End(u) = Len(Stored(u)) + 1
      /\ End(u) \in Nat
  BY FlushType DEF TypeOK, End, Stored
<1>2. /\ i \in Slots \ Valid(metadata[u])
      /\ img \in Images \ Broken
      /\ OfferError(u, i, id, img) = "ERR_NONE"
  BY MineInserts, MineSlot
<1>3. /\ c \in Metadata
      /\ c.img_id = id
      /\ c.SHA = img
      /\ c.is_valid
      /\ \/ /\ \A j \in Valid(metadata[u]) : metadata[u][j].SHA # img
            /\ c.offset[ORIG_RES] = 0
            /\ c.size[ORIG_RES] = SizeOf[<<img, ORIG_RES>>]
         \/ \E j \in Valid(metadata[u]) : /\ metadata[u][j].SHA = img
                                           /\ c.offset = metadata[u][j].offset
                                           /\ c.size = metadata[u][j].size
  BY <1>1, <1>2, DedupedEntry DEF Offered, OfferError
<1>4. Mine(u)!IsNew(i, id, img) <=> c.offset[ORIG_RES] = 0
  BY MineInserts
<1>e. e = IF c.offset[ORIG_RES] = 0
          THEN [c EXCEPT
                  !.offset = [r \in Res |-> IF r = ORIG_RES THEN End(u) ELSE 0],
                  !.size   = [r \in Res |-> IF r = ORIG_RES THEN @[r] ELSE 0]]
          ELSE c
  BY MineEntry, Zenon
<1> HIDE DEF c, e
<1>5. CASE \E j \in Valid(metadata[u]) : /\ metadata[u][j].SHA = img
                                         /\ c.offset = metadata[u][j].offset
                                         /\ c.size = metadata[u][j].size
  <2>1. PICK j \in Valid(metadata[u]) : /\ metadata[u][j].SHA = img
                                        /\ c.offset = metadata[u][j].offset
                                        /\ c.size = metadata[u][j].size
    BY <1>5
  <2>2. EntryIntact(c, Stored(u))
    BY <1>3, <2>1, SharedIsIntact DEF IntactIn
  <2>3. c.offset[ORIG_RES] # 0
    BY <1>1, <1>3, <2>2, IntactIsPlaced
  <2>4. e = c /\ ~Mine(u)!IsNew(i, id, img)
    BY <1>4, <1>e, <2>3
  <2> QED
    BY <1>3, <2>2, <2>4 DEF e
<1>6. CASE /\ c.offset[ORIG_RES] = 0
           /\ c.size[ORIG_RES] = SizeOf[<<img, ORIG_RES>>]
  <2>1. /\ Mine(u)!IsNew(i, id, img)
        /\ e = [c EXCEPT
                  !.offset = [r \in Res |-> IF r = ORIG_RES THEN End(u) ELSE 0],
                  !.size   = [r \in Res |-> IF r = ORIG_RES THEN @[r] ELSE 0]]
    BY <1>4, <1>e, <1>6
  <2>2. /\ e \in Metadata
        /\ e.img_id = id
        /\ e.SHA = img
        /\ e.is_valid
        /\ e.offset[ORIG_RES] = Len(Stored(u)) + 1
        /\ e.size[ORIG_RES] = SizeOf[<<img, ORIG_RES>>]
        /\ \A res \in DerivedRes : e.offset[res] = 0 /\ e.size[res] = 0
    BY <1>1, <1>3, <1>6, <2>1, ResAssumption DEF Metadata, Res
  <2>3. EntryIntact(e, Append(Stored(u), Blob(img, ORIG_RES)))
    BY <1>1, <1>2, <2>2, PlacedIsIntact
  <2> QED
    BY <2>1, <2>2, <2>3 DEF e
<1> QED
  BY <1>3, <1>5, <1>6

\* The entry that lazily_resize completes leads to the derived image as well.
LEMMA ResizedPlaced ==
  ASSUME TypeOK, NEW u \in Users, IntactIn(metadata[u], Stored(u)),
         NEW i \in Slots, NEW id \in Ids, NEW res \in Res,
         Mine(u)!Resizes(i, id, res)
  PROVE  LET m == metadata[u][i]
             e == Mine(u)!ResizedEntry(i, res)
             b == Mine(u)!Resized(i, res)
         IN  /\ i \in Valid(metadata[u])
             /\ b \in Blobs
             /\ e \in Metadata
             /\ e.is_valid
             /\ e.img_id = m.img_id
             /\ e.SHA = m.SHA
             /\ EntryIntact(e, Append(Stored(u), b))
             /\ Content(e, Append(Stored(u), b), res) = b
<1> DEFINE m == metadata[u][i]
           e == Mine(u)!ResizedEntry(i, res)
           b == Blob(m.SHA, res)
<1>1. /\ m \in Metadata
      /\ Stored(u) \in Seq(Blobs)
      /\ End(u) = Len(Stored(u)) + 1
  BY FlushType DEF TypeOK, End, Stored
<1>2. /\ Named(metadata[u], id) # {} /\ i = First(Named(metadata[u], id))
      /\ res # ORIG_RES
  BY MineReads
<1>3. i \in Valid(metadata[u])
  <2>1. Named(metadata[u], id) \in SUBSET Slots
    BY DEF Named, Valid
  <2> QED
    BY <1>2, <2>1, FirstIsLeast DEF Named
<1>4. EntryIntact(m, Stored(u)) /\ m.is_valid
  BY <1>3 DEF IntactIn, Valid
<1>5. res \in DerivedRes
  BY <1>2 DEF Res
<1>6. Content(m, Stored(u), ORIG_RES) = Blob(m.SHA, ORIG_RES)
  BY <1>4 DEF EntryIntact
<1>7. Blob(m.SHA, ORIG_RES).img = m.SHA
  BY DEF Blob
<1> DEFINE made == Blob(Content(m, Stored(u), ORIG_RES).img, res)
<1>8. made = b
  BY <1>6, <1>7
<1>r. /\ Mine(u)!Resized(i, res) = made
      /\ e = [m EXCEPT !.size[res] = BlobSize(made), !.offset[res] = End(u)]
  BY MineReads, Zenon
<1> HIDE DEF made
<1>9. e = [m EXCEPT !.size[res] = BlobSize(b), !.offset[res] = Len(Stored(u)) + 1]
  BY <1>1, <1>8, <1>r
<1> HIDE DEF m, e
<1>10. /\ b \in Blobs
       /\ e \in Metadata
       /\ e.is_valid = m.is_valid
       /\ e.img_id = m.img_id
       /\ e.SHA = m.SHA
       /\ EntryIntact(e, Append(Stored(u), b))
       /\ Content(e, Append(Stored(u), b), res) = b
  BY <1>1, <1>4, <1>5, <1>9, ResizedIsIntact
<1> QED
  BY <1>3, <1>4, <1>8, <1>r, <1>10 DEF m, e

\* What a user sees and where it appends, in terms of what it holds.
LEMMA AppendsApart ==
  ASSUME TypeOK, Placing, NEW u \in Users, NEW b, Appends(u, b), ~clashed'
  PROVE  \A v \in Users \ {u} : pending[v].to # "images"
<1> SUFFICES ASSUME NEW v \in Users \ {u}, pending[v].to = "images"
             PROVE  FALSE
  OBVIOUS
<1>1. /\ pending[u].to # "images"
      /\ pending[v].at = Len(data) + 1
  BY DEF Placing, Apart, Lands
<1>2. End(u) = Len(data) + 1
  BY <1>1 DEF End, DataWith
<1>3. Clashes(u, End(u))
  BY <1>1, <1>2 DEF Clashes
<1> QED
  BY <1>3 DEF Appends

\* A call that returns without a write: what changes in the array is not valid.
LEMMA AtOncePlaced ==
  ASSUME Typed, Placing, NEW u \in Users, NEW c, NEW err, ReturnsAtOnce(u, c, err),
         \/ UNCHANGED metadata
         \/ \E i \in Slots : \E m : ~m.is_valid /\ SetsSlot(u, i, m)
  PROVE  Placing'
<1>1. UNCHANGED <<pending, disk_header, disk_metadata, data>>
  BY DEF ReturnsAtOnce, disk
<1>2. metadata \in [Users -> [Slots -> Metadata]]
  BY DEF Typed, TypeOK
<1>3. \A v \in Users : \A j \in Valid(metadata'[v]) :
        j \in Valid(metadata[v]) /\ metadata'[v][j] = metadata[v][j]
  <2>1. CASE UNCHANGED metadata
    BY <2>1
  <2>2. ASSUME NEW i \in Slots, NEW m, ~m.is_valid, SetsSlot(u, i, m)
        PROVE  \A v \in Users : \A j \in Valid(metadata'[v]) :
                 j \in Valid(metadata[v]) /\ metadata'[v][j] = metadata[v][j]
    BY <1>2, <2>2 DEF SetsSlot, Valid
  <2> QED
    BY <2>1, <2>2
<1>4. \A v \in Users : Stored(v)' = Stored(v) /\ Lands(pending[v])' = Lands(pending[v])
  BY <1>1 DEF Stored, DataWith, Lands, IntactIn
<1>5. ASSUME NEW v \in Users
      PROVE  IntactIn(metadata[v], Stored(v))'
  <2>1. IntactIn(metadata[v], Stored(v))
    BY DEF Placing
  <2>2. \A j \in Valid(metadata'[v]) : EntryIntact(metadata'[v][j], Stored(v)')
    BY <1>3, <1>4, <2>1 DEF IntactIn
  <2> QED
    BY <2>2 DEF IntactIn
<1>6. Apart' /\ IntactIn(disk_metadata, data)'
  BY <1>1 DEF Placing, Apart, IntactIn
<1>7. \A v \in Users : Lands(pending[v])'
  BY <1>4 DEF Placing
<1> QED
  BY <1>5, <1>6, <1>7 DEF Placing

LEMMA InsertStepPlaced ==
  ASSUME Typed, Placing, NEW u \in Users, NEW id \in Ids, NEW img \in Images,
         InsertStep(u, id, img), ~clashed'
  PROVE  Placing'
<1>t. TypeOK
  BY DEF Typed
<1>f. /\ IntactIn(metadata[u], Stored(u))
      /\ IntactIn(IndexWith(pending[u]), Stored(u))
  BY <1>t, FlushedIntact DEF Placing
<1>1. CASE InsertFull(u, id, img) \/ InsertNowhere(u, id, img)
  BY <1>1, AtOncePlaced DEF InsertFull, InsertNowhere
<1>2. ASSUME NEW i \in Slots, InsertUndecodable(u, i, id, img)
      PROVE  Placing'
  <2>1. i \notin Valid(metadata[u]) /\ metadata[u][i] \in Metadata
    BY <1>2, <1>t, MineSlot DEF InsertUndecodable, TypeOK
  <2>2. ~Filled(metadata[u][i], id, img).is_valid
    BY <2>1 DEF Filled, Metadata, Valid
  <2> QED
    BY <1>2, <2>2, AtOncePlaced DEF InsertUndecodable
<1>3. ASSUME NEW i \in Slots, InsertRefused(u, i, id, img)
      PROVE  Placing'
  <2> DEFINE c == Mine(u)!Candidate(i, id, img)
  <2>1. i \in Slots \ Valid(metadata[u])
    BY <1>3, MineSlot DEF InsertRefused
  <2>2. c \in Metadata
    <3>1. Offered(u, i, id, img) \in Metadata
      BY <1>t, <2>1, OfferType
    <3> QED
      BY <3>1, MineInserts
  <2>3. /\ SetsSlot(u, i, [c EXCEPT !.is_valid = FALSE])
        /\ ReturnsAtOnce(u, Insert(id, img), Mine(u)!CandidateError(i, id, img))
    BY <1>3 DEF InsertRefused
  <2> HIDE DEF c
  <2>4. ~[c EXCEPT !.is_valid = FALSE].is_valid
    BY <2>2 DEF Metadata
  <2> QED
    BY <2>3, <2>4, AtOncePlaced
<1>4. ASSUME NEW i \in Slots, InsertImage(u, i, id, img) \/ InsertShared(u, i, id, img)
      PROVE  Placing'
  <2> DEFINE e == Mine(u)!Entry(i, id, img)
             b == Blob(img, ORIG_RES)
  <2>1. /\ Mine(u)!InsertAccepted(i, id, img)
        /\ metadata' = [metadata EXCEPT ![u][i] = e]
    BY <1>4 DEF InsertImage, InsertShared, InsertAccepted, SetsSlot
  <2>2. /\ e \in Metadata
        /\ IF Mine(u)!IsNew(i, id, img)
           THEN EntryIntact(e, Append(Stored(u), b))
           ELSE EntryIntact(e, Stored(u))
    BY <1>t, <1>f, <2>1, AcceptedIntact
  <2>3. b \in Blobs /\ End(u) \in Nat /\ End(u) = Len(Stored(u)) + 1
    BY <1>t, BlobIsImage, FlushType DEF Res, End, Stored
  <2> HIDE DEF e, b
  <2>4. /\ metadata'[u] = [metadata[u] EXCEPT ![i] = e]
        /\ \A v \in Users \ {u} : metadata'[v] = metadata[v]
    BY <1>t, <2>1 DEF TypeOK
  <2>5. \A d : IntactIn(metadata[u], d) /\ EntryIntact(e, d) => IntactIn(metadata'[u], d)
    BY <1>t, <2>4 DEF IntactIn, Valid, TypeOK
  <2>6. CASE InsertImage(u, i, id, img)
    <3> DEFINE w == ToImages(End(u), b)
    <3>1. Appends(u, b) /\ Write(u, w) /\ Mine(u)!IsNew(i, id, img)
      BY <2>6 DEF InsertImage, Appends, b
    <3>2. w \in Writes
      BY <2>3, WritesType
    <3>3. w.to = "images" /\ w.at = Len(Stored(u)) + 1 /\ w.blob = b
      BY <2>3 DEF ToImages
    <3>4. /\ data' = Stored(u)
          /\ disk_metadata' = IndexWith(pending[u])
          /\ pending' = [pending EXCEPT ![u] = w]
      BY <3>1 DEF Write, Flush, Stored
    <3>5. \A v \in Users \ {u} : pending[v].to # "images"
      BY <1>t, <3>1, AppendsApart
    <3>6. IntactIn(metadata[u], Append(Stored(u), b))
      <4>1. metadata[u] \in [Slots -> Metadata] /\ Stored(u) \in Seq(Blobs)
        BY <1>t, FlushType DEF TypeOK
      <4> QED
        BY <1>f, <2>3, <4>1, AppendKeepsIntact DEF IntactIn, Valid
    <3>7. IntactIn(metadata'[u], Append(Stored(u), w.blob))
      BY <2>2, <2>5, <3>1, <3>3, <3>6
    <3> HIDE DEF w
    <3> QED
      BY <1>t, <1>f, <2>4, <3>2, <3>3, <3>4, <3>5, <3>7, WritePlaced
  <2>7. CASE InsertShared(u, i, id, img)
    <3> DEFINE w == ToEntry(i, e)
    <3>1. Write(u, w) /\ ~Mine(u)!IsNew(i, id, img)
      BY <2>7 DEF InsertShared, e
    <3>2. w \in Writes
      BY <2>2, WritesType
    <3>3. w.to = "entry" /\ w.entry = e
      BY DEF ToEntry
    <3>4. /\ data' = Stored(u)
          /\ disk_metadata' = IndexWith(pending[u])
          /\ pending' = [pending EXCEPT ![u] = w]
      BY <3>1 DEF Write, Flush, Stored
    <3>5. EntryIntact(e, Stored(u))
      BY <2>2, <3>1
    <3>6. IntactIn(metadata'[u], Stored(u))
      BY <1>f, <2>5, <3>5
    <3> HIDE DEF w
    <3> QED
      BY <1>t, <1>f, <2>4, <3>2, <3>3, <3>4, <3>5, <3>6, WritePlaced
  <2> QED
    BY <1>4, <2>6, <2>7
<1> QED
  BY <1>1, <1>2, <1>3, <1>4 DEF InsertStep

LEMMA DeleteStepPlaced ==
  ASSUME Typed, Placing, NEW u \in Users, NEW id \in Ids, DeleteStep(u, id)
  PROVE  Placing'
<1>t. TypeOK
  BY DEF Typed
<1>1. CASE DeleteMissing(u, id)
  BY <1>1, AtOncePlaced DEF DeleteMissing
<1>2. ASSUME NEW k \in 0 .. MaxFiles, DeleteArray(u, id, k)
      PROVE  Placing'
  <2> DEFINE after == Mine(u)!Deleted(id)
             first == First(Named(metadata[u], id))
             w     == ToArray(k, after)
  <2>1. after \in [Slots -> Metadata]
    BY <1>t, BumpedType
  <2>2. after = [metadata[u] EXCEPT ![first].is_valid = FALSE]
    BY MineDeletes
  <2> HIDE DEF after, first
  <2>3. /\ metadata' = [metadata EXCEPT ![u] = after]
        /\ disk_metadata' = [i \in Slots |-> IF i < k THEN after[i]
                                                      ELSE IndexWith(pending[u])[i]]
        /\ data' = Stored(u)
        /\ pending' = [pending EXCEPT ![u] = w]
    BY <1>2 DEF DeleteArray, Stored, after
  <2>4. /\ w \in Writes
        /\ w.to = "array"
        /\ w.index = after
    BY <2>1, WritesType, MaxFilesAssumption DEF ToArray
  <2>5. metadata[u] \in [Slots -> Metadata] /\ IntactIn(metadata[u], Stored(u))
    BY <1>t DEF TypeOK, Placing
  <2>6. IntactIn(after, Stored(u))
    <3>1. \A j \in Valid(after) : j \in Valid(metadata[u]) /\ after[j] = metadata[u][j]
      BY <2>2, <2>5 DEF Valid, Metadata
    <3> QED
      BY <2>5, <3>1 DEF IntactIn
  <2>7. IntactIn(disk_metadata', Stored(u))
    <3>1. IntactIn(IndexWith(pending[u]), Stored(u))
      BY <1>t, FlushedIntact DEF Placing
    <3> QED
      BY <2>3, <2>6, <3>1 DEF IntactIn, Valid
  <2>8. /\ metadata'[u] = after
        /\ \A v \in Users \ {u} : metadata'[v] = metadata[v]
    BY <1>t, <2>3 DEF TypeOK
  <2> HIDE DEF w
  <2> QED
    BY <1>t, <2>3, <2>4, <2>6, <2>7, <2>8, WritePlaced
<1> QED
  BY <1>1, <1>2 DEF DeleteStep

\* A write of what leads to its images already, or of the header, or a read.
LEMMA LaterPlaced ==
  ASSUME Typed, Placing, NEW u \in Users, NEW w \in Writes, Write(u, w),
         w.to \in {"entry", "header", "nothing"},
         w.to = "entry" /\ w.entry.is_valid => EntryIntact(w.entry, Stored(u)),
         UNCHANGED metadata
  PROVE  Placing'
<1>t. TypeOK
  BY DEF Typed
<1>1. IntactIn(metadata[u], Stored(u)) /\ IntactIn(IndexWith(pending[u]), Stored(u))
  BY <1>t, FlushedIntact DEF Placing
<1>2. /\ data' = Stored(u)
      /\ disk_metadata' = IndexWith(pending[u])
      /\ pending' = [pending EXCEPT ![u] = w]
  BY DEF Write, Flush, Stored
<1>3. w.to # "images" /\ w.to # "array"
  OBVIOUS
<1> QED
  BY <1>t, <1>1, <1>2, <1>3, WritePlaced

LEMMA ReadStepPlaced ==
  ASSUME Typed, Placing, NEW u \in Users, NEW id \in Ids, NEW res \in Res,
         ReadStep(u, id, res), ~clashed'
  PROVE  Placing'
<1>t. TypeOK
  BY DEF Typed
<1>f. /\ IntactIn(metadata[u], Stored(u))
      /\ IntactIn(IndexWith(pending[u]), Stored(u))
  BY <1>t, FlushedIntact DEF Placing
<1>1. ASSUME \/ ReadMissing(u, id, res)
             \/ \E i \in Slots : ReadOutOfBounds(u, i, id, res)
      PROVE  Placing'
  BY <1>1, AtOncePlaced DEF ReadMissing, ReadOutOfBounds
<1>2. ASSUME NEW i \in Slots, ReadStored(u, i, id, res) \/ ReadUnresized(u, i, id, res)
      PROVE  Placing'
  <2>1. Write(u, NoWrite) /\ UNCHANGED metadata
    BY <1>2 DEF ReadStored, ReadUnresized, ReadsAndReturns, copies
  <2>2. NoWrite \in Writes /\ NoWrite.to = "nothing"
    BY WritesType DEF NoWrite
  <2> QED
    BY <2>1, <2>2, LaterPlaced
<1>3. ASSUME NEW i \in Slots, ResizeImage(u, i, id, res)
      PROVE  Placing'
  <2> DEFINE e == Mine(u)!ResizedEntry(i, res)
             b == Mine(u)!Resized(i, res)
             w == ToImages(End(u), b)
  <2>1. /\ Mine(u)!Resizes(i, id, res)
        /\ metadata' = [metadata EXCEPT ![u][i] = e]
        /\ Appends(u, b)
        /\ Write(u, w)
    BY <1>3 DEF ResizeImage, SetsSlot, Appends
  <2>2. /\ b \in Blobs
        /\ e \in Metadata
        /\ EntryIntact(e, Append(Stored(u), b))
    BY <1>t, <1>f, <2>1, ResizedPlaced
  <2>3. End(u) \in Nat /\ End(u) = Len(Stored(u)) + 1
    BY <1>t, FlushType DEF End, Stored
  <2> HIDE DEF e, b
  <2>4. /\ metadata'[u] = [metadata[u] EXCEPT ![i] = e]
        /\ \A v \in Users \ {u} : metadata'[v] = metadata[v]
    BY <1>t, <2>1 DEF TypeOK
  <2>5. \A d : IntactIn(metadata[u], d) /\ EntryIntact(e, d) => IntactIn(metadata'[u], d)
    BY <1>t, <2>4 DEF IntactIn, Valid, TypeOK
  <2>6. w \in Writes
    BY <2>2, <2>3, WritesType
  <2>7. w.to = "images" /\ w.at = Len(Stored(u)) + 1 /\ w.blob = b
    BY <2>3 DEF ToImages
  <2>8. /\ data' = Stored(u)
        /\ disk_metadata' = IndexWith(pending[u])
        /\ pending' = [pending EXCEPT ![u] = w]
    BY <2>1 DEF Write, Flush, Stored
  <2>9. \A v \in Users \ {u} : pending[v].to # "images"
    BY <1>t, <2>1, AppendsApart
  <2>10. IntactIn(metadata[u], Append(Stored(u), b))
    <3>1. metadata[u] \in [Slots -> Metadata] /\ Stored(u) \in Seq(Blobs)
      BY <1>t, FlushType DEF TypeOK
    <3> QED
      BY <1>f, <2>2, <3>1, AppendKeepsIntact DEF IntactIn, Valid
  <2>11. IntactIn(metadata'[u], Append(Stored(u), w.blob))
    BY <2>2, <2>5, <2>7, <2>10
  <2> HIDE DEF w
  <2> QED
    BY <1>t, <1>f, <2>4, <2>6, <2>7, <2>8, <2>9, <2>11, WritePlaced
<1> QED
  BY <1>1, <1>2, <1>3 DEF ReadStep

\* A process that ends: its buffer has reached the file or is lost.
LEMMA GonePlaced ==
  ASSUME Typed, Placing, NEW u \in Users, Gone(u), Flush(u) \/ UNCHANGED disk
  PROVE  Placing'
<1>t. TypeOK
  BY DEF Typed
<1>1. /\ pending' = [pending EXCEPT ![u] = NoWrite]
      /\ metadata' = [metadata EXCEPT ![u] = BlankIndex]
  BY DEF Gone
<1>2. /\ metadata'[u] = BlankIndex
      /\ pending'[u] = NoWrite
      /\ \A v \in Users \ {u} : metadata'[v] = metadata[v] /\ pending'[v] = pending[v]
  BY <1>t, <1>1 DEF TypeOK
<1>3. \A d : IntactIn(BlankIndex, d)
  BY DEF IntactIn, Valid, BlankIndex, BlankMetadata
<1>4. CASE Flush(u)
  <2>1. NoWrite \in Writes /\ NoWrite.to = "nothing"
    BY WritesType DEF NoWrite
  <2>2. /\ data' = Stored(u)
        /\ disk_metadata' = IndexWith(pending[u])
    BY <1>4 DEF Flush, Stored
  <2>3. IntactIn(IndexWith(pending[u]), Stored(u))
    BY <1>t, FlushedIntact DEF Placing
  <2> QED
    BY <1>t, <1>1, <1>2, <1>3, <2>1, <2>2, <2>3, WritePlaced
<1>5. CASE UNCHANGED disk
  <2>1. data' = data /\ disk_metadata' = disk_metadata
    BY <1>5 DEF disk
  <2>2. Apart' /\ IntactIn(disk_metadata, data)'
    BY <1>2, <2>1 DEF Placing, Apart, IntactIn, NoWrite
  <2>3. ASSUME NEW v \in Users \ {u}
        PROVE  Lands(pending[v])' /\ IntactIn(metadata[v], Stored(v))'
    BY <1>2, <2>1 DEF Placing, Lands, IntactIn, Stored, DataWith
  <2>4. Lands(pending[u])' /\ IntactIn(metadata[u], Stored(u))'
    BY <1>2, <1>3 DEF Lands, NoWrite, IntactIn
  <2> QED
    BY <2>2, <2>3, <2>4 DEF Placing
<1> QED
  BY <1>4, <1>5

\* A process that opens the file reads entries that lead to their images.
LEMMA OpenPlaced ==
  ASSUME Typed, Forgotten, Placing, NEW u \in Users, Open(u)
  PROVE  Placing'
<1>1. /\ pending[u] = NoWrite
      /\ UNCHANGED <<pending, disk_metadata, data>>
      /\ metadata' = [metadata EXCEPT ![u] = disk_metadata]
  BY DEF Forgotten, Open, disk
<1>2. /\ metadata'[u] = disk_metadata
      /\ \A v \in Users \ {u} : metadata'[v] = metadata[v]
  BY <1>1 DEF Typed, TypeOK
<1>3. Stored(u)' = data
  BY <1>1 DEF Stored, DataWith, NoWrite
<1>4. \A v \in Users : Lands(pending[v])' /\ Stored(v)' = Stored(v)
  BY <1>1 DEF Placing, Lands, IntactIn, Stored, DataWith
<1>5. ASSUME NEW v \in Users
      PROVE  IntactIn(metadata[v], Stored(v))'
  BY <1>1, <1>2, <1>3, <1>4 DEF Placing, IntactIn
<1>6. Apart' /\ IntactIn(disk_metadata, data)'
  BY <1>1 DEF Placing, Apart, IntactIn
<1> QED
  BY <1>4, <1>5, <1>6 DEF Placing

\* An empty file that nobody has open.
LEMMA EmptyPlaced ==
  ASSUME metadata' = [u \in Users |-> BlankIndex],
         pending' = [u \in Users |-> NoWrite],
         disk_metadata' = BlankIndex
  PROVE  Placing'
  BY DEF Placing, Apart, Lands, IntactIn, Valid, BlankIndex, BlankMetadata, NoWrite

-----------------------------------------------------------------------------
(* What a step of one process may change. *)

OnlyOwn(u) ==
  \A v \in Users \ {u} : /\ pc'[v] = pc[v]
                          /\ header'[v] = header[v]
                          /\ metadata'[v] = metadata[v]
                          /\ slot'[v] = slot[v]
                          /\ pending'[v] = pending[v]
                          /\ call'[v] = call[v]

\* The step of a call begins with the process in the call and ends with it there.
Inside(u) == ~Off(u) /\ pc'[u] # "off" /\ OnlyOwn(u)

LEMMA AtOnceOwn ==
  ASSUME Typed, NEW u \in Users, NEW c, NEW err, ReturnsAtOnce(u, c, err),
         \/ UNCHANGED metadata
         \/ \E i \in Slots : \E m : SetsSlot(u, i, m)
  PROVE  Inside(u)
<1>1. /\ pc[u] = "idle" /\ pc'[u] # "off"
      /\ \A v \in Users \ {u} : pc'[v] = pc[v]
  BY DEF ReturnsAtOnce, Begins, Goes, Returned, Typed, TypeOK
<1>2. \A v \in Users \ {u} : metadata'[v] = metadata[v]
  BY DEF SetsSlot, Typed, TypeOK
<1> QED
  BY <1>1, <1>2 DEF ReturnsAtOnce, Inside, OnlyOwn, Off

LEMMA InsertStepOwn ==
  ASSUME Typed, NEW u \in Users, NEW id \in Ids, NEW img \in Images,
         InsertStep(u, id, img)
  PROVE  Inside(u)
<1>1. CASE InsertFull(u, id, img) \/ InsertNowhere(u, id, img)
  BY <1>1, AtOnceOwn DEF InsertFull, InsertNowhere
<1>2. ASSUME NEW i \in Slots, InsertUndecodable(u, i, id, img) \/ InsertRefused(u, i, id, img)
      PROVE  Inside(u)
  BY <1>2, AtOnceOwn DEF InsertUndecodable, InsertRefused
<1>3. ASSUME NEW i \in Slots, InsertImage(u, i, id, img) \/ InsertShared(u, i, id, img)
      PROVE  Inside(u)
  <2>1. /\ pc[u] = "idle"
        /\ \E phase \in {"image", "entry"} : pc' = [pc EXCEPT ![u] = phase]
        /\ \E c : call' = [call EXCEPT ![u] = c]
        /\ slot' = [slot EXCEPT ![u] = i]
        /\ \E w : pending' = [pending EXCEPT ![u] = w]
    BY <1>3 DEF InsertImage, InsertShared, Starts, Begins, Goes, Appends, Write
  <2>2. /\ header' = header
        /\ \E m : metadata' = [metadata EXCEPT ![u][i] = m]
    BY <1>3 DEF InsertImage, InsertShared, InsertAccepted, SetsSlot
  <2> QED
    BY <2>1, <2>2 DEF Inside, OnlyOwn, Off, Typed, TypeOK
<1> QED
  BY <1>1, <1>2, <1>3 DEF InsertStep

LEMMA DeleteStepOwn ==
  ASSUME Typed, NEW u \in Users, NEW id \in Ids, DeleteStep(u, id)
  PROVE  Inside(u)
<1>1. CASE DeleteMissing(u, id)
  BY <1>1, AtOnceOwn DEF DeleteMissing
<1>2. ASSUME NEW k \in 0 .. MaxFiles, DeleteArray(u, id, k)
      PROVE  Inside(u)
  BY <1>2 DEF DeleteArray, Starts, Begins, Goes, Inside, OnlyOwn, Off, Typed, TypeOK
<1> QED
  BY <1>1, <1>2 DEF DeleteStep

LEMMA ReadStepOwn ==
  ASSUME Typed, NEW u \in Users, NEW id \in Ids, NEW res \in Res, ReadStep(u, id, res)
  PROVE  Inside(u)
<1>1. ASSUME \/ ReadMissing(u, id, res)
             \/ \E i \in Slots : ReadOutOfBounds(u, i, id, res)
      PROVE  Inside(u)
  BY <1>1, AtOnceOwn DEF ReadMissing, ReadOutOfBounds
<1>2. ASSUME NEW c, NEW err, NEW out, ReadsAndReturns(u, c, err, out)
      PROVE  Inside(u)
  BY <1>2 DEF ReadsAndReturns, Begins, Goes, Returned, Write, copies,
              Inside, OnlyOwn, Off, Typed, TypeOK
<1>3. ASSUME NEW i \in Slots, ResizeImage(u, i, id, res)
      PROVE  Inside(u)
  BY <1>3 DEF ResizeImage, Starts, Begins, Goes, Appends, Write, SetsSlot,
              Inside, OnlyOwn, Off, Typed, TypeOK
<1>4. ASSUME NEW i \in Slots, ReadStored(u, i, id, res) \/ ReadUnresized(u, i, id, res)
      PROVE  Inside(u)
  BY <1>4, <1>2 DEF ReadStored, ReadUnresized
<1> QED
  BY <1>1, <1>3, <1>4 DEF ReadStep

LEMMA LaterOwn ==
  ASSUME Typed, NEW u \in Users,
         \/ InsertEntry(u) \/ InsertHeader(u) \/ DeleteHeader(u)
         \/ ResizeEntry(u) \/ ReadDerived(u)
  PROVE  Inside(u)
<1>1. CASE InsertEntry(u) \/ ResizeEntry(u)
  BY <1>1 DEF InsertEntry, ResizeEntry, Continues, Goes, Write, copies,
              Inside, OnlyOwn, Off, Typed, TypeOK
<1>2. CASE InsertHeader(u) \/ DeleteHeader(u) \/ ReadDerived(u)
  <2>1. /\ ~Off(u)
        /\ \E phase \in {"idle", "done"} : pc' = [pc EXCEPT ![u] = phase]
        /\ \E c : call' = [call EXCEPT ![u] = c]
        /\ \E i : slot' = [slot EXCEPT ![u] = i]
    BY <1>2 DEF InsertHeader, DeleteHeader, ReadDerived, Returns, Goes, Returned, Off
  <2>2. /\ \E w : pending' = [pending EXCEPT ![u] = w]
        /\ metadata' = metadata
        /\ header' = header \/ \E h : header' = [header EXCEPT ![u] = h]
    BY <1>2 DEF InsertHeader, DeleteHeader, ReadDerived, Write, copies
  <2> QED
    BY <2>1, <2>2 DEF Inside, OnlyOwn, Off, Typed, TypeOK
<1> QED
  BY <1>1, <1>2

\* The steps that are not part of a call.
LEMMA OpenOwn ==
  ASSUME Typed, NEW u \in Users, Open(u)
  PROVE  pc'[u] = "idle" /\ OnlyOwn(u)
  BY DEF Open, Goes, OnlyOwn, Typed, TypeOK

LEMMA GoneOwn ==
  ASSUME Typed, NEW u \in Users, Gone(u)
  PROVE  /\ pc'[u] = "off"
         /\ header'[u] = BlankHeader
         /\ metadata'[u] = BlankIndex
         /\ pending'[u] = NoWrite
         /\ OnlyOwn(u)
  BY DEF Gone, Goes, OnlyOwn, Typed, TypeOK

\* A step leaves nothing of a process that is gone.
LEMMA NextForgotten == Typed /\ Forgotten /\ [Next]_vars => Forgotten'
<1> SUFFICES ASSUME Typed, Forgotten, [Next]_vars
             PROVE  Forgotten'
  OBVIOUS
<1>1. ASSUME NEW u \in Users, OnlyOwn(u), pc'[u] # "off"
      PROVE  Forgotten'
  BY <1>1 DEF Forgotten, Off, OnlyOwn
<1>2. ASSUME NEW u \in Users, Gone(u)
      PROVE  Forgotten'
  BY <1>2, GoneOwn DEF Forgotten, Off, OnlyOwn
<1>3. ASSUME NEW u \in Users, UserStep(u)
      PROVE  Forgotten'
  <2>1. CASE Open(u)
    BY <1>1, <2>1, OpenOwn
  <2>2. CASE Close(u) \/ Kill(u)
    BY <1>2, <2>2 DEF Close, Kill
  <2>3. CASE ~(Open(u) \/ Close(u) \/ Kill(u))
    <3>1. Inside(u)
      BY <1>3, <2>3, InsertStepOwn, DeleteStepOwn, ReadStepOwn, LaterOwn DEF UserStep
    <3> QED
      BY <1>1, <3>1 DEF Inside
  <2> QED
    BY <2>1, <2>2, <2>3
<1>4. CASE Interrupt
  <2>1. "server" \in Users
    BY DEF Users
  <2> QED
    BY <1>2, <1>4, <2>1 DEF Interrupt
<1>5. CASE Create
  BY <1>5 DEF Create, copies, Forgotten, Off
<1>6. CASE UNCHANGED vars
  BY <1>6 DEF vars, copies, Forgotten, Off
<1> QED
  BY <1>3, <1>4, <1>5, <1>6 DEF Next

-----------------------------------------------------------------------------
\* Unless two processes append at one place at once, every step of every process
\* keeps the entries leading to their images.
LEMMA NextPlaced ==
  ASSUME Typed, Forgotten, ~clashed => Placing, [Next]_vars, ~clashed'
  PROVE  Placing'
<1>t. TypeOK
  BY DEF Typed
<1>1. CASE Create
  <2>1. ASSUME NEW u \in Users
        PROVE  metadata[u] = BlankIndex /\ pending[u] = NoWrite
    BY <1>1 DEF Create, Forgotten
  <2>2. /\ metadata' = [u \in Users |-> BlankIndex]
        /\ pending' = [u \in Users |-> NoWrite]
        /\ disk_metadata' = BlankIndex
    BY <1>1, <1>t, <2>1 DEF Create, copies, TypeOK
  <2> QED
    BY <2>2, EmptyPlaced
<1>2. ASSUME ~Create
      PROVE  Placing'
  <2>1. ~clashed
    <3>1. ASSUME NEW u \in Users, UserStep(u)
          PROVE  ~clashed
      <4>a. ASSUME NEW b, Appends(u, b)
            PROVE  ~clashed
        BY <4>a, Zenon DEF Appends
      <4>1. CASE \E id \in Ids, img \in Images : InsertStep(u, id, img)
        <5> SUFFICES ASSUME NEW id \in Ids, NEW img \in Images, InsertStep(u, id, img)
                     PROVE  ~clashed
          BY <4>1
        <5>1. CASE InsertFull(u, id, img) \/ InsertNowhere(u, id, img)
          BY <5>1 DEF InsertFull, InsertNowhere, ReturnsAtOnce
        <5>2. ASSUME NEW i \in Slots,
                     InsertUndecodable(u, i, id, img) \/ InsertRefused(u, i, id, img)
              PROVE  ~clashed
          BY <5>2 DEF InsertUndecodable, InsertRefused, ReturnsAtOnce
        <5>3. ASSUME NEW i \in Slots,
                     InsertImage(u, i, id, img) \/ InsertShared(u, i, id, img)
              PROVE  ~clashed
          BY <5>3, <4>a DEF InsertImage, InsertShared
        <5> QED
          BY <5>1, <5>2, <5>3 DEF InsertStep
      <4>2. CASE \E id \in Ids : DeleteStep(u, id)
        BY <4>2 DEF DeleteStep, DeleteMissing, ReturnsAtOnce, DeleteArray
      <4>3. CASE \E id \in Ids, res \in Res : ReadStep(u, id, res)
        BY <4>3, <4>a DEF ReadStep, ReadMissing, ReadOutOfBounds, ReturnsAtOnce, ReadStored,
           ReadUnresized, ReadsAndReturns, ResizeImage
      <4>4. CASE \/ Open(u) \/ InsertEntry(u) \/ InsertHeader(u) \/ DeleteHeader(u)
                 \/ ResizeEntry(u) \/ ReadDerived(u) \/ Close(u) \/ Kill(u)
        BY <4>4 DEF Open, InsertEntry, InsertHeader, DeleteHeader, ResizeEntry, ReadDerived,
           Close, Kill, Gone
      <4> QED
        BY <3>1, <4>1, <4>2, <4>3, <4>4 DEF UserStep
    <3>2. CASE Interrupt
      BY <3>2 DEF Interrupt, Gone
    <3>3. CASE UNCHANGED vars
      BY <3>3 DEF vars, history
    <3> QED
      BY <1>2, <3>1, <3>2, <3>3 DEF Next
  <2>2. Placing
    BY <2>1
  <2>3. ASSUME NEW u \in Users, InsertEntry(u) \/ ResizeEntry(u)
        PROVE  Placing'
    <3> DEFINE m == metadata[u][slot[u]]
               w == ToEntry(slot[u], m)
    <3>1. slot[u] \in Slots /\ m \in Metadata
      BY <1>t DEF TypeOK
    <3>2. w \in Writes /\ w.to = "entry" /\ w.entry = m
      BY <3>1, WritesType DEF ToEntry
    <3>3. m.is_valid => EntryIntact(m, Stored(u))
      BY <2>2, <3>1 DEF Placing, IntactIn, Valid
    <3>4. Write(u, w) /\ UNCHANGED metadata
      BY <2>3 DEF InsertEntry, ResizeEntry, copies
    <3> HIDE DEF w, m
    <3> QED
      BY <2>2, <3>2, <3>3, <3>4, LaterPlaced
  <2>4. ASSUME NEW u \in Users, InsertHeader(u) \/ DeleteHeader(u) \/ ReadDerived(u)
        PROVE  Placing'
    <3>1. PICK w \in Writes : Write(u, w) /\ w.to \in {"header", "nothing"}
      <4>1. /\ ToHeader(Mine(u)!BumpInsert) \in Writes
            /\ ToHeader(Mine(u)!BumpDelete) \in Writes
            /\ NoWrite \in Writes
        BY <1>t, BumpedType, WritesType
      <4>2. /\ \A h : ToHeader(h).to = "header"
            /\ NoWrite.to = "nothing"
        BY DEF ToHeader, NoWrite
      <4> QED
        BY <2>4, <4>1, <4>2 DEF InsertHeader, DeleteHeader, ReadDerived
    <3>2. UNCHANGED metadata
      BY <2>4 DEF InsertHeader, DeleteHeader, ReadDerived, copies
    <3> QED
      BY <2>2, <3>1, <3>2, LaterPlaced
  <2>5. ASSUME NEW u \in Users, UserStep(u)
        PROVE  Placing'
    <3>1. CASE Close(u) \/ Kill(u)
      BY <2>2, <3>1, GonePlaced DEF Close, Kill
    <3> QED
      BY <2>2, <2>3, <2>4, <2>5, <3>1, OpenPlaced, InsertStepPlaced, DeleteStepPlaced,
         ReadStepPlaced DEF UserStep
  <2>6. CASE Interrupt
    <3>1. "server" \in Users
      BY DEF Users
    <3> QED
      BY <2>2, <2>6, <3>1, GonePlaced DEF Interrupt
  <2>7. CASE UNCHANGED vars
    BY <2>2, <2>7 DEF vars, copies, disk, Placing, Apart, Lands, IntactIn, Stored, DataWith
  <2> QED
    BY <1>2, <2>5, <2>6, <2>7 DEF Next
<1> QED
  BY <1>1, <1>2

\* The inductive invariant: the types, nothing left of a process that is gone,
\* and the order of the file.
LEMMA SessionsHold == Spec => []Sessions
<1>1. Init => Sessions
  <2> SUFFICES ASSUME Init
               PROVE  Sessions
    OBVIOUS
  <2>1. Typed
    BY InitTyped
  <2>2. Forgotten
    BY DEF Init, Forgotten
  <2>3. Placing
    BY DEF Init, Placing, Apart, Lands, IntactIn, Valid, BlankIndex, BlankMetadata, NoWrite
  <2> QED
    BY <2>1, <2>2, <2>3 DEF Sessions
<1>2. Sessions /\ [Next]_vars => Sessions'
  BY NextTyped, NextForgotten, NextPlaced DEF Sessions
<1> QED
  BY <1>1, <1>2, PTL DEF Spec

\* Wherever a process is stopped, and whatever processes with outdated copies
\* write over each other's entries: entries lead to their images, in the file and
\* in every copy, unless two images were appended at one place at once.
THEOREM EntriesLead == Spec => []ImagesIntact
<1>1. Sessions => ImagesIntact
  BY DEF Sessions, Placing, IntactIn, ImagesIntact, Stored
<1> QED
  BY <1>1, SessionsHold, PTL

-----------------------------------------------------------------------------
(* The calls step by step: where each leaves its process.                  *)

\* What the buffer holds, by the phase of the call, and that a call that writes
\* an entry works on a valid one.
Shape(u) ==
  /\ pc[u] \in {"off", "idle", "done"} => pending[u].to \in {"nothing", "header"}
  /\ pc[u] \in {"image", "derived"} => pending[u].to = "images"
  /\ pc[u] \in {"entry", "update"} => pending[u] = ToEntry(slot[u], metadata[u][slot[u]])
  /\ pc[u] = "array" => pending[u].to = "array" /\ pending[u].index = metadata[u]
  /\ pc[u] \in {"image", "entry", "derived", "update"} => slot[u] \in Valid(metadata[u])
  /\ pc[u] \in {"image", "entry"} =>
       /\ metadata[u][slot[u]].img_id = call[u].id
       /\ metadata[u][slot[u]].SHA = call[u].arg

Rest == {"idle", "done"}

\* The step takes a process from one phase to another.
Moves(u, from, to) == pc[u] = from /\ pc'[u] = to

\* A call that returns at once, or reads and returns: its array shows what it
\* showed before.
Idles(u) ==
  /\ pc[u] = "idle" /\ pc'[u] \in Rest
  /\ UNCHANGED <<header, slot, call, kept, overlapped, cuts>>
  /\ metadata' \in [Users -> [Slots -> Metadata]]
  /\ \A i \in Slots : SameSlot(metadata'[u][i], metadata[u][i])
  /\ \/ UNCHANGED <<pending, disk>>
     \/ Write(u, NoWrite)

\* An insertion whose entry is accepted, up to its first write.
Enters(u, i, e, phase) ==
  /\ Moves(u, "idle", phase)
  /\ i \in Slots \ Valid(metadata[u])
  /\ e \in Metadata /\ e.is_valid
  /\ metadata'[u] = [metadata[u] EXCEPT ![i] = e]
  /\ slot'[u] = i
  /\ call'[u].id = e.img_id
  /\ call'[u].arg = e.SHA
  /\ UNCHANGED <<header, kept, overlapped, cuts>>

LEMMA AtOnceIdles ==
  ASSUME Typed, NEW u \in Users, NEW c, NEW err, ReturnsAtOnce(u, c, err),
         \/ UNCHANGED metadata
         \/ \E i \in Slots \ Valid(metadata[u]), m \in Metadata :
              ~m.is_valid /\ SetsSlot(u, i, m)
  PROVE  Idles(u)
<1>1. /\ pc[u] = "idle" /\ pc'[u] \in Rest
      /\ UNCHANGED <<header, slot, call, kept, overlapped, cuts, pending, disk>>
  BY DEF ReturnsAtOnce, Begins, Goes, Returned, Rest, Typed, TypeOK
<1>2. metadata \in [Users -> [Slots -> Metadata]]
  BY DEF Typed, TypeOK
<1>3. /\ metadata' \in [Users -> [Slots -> Metadata]]
      /\ \A i \in Slots : SameSlot(metadata'[u][i], metadata[u][i])
  <2>1. CASE UNCHANGED metadata
    BY <1>2, <2>1 DEF SameSlot
  <2>2. ASSUME NEW i \in Slots \ Valid(metadata[u]), NEW m \in Metadata,
               ~m.is_valid, SetsSlot(u, i, m)
        PROVE  /\ metadata' \in [Users -> [Slots -> Metadata]]
               /\ \A j \in Slots : SameSlot(metadata'[u][j], metadata[u][j])
    BY <1>2, <2>2 DEF SetsSlot, SameSlot, Valid
  <2> QED
    BY <2>1, <2>2
<1> QED
  BY <1>1, <1>3 DEF Idles

\* An insertion is over at once or enters its image.
LEMMA InsertEffect ==
  ASSUME Typed, NEW u \in Users, NEW id \in Ids, NEW img \in Images,
         InsertStep(u, id, img)
  PROVE  \/ Idles(u)
         \/ \E i \in Slots : LET e == Mine(u)!Entry(i, id, img)
                             IN  \/ /\ InsertImage(u, i, id, img)
                                    /\ Enters(u, i, e, "image")
                                 \/ /\ InsertShared(u, i, id, img)
                                    /\ Enters(u, i, e, "entry")
<1>t. TypeOK
  BY DEF Typed
<1>1. CASE InsertFull(u, id, img) \/ InsertNowhere(u, id, img)
  BY <1>1, AtOnceIdles DEF InsertFull, InsertNowhere
<1>2. ASSUME NEW i \in Slots, InsertUndecodable(u, i, id, img)
      PROVE  Idles(u)
  <2>1. i \in Slots \ Valid(metadata[u]) /\ metadata[u][i] \in Metadata
    BY <1>2, <1>t, MineSlot DEF InsertUndecodable, TypeOK
  <2>2. Filled(metadata[u][i], id, img) \in Metadata
    BY <1>t, <2>1, OfferType
  <2>3. ~Filled(metadata[u][i], id, img).is_valid
    BY <2>1 DEF Filled, Metadata, Valid
  <2> QED
    BY <1>2, <2>1, <2>2, <2>3, AtOnceIdles DEF InsertUndecodable
<1>3. ASSUME NEW i \in Slots, InsertRefused(u, i, id, img)
      PROVE  Idles(u)
  <2> DEFINE c == Mine(u)!Candidate(i, id, img)
  <2>1. i \in Slots \ Valid(metadata[u])
    BY <1>3, MineSlot DEF InsertRefused
  <2>2. c \in Metadata
    <3>1. Offered(u, i, id, img) \in Metadata
      BY <1>t, <2>1, OfferType
    <3> QED
      BY <3>1, MineInserts
  <2>3. /\ SetsSlot(u, i, [c EXCEPT !.is_valid = FALSE])
        /\ ReturnsAtOnce(u, Insert(id, img), Mine(u)!CandidateError(i, id, img))
    BY <1>3 DEF InsertRefused
  <2> HIDE DEF c
  <2>4. /\ [c EXCEPT !.is_valid = FALSE] \in Metadata
        /\ ~[c EXCEPT !.is_valid = FALSE].is_valid
    BY <2>2 DEF Metadata
  <2> QED
    BY <2>1, <2>3, <2>4, AtOnceIdles
<1>4. ASSUME NEW i \in Slots, NEW phase \in {"image", "entry"},
             InsertAccepted(u, i, id, img), Starts(u, phase, Insert(id, img), i),
             UNCHANGED <<header, kept, overlapped, cuts>>
      PROVE  Enters(u, i, Mine(u)!Entry(i, id, img), phase)
  <2> DEFINE e == Mine(u)!Entry(i, id, img)
  <2>1. Mine(u)!InsertAccepted(i, id, img) /\ SetsSlot(u, i, e)
    BY <1>4 DEF InsertAccepted
  <2>2. i \in Slots \ Valid(metadata[u])
    BY <2>1, MineInserts, MineSlot
  <2>3. /\ e \in Metadata
        /\ e.img_id = id
        /\ e.SHA = img
        /\ e.is_valid
    BY <1>t, <2>1, AcceptedEntry
  <2> HIDE DEF e
  <2>4. metadata'[u] = [metadata[u] EXCEPT ![i] = e]
    BY <1>t, <2>1 DEF SetsSlot, TypeOK
  <2>5. /\ Moves(u, "idle", phase)
        /\ slot'[u] = i
        /\ call'[u] = Insert(id, img)
    BY <1>4, <1>t DEF Starts, Begins, Goes, Moves, Typed, TypeOK, CallsTyped
  <2>6. Insert(id, img).id = id /\ Insert(id, img).arg = img
    BY DEF Insert, Call
  <2> QED
    BY <1>4, <2>2, <2>3, <2>4, <2>5, <2>6 DEF Enters, e
<1>5. ASSUME NEW i \in Slots, InsertImage(u, i, id, img)
      PROVE  Enters(u, i, Mine(u)!Entry(i, id, img), "image")
  <2>1. InsertAccepted(u, i, id, img) /\ Starts(u, "image", Insert(id, img), i)
    BY <1>5 DEF InsertImage
  <2>2. UNCHANGED <<header, kept, overlapped, cuts>>
    BY <2>1 DEF InsertAccepted
  <2> QED
    BY <1>4, <2>1, <2>2
<1>6. ASSUME NEW i \in Slots, InsertShared(u, i, id, img)
      PROVE  Enters(u, i, Mine(u)!Entry(i, id, img), "entry")
  <2>1. InsertAccepted(u, i, id, img) /\ Starts(u, "entry", Insert(id, img), i)
    BY <1>6 DEF InsertShared
  <2>2. UNCHANGED <<header, kept, overlapped, cuts>>
    BY <2>1 DEF InsertAccepted
  <2> QED
    BY <1>4, <2>1, <2>2
<1> QED
  BY <1>1, <1>2, <1>3, <1>5, <1>6 DEF InsertStep

\* A deletion is over at once or takes the entry out of the array.
Clears(u, id, k) ==
  LET i == First(Named(metadata[u], id))
      f == [metadata[u] EXCEPT ![i].is_valid = FALSE]
  IN  /\ Moves(u, "idle", "array")
      /\ k \in Nat
      /\ i \in Named(metadata[u], id)
      /\ f \in [Slots -> Metadata]
      /\ f = Mine(u)!Deleted(id)
      /\ metadata'[u] = f
      /\ pending'[u] = ToArray(k, f)
      /\ disk_header' = HeaderWith(pending[u])
      /\ data' = Stored(u)
      /\ disk_metadata' = [j \in Slots |-> IF j < k THEN f[j] ELSE IndexWith(pending[u])[j]]
      /\ kept' = {p \in kept : p[1] # id}
      /\ UNCHANGED <<header, overlapped, cuts>>

LEMMA DeleteEffect ==
  ASSUME Typed, NEW u \in Users, NEW id \in Ids, DeleteStep(u, id)
  PROVE  \/ Idles(u)
         \/ \E k \in 0 .. MaxFiles : DeleteArray(u, id, k) /\ Clears(u, id, k)
<1>t. TypeOK
  BY DEF Typed
<1>1. CASE DeleteMissing(u, id)
  BY <1>1, AtOnceIdles DEF DeleteMissing
<1>2. ASSUME NEW k \in 0 .. MaxFiles, DeleteArray(u, id, k)
      PROVE  Clears(u, id, k)
  <2> DEFINE after == Mine(u)!Deleted(id)
             i     == First(Named(metadata[u], id))
             f     == [metadata[u] EXCEPT ![i].is_valid = FALSE]
  <2>1. after \in [Slots -> Metadata] /\ after = f
    BY <1>t, BumpedType, MineDeletes
  <2>2. /\ Named(metadata[u], id) # {}
        /\ Starts(u, "array", Delete(id), i)
        /\ metadata' = [metadata EXCEPT ![u] = after]
        /\ disk_header' = HeaderWith(pending[u])
        /\ disk_metadata' = [j \in Slots |-> IF j < k THEN after[j]
                                                      ELSE IndexWith(pending[u])[j]]
        /\ data' = Stored(u)
        /\ pending' = [pending EXCEPT ![u] = ToArray(k, after)]
        /\ kept' = {p \in kept : p[1] # id}
        /\ UNCHANGED <<header, overlapped, cuts>>
    BY <1>2 DEF DeleteArray, Stored
  <2>3. i \in Named(metadata[u], id)
    <3>1. Named(metadata[u], id) \in SUBSET Slots
      BY DEF Named, Valid
    <3> QED
      BY <2>2, <3>1, FirstIsLeast
  <2>4. k \in Nat
    BY MaxFilesAssumption
  <2> HIDE DEF after, f, i
  <2>5. Moves(u, "idle", "array")
    BY <1>t, <2>2 DEF Starts, Begins, Goes, Moves, TypeOK
  <2>6. metadata'[u] = f /\ pending'[u] = ToArray(k, f)
    BY <1>t, <2>1, <2>2 DEF TypeOK
  <2> QED
    BY <2>1, <2>2, <2>3, <2>4, <2>5, <2>6 DEF Clears, after, f, i
<1> QED
  BY <1>1, <1>2 DEF DeleteStep

\* A read is over at once or appends a derived image and completes the entry.
Completes(u, i, e, b) ==
  /\ Moves(u, "idle", "derived")
  /\ i \in Valid(metadata[u])
  /\ e \in Metadata /\ e.is_valid
  /\ e.img_id = metadata[u][i].img_id
  /\ e.SHA = metadata[u][i].SHA
  /\ metadata'[u] = [metadata[u] EXCEPT ![i] = e]
  /\ slot'[u] = i
  /\ Write(u, ToImages(End(u), b))
  /\ UNCHANGED <<header, kept, overlapped, cuts>>

LEMMA ReadEffect ==
  ASSUME Typed, NEW u \in Users, NEW id \in Ids, NEW res \in Res, ReadStep(u, id, res)
  PROVE  \/ Idles(u)
         \/ \E i \in Slots : /\ ResizeImage(u, i, id, res)
                            /\ Completes(u, i, Mine(u)!ResizedEntry(i, res),
                                         Mine(u)!Resized(i, res))
<1>t. TypeOK
  BY DEF Typed
<1>1. ASSUME \/ ReadMissing(u, id, res)
             \/ \E i \in Slots : ReadOutOfBounds(u, i, id, res)
      PROVE  Idles(u)
  BY <1>1, AtOnceIdles DEF ReadMissing, ReadOutOfBounds
<1>2. ASSUME NEW c, NEW err, NEW out, ReadsAndReturns(u, c, err, out)
      PROVE  Idles(u)
  <2>1. /\ pc[u] = "idle" /\ pc'[u] \in Rest
        /\ UNCHANGED <<copies, slot, call, kept, overlapped, cuts>>
        /\ Write(u, NoWrite)
    BY <1>2, <1>t DEF ReadsAndReturns, Begins, Goes, Returned, Rest, TypeOK
  <2>2. metadata' = metadata
    BY <2>1 DEF copies
  <2>3. /\ metadata' \in [Users -> [Slots -> Metadata]]
        /\ \A i \in Slots : SameSlot(metadata'[u][i], metadata[u][i])
    BY <1>t, <2>2 DEF SameSlot, TypeOK
  <2> QED
    BY <2>1, <2>3 DEF Idles, copies
<1>3. ASSUME NEW i \in Slots, ResizeImage(u, i, id, res)
      PROVE  Completes(u, i, Mine(u)!ResizedEntry(i, res), Mine(u)!Resized(i, res))
  <2> DEFINE e == Mine(u)!ResizedEntry(i, res)
             b == Mine(u)!Resized(i, res)
             m == metadata[u][i]
             made == Blob(Content(m, Stored(u), ORIG_RES).img, res)
  <2>1. /\ Mine(u)!Resizes(i, id, res)
        /\ SetsSlot(u, i, e)
        /\ Starts(u, "derived", Read(id, res), i)
        /\ Write(u, ToImages(End(u), b))
        /\ UNCHANGED <<header, kept, overlapped, cuts>>
    BY <1>3 DEF ResizeImage, Appends
  <2>2. /\ Named(metadata[u], id) # {} /\ i = First(Named(metadata[u], id))
        /\ Content(m, Stored(u), ORIG_RES) # NoImage
    BY <2>1, MineReads
  <2>3. i \in Valid(metadata[u])
    <3>1. Named(metadata[u], id) \in SUBSET Slots
      BY DEF Named, Valid
    <3> QED
      BY <2>2, <3>1, FirstIsLeast DEF Named
  <2>4. e \in Metadata
    BY <1>t, <2>2, ResizeType
  <2>5. e = [m EXCEPT !.size[res] = BlobSize(made), !.offset[res] = End(u)]
    BY MineReads, Zenon
  <2>6. m \in Metadata /\ m.is_valid
    BY <1>t, <2>3 DEF TypeOK, Valid
  <2> HIDE DEF e, b, m, made
  <2>7. e.is_valid /\ e.img_id = m.img_id /\ e.SHA = m.SHA
    BY <2>5, <2>6 DEF Metadata
  <2>8. /\ Moves(u, "idle", "derived")
        /\ slot'[u] = i
    BY <1>t, <2>1 DEF Starts, Begins, Goes, Moves, TypeOK
  <2>9. metadata'[u] = [metadata[u] EXCEPT ![i] = e]
    BY <1>t, <2>1 DEF SetsSlot, TypeOK
  <2> QED
    BY <2>1, <2>3, <2>4, <2>7, <2>8, <2>9 DEF Completes, e, b, m
<1>4. ASSUME NEW i \in Slots, ReadStored(u, i, id, res) \/ ReadUnresized(u, i, id, res)
      PROVE  Idles(u)
  BY <1>4, <1>2 DEF ReadStored, ReadUnresized
<1> QED
  BY <1>1, <1>3, <1>4 DEF ReadStep

\* The later steps of the calls.
Updates(u, from, to) ==
  /\ Moves(u, from, to)
  /\ Write(u, ToEntry(slot[u], metadata[u][slot[u]]))
  /\ UNCHANGED <<header, metadata, slot, call, reply, kept, overlapped, cuts>>

Ends(u, from, h, w) ==
  /\ pc[u] = from /\ pc'[u] \in Rest
  /\ header'[u] = h
  /\ Write(u, w)
  /\ UNCHANGED <<metadata, overlapped, cuts>>

LEMMA LaterEffect ==
  ASSUME Typed, NEW u \in Users
  PROVE  /\ InsertEntry(u) => Updates(u, "image", "entry")
         /\ ResizeEntry(u) => Updates(u, "derived", "update")
         /\ InsertHeader(u) =>
              /\ Ends(u, "entry", Mine(u)!BumpInsert, ToHeader(Mine(u)!BumpInsert))
              /\ kept' = kept \union {<<call[u].id, call[u].arg>>}
         /\ DeleteHeader(u) =>
              /\ Ends(u, "array", Mine(u)!BumpDelete, ToHeader(Mine(u)!BumpDelete))
              /\ kept' = kept
         /\ ReadDerived(u) =>
              /\ Ends(u, "update", header[u], NoWrite)
              /\ kept' = kept
<1>t. /\ pc \in [Users -> Phases]
      /\ header \in [Users -> Headers]
  BY DEF Typed, TypeOK
<1>1. ASSUME NEW from, NEW to, Continues(u, from, to)
      PROVE  Moves(u, from, to)
  BY <1>1, <1>t DEF Continues, Goes, Moves
<1>2. ASSUME NEW from, Returns(u, from)
      PROVE  pc[u] = from /\ pc'[u] \in Rest
  BY <1>2, <1>t DEF Returns, Returned, Goes, Rest
<1>3. ASSUME InsertEntry(u)
      PROVE  Updates(u, "image", "entry")
  BY <1>1, <1>3 DEF InsertEntry, Updates, copies, Continues
<1>4. ASSUME ResizeEntry(u)
      PROVE  Updates(u, "derived", "update")
  BY <1>1, <1>4 DEF ResizeEntry, Updates, copies, Continues
<1>5. ASSUME InsertHeader(u)
      PROVE  /\ Ends(u, "entry", Mine(u)!BumpInsert, ToHeader(Mine(u)!BumpInsert))
             /\ kept' = kept \union {<<call[u].id, call[u].arg>>}
  <2>1. header'[u] = Mine(u)!BumpInsert
    BY <1>5, <1>t DEF InsertHeader
  <2> QED
    BY <1>2, <1>5, <2>1 DEF InsertHeader, Ends
<1>6. ASSUME DeleteHeader(u)
      PROVE  /\ Ends(u, "array", Mine(u)!BumpDelete, ToHeader(Mine(u)!BumpDelete))
             /\ kept' = kept
  <2>1. header'[u] = Mine(u)!BumpDelete
    BY <1>6, <1>t DEF DeleteHeader
  <2> QED
    BY <1>2, <1>6, <2>1 DEF DeleteHeader, Ends
<1>7. ASSUME ReadDerived(u)
      PROVE  Ends(u, "update", header[u], NoWrite) /\ kept' = kept
  BY <1>2, <1>7 DEF ReadDerived, Ends, copies
<1> QED
  BY <1>3, <1>4, <1>5, <1>6, <1>7

\* Every step of a call is one of these.
Effect(u) ==
  \/ Idles(u)
  \/ \E i \in Slots : \E e, w : Enters(u, i, e, "image") /\ Write(u, w) /\ w.to = "images"
  \/ \E i \in Slots : \E e : Enters(u, i, e, "entry") /\ Write(u, ToEntry(i, e))
  \/ \E id \in Ids : \E k : Clears(u, id, k)
  \/ \E i \in Slots : \E e, b : Completes(u, i, e, b)
  \/ Updates(u, "image", "entry")
  \/ Updates(u, "derived", "update")
  \/ /\ Ends(u, "entry", Mine(u)!BumpInsert, ToHeader(Mine(u)!BumpInsert))
     /\ kept' = kept \union {<<call[u].id, call[u].arg>>}
  \/ /\ Ends(u, "array", Mine(u)!BumpDelete, ToHeader(Mine(u)!BumpDelete))
     /\ kept' = kept
  \/ /\ Ends(u, "update", header[u], NoWrite)
     /\ kept' = kept

LEMMA UserEffect ==
  ASSUME Typed, NEW u \in Users, UserStep(u)
  PROVE  \/ Open(u)
         \/ Close(u)
         \/ Kill(u)
         \/ Inside(u) /\ Effect(u)
<1>1. ASSUME NEW id \in Ids, NEW img \in Images, InsertStep(u, id, img)
      PROVE  Effect(u)
  <2>1. CASE Idles(u)
    BY <2>1 DEF Effect
  <2>2. ASSUME NEW i \in Slots, InsertImage(u, i, id, img),
               Enters(u, i, Mine(u)!Entry(i, id, img), "image")
        PROVE  Effect(u)
    <3>1. PICK w : Write(u, w) /\ w.to = "images"
      BY <2>2 DEF InsertImage, Appends, ToImages
    <3> QED
      BY <2>2, <3>1 DEF Effect
  <2>3. ASSUME NEW i \in Slots, InsertShared(u, i, id, img),
               Enters(u, i, Mine(u)!Entry(i, id, img), "entry")
        PROVE  Effect(u)
    <3>1. Write(u, ToEntry(i, Mine(u)!Entry(i, id, img)))
      BY <2>3 DEF InsertShared
    <3> QED
      BY <2>3, <3>1 DEF Effect
  <2> QED
    BY <1>1, <2>1, <2>2, <2>3, InsertEffect
<1>2. ASSUME NEW id \in Ids, DeleteStep(u, id)
      PROVE  Effect(u)
  BY <1>2, DeleteEffect DEF Effect
<1>3. ASSUME NEW id \in Ids, NEW res \in Res, ReadStep(u, id, res)
      PROVE  Effect(u)
  BY <1>3, ReadEffect DEF Effect
<1>4. ASSUME \/ InsertEntry(u) \/ InsertHeader(u) \/ DeleteHeader(u)
             \/ ResizeEntry(u) \/ ReadDerived(u)
      PROVE  Effect(u)
  BY <1>4, LaterEffect DEF Effect
<1>5. \/ Open(u)
      \/ Close(u)
      \/ Kill(u)
      \/ \E id \in Ids, img \in Images : InsertStep(u, id, img)
      \/ \E id \in Ids : DeleteStep(u, id)
      \/ \E id \in Ids, res \in Res : ReadStep(u, id, res)
      \/ InsertEntry(u) \/ InsertHeader(u) \/ DeleteHeader(u)
      \/ ResizeEntry(u) \/ ReadDerived(u)
  BY DEF UserStep
<1>6. \/ Open(u) \/ Close(u) \/ Kill(u)
      \/ Inside(u)
  BY <1>5, InsertStepOwn, DeleteStepOwn, ReadStepOwn, LaterOwn
<1>7. Open(u) \/ Close(u) \/ Kill(u) \/ Effect(u)
  BY <1>1, <1>2, <1>3, <1>4, <1>5
<1> QED
  BY <1>6, <1>7

-----------------------------------------------------------------------------
(* What the buffer holds. *)

\* The steps keep what the buffer holds in each phase.
LEMMA IdlesShape ==
  ASSUME Typed, NEW u \in Users, Shape(u), Idles(u)
  PROVE  Shape(u)'
<1>1. /\ pc[u] = "idle" /\ pc'[u] \in Rest
      /\ pending'[u] = pending[u] \/ pending'[u] = NoWrite
  BY DEF Idles, Write, Typed, TypeOK
<1> QED
  BY <1>1 DEF Shape, Rest, NoWrite

LEMMA EntersShape ==
  ASSUME Typed, NEW u \in Users, NEW i \in Slots, NEW e, NEW phase \in {"image", "entry"},
         Enters(u, i, e, phase),
         phase = "image" => pending'[u].to = "images",
         phase = "entry" => pending'[u] = ToEntry(i, e)
  PROVE  Shape(u)'
<1>1. metadata[u] \in [Slots -> Metadata]
  BY DEF Typed, TypeOK
<1>2. /\ pc'[u] = phase
      /\ slot'[u] = i
      /\ metadata'[u] = [metadata[u] EXCEPT ![i] = e]
      /\ e.is_valid
      /\ call'[u].id = e.img_id
      /\ call'[u].arg = e.SHA
  BY DEF Enters, Moves
<1>3. metadata'[u][i] = e /\ i \in Valid(metadata'[u])
  BY <1>1, <1>2 DEF Valid
<1> QED
  BY <1>2, <1>3 DEF Shape

LEMMA ClearsShape ==
  ASSUME NEW u \in Users, NEW id, NEW k, Clears(u, id, k)
  PROVE  Shape(u)'
  BY DEF Clears, Moves, Shape, ToArray

LEMMA CompletesShape ==
  ASSUME Typed, NEW u \in Users, NEW i \in Slots, NEW e, NEW b, Completes(u, i, e, b)
  PROVE  Shape(u)'
<1>1. metadata[u] \in [Slots -> Metadata]
  BY DEF Typed, TypeOK
<1>2. /\ pc'[u] = "derived"
      /\ slot'[u] = i
      /\ metadata'[u] = [metadata[u] EXCEPT ![i] = e]
      /\ e.is_valid
      /\ pending'[u].to = "images"
  BY DEF Completes, Moves, Write, ToImages, Typed, TypeOK
<1>3. i \in Valid(metadata'[u])
  BY <1>1, <1>2 DEF Valid
<1> QED
  BY <1>2, <1>3 DEF Shape

LEMMA UpdatesShape ==
  ASSUME Typed, NEW u \in Users, NEW from \in {"image", "derived"}, NEW to,
         <<from, to>> \in {<<"image", "entry">>, <<"derived", "update">>},
         Shape(u), Updates(u, from, to)
  PROVE  Shape(u)'
<1>1. /\ pc[u] = from /\ pc'[u] = to
      /\ pending'[u] = ToEntry(slot[u], metadata[u][slot[u]])
      /\ slot' = slot /\ metadata' = metadata /\ call' = call
  BY DEF Updates, Moves, Write, Typed, TypeOK
<1> QED
  BY <1>1 DEF Shape

LEMMA EndsShape ==
  ASSUME Typed, NEW u \in Users, NEW from, NEW h, NEW w, Ends(u, from, h, w),
         w.to \in {"nothing", "header"}
  PROVE  Shape(u)'
<1>1. pc'[u] \in Rest /\ pending'[u] = w
  BY DEF Ends, Write, Typed, TypeOK
<1> QED
  BY <1>1 DEF Shape, Rest

Shaped == \A u \in Users : Shape(u)

LEMMA OthersShaped ==
  ASSUME Shaped, NEW u \in Users, OnlyOwn(u), Shape(u)'
  PROVE  Shaped'
<1> SUFFICES ASSUME NEW v \in Users \ {u}
             PROVE  Shape(v)'
  BY DEF Shaped
<1>1. /\ pc'[v] = pc[v]
      /\ metadata'[v] = metadata[v]
      /\ slot'[v] = slot[v]
      /\ pending'[v] = pending[v]
      /\ call'[v] = call[v]
  BY DEF OnlyOwn
<1>2. Shape(v)
  BY DEF Shaped
<1> QED
  BY <1>1, <1>2 DEF Shape

LEMMA NextShaped == Typed /\ Shaped /\ [Next]_vars => Shaped'
<1> SUFFICES ASSUME Typed, Shaped, [Next]_vars
             PROVE  Shaped'
  OBVIOUS
<1>1. ASSUME NEW u \in Users, UserStep(u)
      PROVE  Shaped'
  <2>0. Shape(u)
    BY DEF Shaped
  <2>1. CASE Open(u)
    <3>1. pc[u] = "off" /\ pc'[u] = "idle" /\ pending' = pending
      BY <2>1, OpenOwn DEF Open, Off
    <3> QED
      BY <2>0, <2>1, <3>1, OpenOwn, OthersShaped DEF Shape
  <2>2. CASE Close(u) \/ Kill(u)
    BY <2>2, GoneOwn, OthersShaped DEF Close, Kill, Shape, NoWrite
  <2>3. CASE Inside(u) /\ Effect(u)
    <3>1. CASE Idles(u)
      BY <2>0, <2>3, <3>1, IdlesShape, OthersShaped DEF Inside
    <3>2. ASSUME NEW i \in Slots, NEW e, NEW w,
                 Enters(u, i, e, "image"), Write(u, w), w.to = "images"
          PROVE  Shaped'
      <4>1. pending'[u] = w
        BY <3>2 DEF Write, Typed, TypeOK
      <4>2. Shape(u)'
        BY <3>2, <4>1, EntersShape
      <4> QED
        BY <2>3, <4>2, OthersShaped DEF Inside
    <3>e. ASSUME NEW i \in Slots, NEW e, Enters(u, i, e, "entry"), Write(u, ToEntry(i, e))
          PROVE  Shaped'
      <4>1. pending'[u] = ToEntry(i, e)
        BY <3>e DEF Write, Typed, TypeOK
      <4>2. Shape(u)'
        BY <3>e, <4>1, EntersShape
      <4> QED
        BY <2>3, <4>2, OthersShaped DEF Inside
    <3>3. ASSUME NEW id, NEW k, Clears(u, id, k)
          PROVE  Shaped'
      BY <2>3, <3>3, ClearsShape, OthersShaped DEF Inside
    <3>4. ASSUME NEW i \in Slots, NEW e, NEW b, Completes(u, i, e, b)
          PROVE  Shaped'
      BY <2>3, <3>4, CompletesShape, OthersShaped DEF Inside
    <3>5. CASE Updates(u, "image", "entry")
      BY <2>0, <2>3, <3>5, UpdatesShape, OthersShaped DEF Inside
    <3>6. CASE Updates(u, "derived", "update")
      BY <2>0, <2>3, <3>6, UpdatesShape, OthersShaped DEF Inside
    <3>7. ASSUME NEW from, NEW h, NEW w, Ends(u, from, h, w),
                 w = NoWrite \/ \E x : w = ToHeader(x)
          PROVE  Shaped'
      <4>1. w.to \in {"nothing", "header"}
        BY <3>7 DEF NoWrite, ToHeader
      <4> QED
        BY <2>3, <3>7, <4>1, EndsShape, OthersShaped DEF Inside
    <3> QED
      BY <2>3, <3>1, <3>2, <3>e, <3>3, <3>4, <3>5, <3>6, <3>7 DEF Effect
  <2> QED
    BY <1>1, <2>1, <2>2, <2>3, UserEffect
<1>2. CASE Interrupt
  <2>1. "server" \in Users /\ Gone("server")
    BY <1>2 DEF Users, Interrupt
  <2> QED
    BY <2>1, GoneOwn, OthersShaped DEF Shape, NoWrite
<1>3. CASE Create
  BY <1>3 DEF Create, copies, Shaped, Shape
<1>4. CASE UNCHANGED vars
  BY <1>4 DEF vars, copies, calling, Shaped, Shape
<1> QED
  BY <1>1, <1>2, <1>3, <1>4 DEF Next

-----------------------------------------------------------------------------
(* One process that has the file for itself. *)

\* What do_insert has stored is in the array.
Keeps(f) ==
  \A p \in kept : \E i \in Valid(f) : f[i].img_id = p[1] /\ f[i].SHA = p[2]

\* The copies of the process and the file differ by what it still has to write.
Current(u) ==
  /\ \A i \in Slots : SameSlot(metadata[u][i], IndexAhead(u)[i])
  /\ HeaderWith(pending[u]) = header[u]
  /\ pc[u] = "image" => slot[u] \notin Valid(disk_metadata)
  /\ pc[u] = "derived" =>
       /\ slot[u] \in Valid(disk_metadata)
       /\ disk_metadata[slot[u]].img_id = metadata[u][slot[u]].img_id
       /\ disk_metadata[slot[u]].SHA = metadata[u][slot[u]].SHA
  /\ Keeps(disk_metadata)
  /\ Keeps(IndexWith(pending[u]))

LEMMA WriteEffect ==
  ASSUME Typed, NEW u \in Users, NEW w, Write(u, w)
  PROVE  /\ pending'[u] = w
         /\ disk_header' = HeaderWith(pending[u])
         /\ disk_metadata' = IndexWith(pending[u])
         /\ data' = Stored(u)
  BY DEF Write, Flush, Stored, Typed, TypeOK

\* Between two calls the buffer holds no write to the array.
LEMMA RestAhead ==
  ASSUME NEW u \in Users, Shape(u), pc[u] \in {"off", "idle", "done"}
  PROVE  /\ IndexWith(pending[u]) = disk_metadata
         /\ IndexAhead(u) = disk_metadata
         /\ Stored(u) = data
<1>1. pending[u].to \in {"nothing", "header"}
  BY DEF Shape
<1> QED
  BY <1>1 DEF IndexWith, IndexAhead, Stored, DataWith

LEMMA SameSlotTrans ==
  ASSUME NEW m, NEW n, NEW o, SameSlot(m, n), SameSlot(n, o)
  PROVE  SameSlot(m, o)
  BY DEF SameSlot

LEMMA IdlesCurrent ==
  ASSUME Typed, NEW u \in Users, Shape(u), Current(u), Idles(u)
  PROVE  Current(u)'
<1>1. /\ pc[u] = "idle" /\ pc'[u] \in Rest
      /\ header' = header /\ kept' = kept
      /\ \A i \in Slots : SameSlot(metadata'[u][i], metadata[u][i])
  BY DEF Idles
<1>2. /\ IndexWith(pending[u]) = disk_metadata
      /\ IndexAhead(u) = disk_metadata
  BY <1>1, RestAhead
<1>3. /\ disk_metadata' = disk_metadata
      /\ HeaderWith(pending[u])' = header[u]
      /\ pending'[u].to \in {"nothing", "header"}
  <2>1. CASE UNCHANGED <<pending, disk>>
    BY <1>1, <2>1 DEF disk, Current, HeaderWith, Shape
  <2>2. CASE Write(u, NoWrite)
    BY <1>2, <2>2, WriteEffect DEF Current, HeaderWith, NoWrite
  <2> QED
    BY <2>1, <2>2 DEF Idles
<1>4. /\ IndexWith(pending[u])' = disk_metadata
      /\ IndexAhead(u)' = disk_metadata
  BY <1>1, <1>3 DEF IndexWith, IndexAhead, Rest
<1>5. \A i \in Slots : SameSlot(metadata'[u][i], disk_metadata[i])
  BY <1>1, <1>2, SameSlotTrans DEF Current
<1>6. Keeps(disk_metadata)' /\ Keeps(IndexWith(pending[u]))'
  BY <1>1, <1>3, <1>4 DEF Current, Keeps
<1> QED
  BY <1>1, <1>3, <1>4, <1>5, <1>6 DEF Current, Rest

\* What the file will hold once the entry is written.
LEMMA EntersIndex ==
  ASSUME Typed, NEW u \in Users, Shape(u), NEW i \in Slots, NEW e, NEW w,
         NEW phase \in {"image", "entry"}, Enters(u, i, e, phase), Write(u, w),
         phase = "image" => w.to = "images",
         phase = "entry" => w = ToEntry(i, e)
  PROVE  IndexAhead(u)' = [disk_metadata EXCEPT ![i] = e]
<1> DEFINE f == [disk_metadata EXCEPT ![i] = e]
<1>1. /\ pc[u] = "idle" /\ pc'[u] = phase
      /\ metadata'[u] = [metadata[u] EXCEPT ![i] = e]
      /\ slot'[u] = i
  BY DEF Enters, Moves
<1>2. metadata[u] \in [Slots -> Metadata]
  BY DEF Typed, TypeOK
<1>3. disk_metadata' = disk_metadata /\ pending'[u] = w
  BY <1>1, RestAhead, WriteEffect
<1>4. metadata'[u][i] = e
  BY <1>1, <1>2
<1>5. CASE phase = "image"
  <2>1. /\ pc'[u] = "image" /\ slot'[u] = i
        /\ pending'[u].to = "images"
        /\ disk_metadata' = disk_metadata
    BY <1>1, <1>3, <1>5
  <2>2. IndexWith(pending[u])' = disk_metadata
    BY <2>1 DEF IndexWith
  <2> QED
    BY <1>4, <2>1, <2>2 DEF IndexAhead
<1>6. CASE phase = "entry"
  <2>1. /\ pc'[u] = "entry"
        /\ pending'[u] = ToEntry(i, e)
        /\ disk_metadata' = disk_metadata
    BY <1>1, <1>3, <1>6
  <2> QED
    BY <2>1 DEF IndexAhead, IndexWith, ToEntry
<1> QED
  BY <1>5, <1>6

LEMMA EntersCurrent ==
  ASSUME Typed, NEW u \in Users, Shape(u), Current(u), NEW i \in Slots, NEW e, NEW w,
         NEW phase \in {"image", "entry"}, Enters(u, i, e, phase), Write(u, w),
         phase = "image" => w.to = "images",
         phase = "entry" => w = ToEntry(i, e)
  PROVE  Current(u)'
<1>1. /\ pc[u] = "idle" /\ pc'[u] = phase
      /\ i \in Slots \ Valid(metadata[u])
      /\ metadata'[u] = [metadata[u] EXCEPT ![i] = e]
      /\ slot'[u] = i
      /\ header' = header /\ kept' = kept
  BY DEF Enters, Moves
<1>2. /\ IndexWith(pending[u]) = disk_metadata
      /\ IndexAhead(u) = disk_metadata
  BY <1>1, RestAhead
<1>3. /\ disk_metadata' = disk_metadata
      /\ disk_header' = header[u]
      /\ pending'[u] = w
  BY <1>2, WriteEffect DEF Current
<1>4. disk_metadata \in [Slots -> Metadata] /\ metadata[u] \in [Slots -> Metadata]
  BY DEF Typed, TypeOK
<1>5. HeaderWith(pending[u])' = header'[u]
  BY <1>1, <1>3 DEF HeaderWith, ToEntry
<1> DEFINE f == [disk_metadata EXCEPT ![i] = e]
<1>a. metadata'[u][i] = e
  BY <1>1, <1>4
<1>6. IndexAhead(u)' = f
  BY EntersIndex
<1>7. IndexWith(pending[u])' = disk_metadata \/ IndexWith(pending[u])' = f
  <2>1. CASE phase = "image"
    <3>1. pending'[u].to = "images" /\ disk_metadata' = disk_metadata
      BY <1>3, <2>1
    <3>2. IndexWith(pending[u])' = disk_metadata
      BY <3>1 DEF IndexWith
    <3> QED
      BY <3>2
  <2>2. CASE phase = "entry"
    <3>1. pending'[u] = ToEntry(i, e) /\ disk_metadata' = disk_metadata
      BY <1>3, <2>2
    <3>2. IndexWith(pending[u])' = f
      BY <3>1 DEF IndexWith, ToEntry
    <3> QED
      BY <3>2
  <2> QED
    BY <2>1, <2>2
<1>8. \A j \in Slots : SameSlot(metadata[u][j], disk_metadata[j])
  BY <1>2 DEF Current
<1>9. \A j \in Slots : SameSlot(metadata'[u][j], IndexAhead(u)'[j])
  BY <1>1, <1>4, <1>6, <1>8 DEF SameSlot
<1>10. i \notin Valid(disk_metadata)
  BY <1>1, <1>8 DEF SameSlot, Valid
<1>11. Keeps(disk_metadata)'
  BY <1>1, <1>3 DEF Current, Keeps
<1>12. Keeps(IndexWith(pending[u]))'
  <2>1. \A j \in Valid(disk_metadata) :
          /\ j \in Valid(f)
          /\ f[j] = disk_metadata[j]
    BY <1>4, <1>10 DEF Valid
  <2>2. Keeps(disk_metadata)
    BY DEF Current
  <2> HIDE DEF f
  <2>3. Keeps(f)
    BY <2>1, <2>2 DEF Keeps
  <2>4. CASE IndexWith(pending[u])' = disk_metadata
    BY <1>1, <2>2, <2>4 DEF Keeps
  <2>5. CASE IndexWith(pending[u])' = f
    BY <1>1, <2>3, <2>5 DEF Keeps
  <2> QED
    BY <1>7, <2>4, <2>5
<1> QED
  BY <1>1, <1>3, <1>5, <1>9, <1>10, <1>11, <1>12 DEF Current

LEMMA ClearsIndex ==
  ASSUME Typed, NEW u \in Users, NEW id, NEW k, Clears(u, id, k)
  PROVE  LET i == First(Named(metadata[u], id))
             f == [metadata[u] EXCEPT ![i].is_valid = FALSE]
         IN  IndexWith(pending[u])' = f /\ IndexAhead(u)' = f
<1> DEFINE i == First(Named(metadata[u], id))
           f == [metadata[u] EXCEPT ![i].is_valid = FALSE]
<1>1. /\ pc'[u] = "array"
      /\ f \in [Slots -> Metadata]
      /\ pending'[u] = ToArray(k, f)
      /\ disk_metadata' = [j \in Slots |-> IF j < k THEN f[j] ELSE IndexWith(pending[u])[j]]
  BY DEF Clears, Moves
<1> HIDE DEF f, i
<1>2. IndexWith(pending[u])' = f
  <2>1. /\ pending'[u].to = "array"
        /\ pending'[u].from = k
        /\ pending'[u].index = f
    BY <1>1 DEF ToArray
  <2>2. IndexWith(pending[u])' = [j \in Slots |-> IF j < k THEN disk_metadata'[j] ELSE f[j]]
    BY <2>1 DEF IndexWith
  <2>3. \A j \in Slots : j < k => disk_metadata'[j] = f[j]
    BY <1>1
  <2> QED
    BY <1>1, <2>2, <2>3
<1>3. IndexAhead(u)' = f
  BY <1>1, <1>2 DEF IndexAhead
<1> QED
  BY <1>2, <1>3 DEF f, i

LEMMA ClearsCurrent ==
  ASSUME Typed, NEW u \in Users, Shape(u), Current(u), NEW id, NEW k, Clears(u, id, k)
  PROVE  Current(u)'
<1> DEFINE i == First(Named(metadata[u], id))
           f == [metadata[u] EXCEPT ![i].is_valid = FALSE]
<1>1. /\ pc[u] = "idle" /\ pc'[u] = "array"
      /\ k \in Nat
      /\ i \in Named(metadata[u], id)
      /\ f \in [Slots -> Metadata]
      /\ metadata'[u] = f
      /\ pending'[u] = ToArray(k, f)
      /\ disk_header' = HeaderWith(pending[u])
      /\ disk_metadata' = [j \in Slots |-> IF j < k THEN f[j] ELSE IndexWith(pending[u])[j]]
      /\ kept' = {p \in kept : p[1] # id}
      /\ header' = header
  BY DEF Clears, Moves
<1>2. /\ IndexWith(pending[u]) = disk_metadata
      /\ IndexAhead(u) = disk_metadata
  BY <1>1, RestAhead
<1>3. metadata[u] \in [Slots -> Metadata] /\ disk_metadata \in [Slots -> Metadata]
  BY DEF Typed, TypeOK
<1>4. \A j \in Slots : SameSlot(metadata[u][j], disk_metadata[j])
  BY <1>2 DEF Current
\* The entries that remain are the same in all copies of the array.
<1>5. ASSUME NEW j \in Valid(disk_metadata), disk_metadata[j].img_id # id
      PROVE  /\ j \in Valid(f) /\ f[j] = disk_metadata[j]
             /\ j \in Valid(disk_metadata') /\ disk_metadata'[j] = disk_metadata[j]
  <2>1. j \in Slots /\ metadata[u][j] = disk_metadata[j]
    BY <1>4, <1>5 DEF Valid, SameSlot
  <2>2. j # i
    BY <1>1, <1>5, <2>1 DEF Named
  <2>3. f[j] = metadata[u][j]
    BY <1>3, <2>1, <2>2
  <2>4. disk_metadata'[j] = disk_metadata[j]
    BY <1>1, <1>2, <2>1, <2>3
  <2> QED
    BY <1>5, <2>1, <2>3, <2>4 DEF Valid
<1>6. /\ HeaderWith(pending[u])' = header'[u]
  BY <1>1 DEF HeaderWith, ToArray, Current
<1> HIDE DEF f, i
<1>7. IndexWith(pending[u])' = f /\ IndexAhead(u)' = f
  BY ClearsIndex DEF f, i
<1>8. Keeps(disk_metadata)' /\ Keeps(IndexWith(pending[u]))'
  <2>1. Keeps(disk_metadata)
    BY DEF Current
  <2>2. \A p \in kept' : p \in kept /\ p[1] # id
    BY <1>1
  <2>3. Keeps(disk_metadata)'
    BY <1>5, <2>1, <2>2 DEF Keeps
  <2>4. Keeps(IndexWith(pending[u]))'
    BY <1>5, <1>7, <2>1, <2>2 DEF Keeps
  <2> QED
    BY <2>3, <2>4
<1> QED
  BY <1>1, <1>6, <1>7, <1>8 DEF Current, SameSlot

LEMMA CompletesCurrent ==
  ASSUME Typed, NEW u \in Users, Shape(u), Current(u), NEW i \in Slots, NEW e, NEW b,
         Completes(u, i, e, b)
  PROVE  Current(u)'
<1>1. /\ pc[u] = "idle" /\ pc'[u] = "derived"
      /\ i \in Valid(metadata[u])
      /\ e.img_id = metadata[u][i].img_id
      /\ e.SHA = metadata[u][i].SHA
      /\ metadata'[u] = [metadata[u] EXCEPT ![i] = e]
      /\ slot'[u] = i
      /\ header' = header /\ kept' = kept
  BY DEF Completes, Moves
<1>2. /\ IndexWith(pending[u]) = disk_metadata
      /\ IndexAhead(u) = disk_metadata
  BY <1>1, RestAhead
<1>3. /\ disk_metadata' = disk_metadata
      /\ disk_header' = header[u]
      /\ pending'[u].to = "images"
  BY <1>2, WriteEffect DEF Completes, Current, ToImages
<1>4. disk_metadata \in [Slots -> Metadata] /\ metadata[u] \in [Slots -> Metadata]
  BY DEF Typed, TypeOK
<1>5. HeaderWith(pending[u])' = header'[u]
  BY <1>1, <1>3 DEF HeaderWith
<1>6. IndexWith(pending[u])' = disk_metadata
  BY <1>3 DEF IndexWith
<1>7. metadata'[u][i] = e
  BY <1>1, <1>4
<1>8. IndexAhead(u)' = [disk_metadata EXCEPT ![i] = e]
  BY <1>1, <1>6, <1>7 DEF IndexAhead
<1>9. \A j \in Slots : SameSlot(metadata[u][j], disk_metadata[j])
  BY <1>2 DEF Current
<1>10. \A j \in Slots : SameSlot(metadata'[u][j], IndexAhead(u)'[j])
  BY <1>1, <1>4, <1>8, <1>9 DEF SameSlot
<1>11. /\ i \in Valid(disk_metadata)
       /\ disk_metadata[i].img_id = e.img_id
       /\ disk_metadata[i].SHA = e.SHA
  BY <1>1, <1>9 DEF SameSlot, Valid
<1>12. Keeps(disk_metadata)' /\ Keeps(IndexWith(pending[u]))'
  BY <1>1, <1>3, <1>6 DEF Current, Keeps
<1> QED
  BY <1>1, <1>3, <1>5, <1>7, <1>10, <1>11, <1>12 DEF Current

\* An entry that has been written leaves those of the other images, and its own.
LEMMA EntryKeeps ==
  ASSUME NEW f \in [Slots -> Metadata], NEW i \in Slots, NEW e, e.is_valid, Keeps(f),
         i \in Valid(f) => f[i].img_id = e.img_id /\ f[i].SHA = e.SHA
  PROVE  Keeps([f EXCEPT ![i] = e])
<1> DEFINE g == [f EXCEPT ![i] = e]
<1>1. g[i] = e /\ i \in Valid(g)
  BY DEF Valid
<1>2. \A j \in Valid(f) : /\ j \in Valid(g)
                          /\ g[j].img_id = f[j].img_id
                          /\ g[j].SHA = f[j].SHA
  BY <1>1 DEF Valid
<1> HIDE DEF g
<1>3. Keeps(g)
  BY <1>2 DEF Keeps
<1> QED
  BY <1>3 DEF g

LEMMA UpdatesCurrent ==
  ASSUME Typed, NEW u \in Users, Shape(u), Current(u), NEW from, NEW to,
         <<from, to>> \in {<<"image", "entry">>, <<"derived", "update">>},
         Updates(u, from, to)
  PROVE  Current(u)'
<1> DEFINE i == slot[u]
           m == metadata[u][i]
<1>1. /\ pc[u] = from /\ pc'[u] = to
      /\ Write(u, ToEntry(i, m))
      /\ header' = header /\ metadata' = metadata /\ slot' = slot /\ kept' = kept
  BY DEF Updates, Moves
<1>2. from \in {"image", "derived"} /\ to \in {"entry", "update"}
  OBVIOUS
<1>3. pending[u].to = "images" /\ i \in Valid(metadata[u])
  BY <1>1, <1>2 DEF Shape
<1>4. /\ IndexWith(pending[u]) = disk_metadata
      /\ HeaderWith(pending[u]) = disk_header
      /\ IndexAhead(u) = [disk_metadata EXCEPT ![i] = m]
  BY <1>1, <1>2, <1>3 DEF IndexWith, HeaderWith, IndexAhead
<1>5. /\ pending'[u] = ToEntry(i, m)
      /\ disk_header' = disk_header
      /\ disk_metadata' = disk_metadata
  BY <1>1, <1>4, WriteEffect
<1>6. /\ IndexWith(pending[u])' = [disk_metadata EXCEPT ![i] = m]
      /\ HeaderWith(pending[u])' = disk_header
  BY <1>5 DEF IndexWith, HeaderWith, ToEntry
<1>7. IndexAhead(u)' = IndexAhead(u)
  BY <1>1, <1>2, <1>4, <1>6 DEF IndexAhead
<1>8. Keeps([disk_metadata EXCEPT ![i] = m])
  <2>1. /\ disk_metadata \in [Slots -> Metadata]
        /\ i \in Slots /\ m.is_valid
    BY <1>3 DEF Typed, TypeOK, Valid
  <2>2. i \in Valid(disk_metadata) =>
          disk_metadata[i].img_id = m.img_id /\ disk_metadata[i].SHA = m.SHA
    BY <1>1, <1>2 DEF Current
  <2>3. Keeps(disk_metadata)
    BY DEF Current
  <2> HIDE DEF i, m
  <2> QED
    BY <2>1, <2>2, <2>3, EntryKeeps
<1> DEFINE f == [disk_metadata EXCEPT ![i] = m]
<1>9. Keeps(disk_metadata)' /\ Keeps(IndexWith(pending[u]))'
  <2>1. kept' = kept /\ disk_metadata' = disk_metadata
    BY <1>1, <1>5
  <2>2. Keeps(disk_metadata) /\ Keeps(f) /\ IndexWith(pending[u])' = f
    BY <1>6, <1>8 DEF Current
  <2> HIDE DEF f
  <2> QED
    BY <2>1, <2>2 DEF Keeps
<1> QED
  BY <1>1, <1>2, <1>4, <1>6, <1>7, <1>9 DEF Current

LEMMA EndsCurrent ==
  ASSUME Typed, NEW u \in Users, Shape(u), Current(u),
         NEW from \in {"entry", "array", "update"}, NEW h, NEW w,
         Ends(u, from, h, w),
         w = ToHeader(h) \/ (w = NoWrite /\ h = header[u]),
         \/ UNCHANGED kept
         \/ /\ from = "entry"
            /\ kept' = kept \union {<<call[u].id, call[u].arg>>}
  PROVE  Current(u)'
<1> DEFINE f == IndexWith(pending[u])
<1>1. /\ pc[u] = from /\ pc'[u] \in Rest
      /\ header'[u] = h
      /\ Write(u, w)
      /\ metadata' = metadata
  BY DEF Ends
<1>2. IndexAhead(u) = f
  BY <1>1 DEF IndexAhead
<1>3. /\ pending'[u] = w
      /\ disk_header' = header[u]
      /\ disk_metadata' = f
  BY <1>1, WriteEffect DEF Current
<1>4. /\ IndexWith(pending[u])' = f
      /\ HeaderWith(pending[u])' = h
  BY <1>3 DEF IndexWith, HeaderWith, ToHeader, NoWrite
<1>5. IndexAhead(u)' = f
  BY <1>1, <1>4 DEF IndexAhead, Rest
<1>6. \A p \in kept' : \E i \in Valid(f) : f[i].img_id = p[1] /\ f[i].SHA = p[2]
  <2>1. CASE kept' = kept
    BY <2>1 DEF Current, Keeps
  <2>2. CASE from = "entry" /\ kept' = kept \union {<<call[u].id, call[u].arg>>}
    <3> DEFINE i == slot[u]
               m == metadata[u][i]
    <3>1. /\ pending[u] = ToEntry(i, m)
          /\ i \in Valid(metadata[u])
          /\ m.img_id = call[u].id
          /\ m.SHA = call[u].arg
      BY <1>1, <2>2 DEF Shape
    <3>2. disk_metadata \in [Slots -> Metadata] /\ i \in Slots
      BY DEF Typed, TypeOK
    <3>3. f = [disk_metadata EXCEPT ![i] = m]
      BY <3>1 DEF IndexWith, ToEntry
    <3>4. i \in Valid(f) /\ f[i] = m
      BY <3>1, <3>2, <3>3 DEF Valid
    <3>5. Keeps(f)
      BY DEF Current
    <3> HIDE DEF f, m, i
    <3> QED
      BY <2>2, <3>1, <3>4, <3>5 DEF Keeps
  <2> QED
    BY <2>1, <2>2
<1>7. Keeps(disk_metadata)' /\ Keeps(IndexWith(pending[u]))'
  BY <1>3, <1>4, <1>6 DEF Keeps
<1>8. \A i \in Slots : SameSlot(metadata'[u][i], f[i])
  BY <1>1, <1>2 DEF Current
<1> QED
  BY <1>1, <1>4, <1>5, <1>7, <1>8 DEF Current, Rest

LEMMA OpenCurrent ==
  ASSUME Typed, NEW u \in Users, Forgotten, Keeps(disk_metadata), Open(u)
  PROVE  Current(u)' /\ Keeps(disk_metadata)'
<1>1. /\ pending[u] = NoWrite
      /\ pending' = pending
      /\ UNCHANGED <<disk_header, disk_metadata, kept>>
  BY DEF Open, Forgotten, disk
<1>2. /\ header'[u] = disk_header
      /\ metadata'[u] = disk_metadata
      /\ pc'[u] = "idle"
  BY DEF Open, Goes, Typed, TypeOK
<1>3. /\ IndexWith(pending[u])' = disk_metadata
      /\ HeaderWith(pending[u])' = disk_header
  BY <1>1 DEF IndexWith, HeaderWith, NoWrite
<1>4. IndexAhead(u)' = disk_metadata
  BY <1>2, <1>3 DEF IndexAhead
<1>5. Keeps(disk_metadata)' /\ Keeps(IndexWith(pending[u]))'
  BY <1>1, <1>3 DEF Keeps
<1> QED
  BY <1>2, <1>3, <1>4, <1>5 DEF Current, SameSlot

LEMMA GoneKeeps ==
  ASSUME Typed, NEW u \in Users, Current(u), Gone(u), Flush(u) \/ UNCHANGED disk
  PROVE  Keeps(disk_metadata)'
<1>1. kept' = kept
  BY DEF Gone
<1>2. disk_metadata' = disk_metadata \/ disk_metadata' = IndexWith(pending[u])
  BY DEF Flush, disk
<1> QED
  BY <1>1, <1>2 DEF Current, Keeps

\* Nobody else has the file open, and the one who has it knows what it holds.
Alone ==
  /\ \A u, v \in Users : u # v => Off(u) \/ Off(v)
  /\ Keeps(disk_metadata)
  /\ \A u \in Users : ~Off(u) => Current(u)

LEMMA StaysAlone ==
  ASSUME Alone, NEW u \in Users, ~Off(u), OnlyOwn(u), Off(u)' \/ Current(u)',
         Keeps(disk_metadata)'
  PROVE  Alone'
<1>1. \A v \in Users \ {u} : Off(v) /\ Off(v)'
  BY DEF Alone, OnlyOwn, Off
<1>2. \A v \in Users : ~Off(v)' => v = u
  BY <1>1
<1>3. ASSUME NEW v \in Users, ~Off(v)'
      PROVE  Current(v)'
  BY <1>2, <1>3
<1>4. \A v, w \in Users : v # w => Off(v)' \/ Off(w)'
  BY <1>2
<1> QED
  BY <1>3, <1>4 DEF Alone

LEMMA NextAlone ==
  ASSUME Typed, Shaped, Forgotten, ~overlapped => Alone, [Next]_vars, ~overlapped'
  PROVE  Alone'
<1>1. ASSUME NEW u \in Users, Inside(u), Effect(u)
      PROVE  Alone'
  <2>1. overlapped' = overlapped
    BY <1>1 DEF Effect, Idles, Enters, Clears, Completes, Updates, Ends
  <2>2. Alone /\ Current(u) /\ Shape(u) /\ OnlyOwn(u) /\ ~Off(u)
    BY <1>1, <2>1 DEF Alone, Shaped, Inside
  <2>3. Current(u)'
    <3>1. ASSUME NEW i \in Slots, NEW e, NEW w,
                 Enters(u, i, e, "image"), Write(u, w), w.to = "images"
          PROVE  Current(u)'
      BY <2>2, <3>1, EntersCurrent
    <3>2. ASSUME NEW i \in Slots, NEW e, Enters(u, i, e, "entry"), Write(u, ToEntry(i, e))
          PROVE  Current(u)'
      BY <2>2, <3>2, EntersCurrent
    <3>3. ASSUME NEW id, NEW k, Clears(u, id, k)
          PROVE  Current(u)'
      BY <2>2, <3>3, ClearsCurrent
    <3>4. ASSUME NEW i \in Slots, NEW e, NEW b, Completes(u, i, e, b)
          PROVE  Current(u)'
      BY <2>2, <3>4, CompletesCurrent
    <3>5. CASE Updates(u, "image", "entry")
      BY <2>2, <3>5, UpdatesCurrent
    <3>6. CASE Updates(u, "derived", "update")
      BY <2>2, <3>6, UpdatesCurrent
    <3>7. CASE Idles(u)
      BY <2>2, <3>7, IdlesCurrent
    <3>8. ASSUME Ends(u, "entry", Mine(u)!BumpInsert, ToHeader(Mine(u)!BumpInsert)),
                 kept' = kept \union {<<call[u].id, call[u].arg>>}
          PROVE  Current(u)'
      BY <2>2, <3>8, EndsCurrent
    <3>9. ASSUME Ends(u, "array", Mine(u)!BumpDelete, ToHeader(Mine(u)!BumpDelete)),
                  kept' = kept
           PROVE  Current(u)'
      BY <2>2, <3>9, EndsCurrent
    <3>10. ASSUME Ends(u, "update", header[u], NoWrite), kept' = kept
           PROVE  Current(u)'
      BY <2>2, <3>10, EndsCurrent
    <3> QED
      BY <1>1, <3>1, <3>2, <3>3, <3>4, <3>5, <3>6, <3>7, <3>8, <3>9, <3>10 DEF Effect
  <2>4. Keeps(disk_metadata)'
    BY <2>3 DEF Current
  <2> QED
    BY <2>2, <2>3, <2>4, StaysAlone
<1>2. ASSUME NEW u \in Users, Gone(u), ~Off(u), Flush(u) \/ UNCHANGED disk
      PROVE  Alone'
  <2>1. Alone /\ Current(u)
    BY <1>2 DEF Gone, Alone
  <2>2. OnlyOwn(u) /\ Off(u)'
    BY <1>2, GoneOwn DEF Off
  <2> QED
    BY <1>2, <2>1, <2>2, GoneKeeps, StaysAlone
<1>3. ASSUME NEW u \in Users, UserStep(u)
      PROVE  Alone'
  <2>1. CASE Open(u)
    <3>1. ~overlapped /\ \A v \in Users : Off(v)
      BY <2>1, Zenon DEF Open
    <3>2. Current(u)' /\ Keeps(disk_metadata)'
      BY <2>1, <3>1, OpenCurrent DEF Alone
    <3>3. \A v \in Users \ {u} : Off(v)'
      BY <2>1, <3>1, OpenOwn DEF OnlyOwn, Off
    <3>4. \A v, w \in Users : v # w => Off(v)' \/ Off(w)'
      BY <3>3
    <3>5. ASSUME NEW v \in Users, ~Off(v)'
          PROVE  Current(v)'
      BY <3>2, <3>3, <3>5
    <3> QED
      BY <3>2, <3>4, <3>5 DEF Alone
  <2>2. CASE Close(u) \/ Kill(u)
    <3>1. ~Off(u)
      BY <2>2 DEF Close, Kill, Off
    <3> QED
      BY <1>2, <2>2, <3>1 DEF Close, Kill
  <2> QED
    BY <1>1, <1>3, <2>1, <2>2, UserEffect
<1>4. CASE Interrupt
  <2>1. "server" \in Users
    BY DEF Users
  <2> QED
    BY <1>2, <1>4, <2>1 DEF Interrupt
<1>5. CASE Create
  <2>1. \A u \in Users : Off(u)'
    BY <1>5 DEF Create, Off
  <2>2. Keeps(disk_metadata)'
    BY <1>5 DEF Create, Keeps
  <2> QED
    BY <2>1, <2>2 DEF Alone
<1>6. CASE UNCHANGED vars
  <2>1. /\ UNCHANGED <<pc, header, metadata, slot, pending, disk_header, disk_metadata>>
        /\ UNCHANGED <<kept, overlapped>>
    BY <1>6 DEF vars, copies, disk, calling, history
  <2>2. \A u \in Users : /\ IndexWith(pending[u])' = IndexWith(pending[u])
                         /\ HeaderWith(pending[u])' = HeaderWith(pending[u])
    BY <2>1 DEF IndexWith, HeaderWith
  <2>3. \A u \in Users : IndexAhead(u)' = IndexAhead(u)
    BY <2>1, <2>2 DEF IndexAhead
  <2>4. Alone
    BY <2>1
  <2>5. Keeps(disk_metadata)' /\ \A u \in Users : Off(u)' = Off(u)
    BY <2>1, <2>4 DEF Alone, Keeps, Off
  <2>6. ASSUME NEW u \in Users, ~Off(u)'
        PROVE  Current(u)'
    <3>1. Current(u)
      BY <2>4, <2>5, <2>6 DEF Alone
    <3>2. Keeps(IndexWith(pending[u]))'
      BY <2>1, <2>2, <3>1 DEF Current, Keeps
    <3> QED
      BY <2>1, <2>2, <2>3, <2>5, <3>1, <3>2 DEF Current
  <2> QED
    BY <2>4, <2>5, <2>6 DEF Alone
<1> QED
  BY <1>3, <1>4, <1>5, <1>6 DEF Next

Sole == ~overlapped => Alone

\* The inductive invariant for the calls of a process that nobody disturbs.
Told == Typed /\ Forgotten /\ Shaped /\ Sole

LEMMA InitTold == Init => Told
<1> SUFFICES ASSUME Init
             PROVE  Told
  OBVIOUS
<1>1. Typed
  BY InitTyped
<1>2. Forgotten
  BY DEF Init, Forgotten
<1>3. Shaped
  BY DEF Init, Shaped, Shape, NoWrite
<1>4. Alone
  BY DEF Init, Alone, Off, Keeps
<1> QED
  BY <1>1, <1>2, <1>3, <1>4 DEF Told, Sole

LEMMA NextTold == Told /\ [Next]_vars => Told'
  BY NextTyped, NextForgotten, NextShaped, NextAlone DEF Told, Sole

\* An image whose insertion has returned is in the file, whatever ends the
\* processes that use it one after the other.
THEOREM InsertedSurvives == Spec => []KeptSurvives
<1>1. Told => KeptSurvives
  BY DEF Told, Sole, Alone, Keeps, KeptSurvives
<1> QED
  BY <1>1, InitTold, NextTold, PTL DEF Spec

-----------------------------------------------------------------------------
(* The number of images in the header. *)

\* The counter n is c or less away from the number m, up to its width.
Near(n, m, c) ==
  \E d \in -c .. c, k \in Int : n + k * (UINT32_MAX + 1) = m + d

LEMMA NearIsModulo ==
  ASSUME NEW n \in 0 .. UINT32_MAX, NEW m \in Int, NEW c \in Nat, Near(n, m, c)
  PROVE  \E d \in -c .. c : n = (m + d) % (UINT32_MAX + 1)
<1> DEFINE w == UINT32_MAX + 1
<1>1. w \in Nat \ {0} /\ n \in 0 .. w - 1
  BY MaxFilesAssumption
<1>2. PICK d \in -c .. c, k \in Int : n + k * w = m + d
  BY DEF Near
<1> HIDE DEF w
<1>3. (n + (k * w)) % w = n
  BY <1>1
<1>4. n = (m + d) % w
  BY <1>2, <1>3
<1> QED
  BY <1>4 DEF w

\* What the increments, the decrements and one image more or less make of it.
LEMMA NearSteps ==
  ASSUME NEW n \in 0 .. UINT32_MAX, NEW m \in Int, NEW c \in Nat
  PROVE  /\ Near(n, m, c) => /\ Near(n, m, c + 1)
                             /\ Near(n, m + 1, c + 1)
                             /\ Near(n, m - 1, c + 1)
                             /\ Near(Inc(n), m + 1, c)
                             /\ Near(Dec(n), m - 1, c)
         /\ Near(Inc(n), m, c) => Near(n, m, c + 1)
         /\ Near(Dec(n), m, c) => Near(n, m, c + 1)
<1> DEFINE w == UINT32_MAX + 1
<1>w. w \in Nat /\ UINT32_MAX \in Nat /\ UINT32_MAX = w - 1
  BY MaxFilesAssumption
<1>1. Inc(n) + w = n + 1 \/ Inc(n) = n + 1
  BY <1>w DEF Inc
<1>2. Dec(n) = n - 1 + w \/ Dec(n) = n - 1
  BY <1>w DEF Dec
<1>3. Inc(n) \in Int /\ Dec(n) \in Int
  BY <1>w DEF Inc, Dec
<1> HIDE DEF w
<1> DEFINE Laps == {k * w : k \in Int}
<1>4. \A p \in Laps : p \in Int /\ p + w \in Laps /\ p - w \in Laps
  <2> SUFFICES ASSUME NEW k \in Int
               PROVE  k * w \in Int /\ k * w + w \in Laps /\ k * w - w \in Laps
    OBVIOUS
  <2>1. k + 1 \in Int /\ k - 1 \in Int
    OBVIOUS
  <2>2. k * w \in Int /\ (k + 1) * w = k * w + w /\ (k - 1) * w = k * w - w
    BY <1>w
  <2> QED
    BY <2>1, <2>2
<1>n. \A x, y, z : Near(x, y, z) <=> \E d \in -z .. z, p \in Laps : x + p = y + d
  BY DEF Near, w
<1> HIDE DEF Laps
<1>5. ASSUME Near(n, m, c)
      PROVE  /\ Near(n, m, c + 1)
             /\ Near(n, m + 1, c + 1)
             /\ Near(n, m - 1, c + 1)
             /\ Near(Inc(n), m + 1, c)
             /\ Near(Dec(n), m - 1, c)
  <2>1. PICK d \in -c .. c, p \in Laps : n + p = m + d
    BY <1>5, <1>n
  <2>2. /\ d \in -(c + 1) .. c + 1
        /\ d - 1 \in -(c + 1) .. c + 1
        /\ d + 1 \in -(c + 1) .. c + 1
    OBVIOUS
  <2>3. n + p = (m + 1) + (d - 1) /\ n + p = (m - 1) + (d + 1)
    BY <1>4, <2>1
  <2>4. Near(n, m, c + 1) /\ Near(n, m + 1, c + 1) /\ Near(n, m - 1, c + 1)
    BY <1>n, <2>1, <2>2, <2>3
  <2>5. Near(Inc(n), m + 1, c)
    <3>1. \/ Inc(n) + p = (m + 1) + d
          \/ Inc(n) + (p + w) = (m + 1) + d
      BY <1>1, <1>3, <1>4, <1>w, <2>1
    <3> QED
      BY <1>4, <1>n, <3>1
  <2>6. Near(Dec(n), m - 1, c)
    <3>1. \/ Dec(n) + p = (m - 1) + d
          \/ Dec(n) + (p - w) = (m - 1) + d
      BY <1>2, <1>3, <1>4, <1>w, <2>1
    <3> QED
      BY <1>4, <1>n, <3>1
  <2> QED
    BY <2>4, <2>5, <2>6
<1>6. ASSUME Near(Inc(n), m, c)
      PROVE  Near(n, m, c + 1)
  <2>1. PICK d \in -c .. c, p \in Laps : Inc(n) + p = m + d
    BY <1>6, <1>n
  <2>2. d - 1 \in -(c + 1) .. c + 1
    OBVIOUS
  <2>3. \/ n + p = m + (d - 1)
        \/ n + (p - w) = m + (d - 1)
    BY <1>1, <1>3, <1>4, <1>w, <2>1
  <2> QED
    BY <1>4, <1>n, <2>2, <2>3
<1>7. ASSUME Near(Dec(n), m, c)
      PROVE  Near(n, m, c + 1)
  <2>1. PICK d \in -c .. c, p \in Laps : Dec(n) + p = m + d
    BY <1>7, <1>n
  <2>2. d + 1 \in -(c + 1) .. c + 1
    OBVIOUS
  <2>3. \/ n + p = m + (d + 1)
        \/ n + (p + w) = m + (d + 1)
    BY <1>2, <1>3, <1>4, <1>w, <2>1
  <2> QED
    BY <1>4, <1>n, <2>2, <2>3
<1> QED
  BY <1>5, <1>6, <1>7

Count(f) == Cardinality(Valid(f))

LEMMA CountSteps ==
  ASSUME NEW f \in [Slots -> Metadata]
  PROVE  /\ Count(f) \in Int
         /\ \A i \in Slots \ Valid(f), e \in Metadata :
              e.is_valid => Count([f EXCEPT ![i] = e]) = Count(f) + 1
         /\ \A i \in Valid(f) : Count([f EXCEPT ![i].is_valid = FALSE]) = Count(f) - 1
<1>1. Count(f) \in Int
  BY ValidFinite DEF Count
<1>2. ASSUME NEW i \in Slots \ Valid(f), NEW e \in Metadata, e.is_valid
      PROVE  Count([f EXCEPT ![i] = e]) = Count(f) + 1
  <2>1. Valid([f EXCEPT ![i] = e]) = Valid(f) \union {i}
    BY <1>2 DEF Valid
  <2> QED
    BY <2>1, ValidFinite, FS_AddElement DEF Count
<1>3. ASSUME NEW i \in Valid(f)
      PROVE  Count([f EXCEPT ![i].is_valid = FALSE]) = Count(f) - 1
  <2>1. Valid([f EXCEPT ![i].is_valid = FALSE]) = Valid(f) \ {i}
    BY DEF Valid, Metadata
  <2> QED
    BY <2>1, ValidFinite, FS_RemoveElement DEF Count
<1> QED
  BY <1>1, <1>2, <1>3

\* Arrays that show the same entries have the same number of them.
LEMMA SameCount ==
  ASSUME NEW f \in [Slots -> Metadata], NEW g \in [Slots -> Metadata],
         \A i \in Slots : SameSlot(f[i], g[i])
  PROVE  Count(f) = Count(g)
  BY SameValid DEF Count

\* What the number of images is off by: in the copy of the process when the call
\* has returned, in the file as it is, and in the file when it is closed now.
Drift(u) ==
  /\ Near(HeaderAhead(u).nb_files, Count(metadata[u]), cuts)
  /\ Near(disk_header.nb_files, Count(disk_metadata), cuts + 1)
  /\ Near(header[u].nb_files, Count(IndexWith(pending[u])), cuts + 1)

LEMMA AheadCount ==
  ASSUME NEW u \in Users
  PROVE  HeaderAhead(u).nb_files =
           CASE pc[u] \in {"image", "entry"} -> Inc(header[u].nb_files)
             [] pc[u] = "array" -> Dec(header[u].nb_files)
             [] OTHER -> header[u].nb_files
<1>1. /\ Mine(u)!BumpInsert.nb_files = Inc(header[u].nb_files)
      /\ Mine(u)!BumpDelete.nb_files = Dec(header[u].nb_files)
  BY DEF Mine!BumpInsert, Mine!BumpDelete, Mine!Inc, Mine!Dec, Inc, Dec
<1>2. CASE pc[u] \in {"image", "entry"}
  BY <1>1, <1>2 DEF HeaderAhead
<1>3. CASE pc[u] = "array"
  BY <1>1, <1>3 DEF HeaderAhead
<1>4. CASE pc[u] \notin {"image", "entry", "array"}
  BY <1>4 DEF HeaderAhead
<1> QED
  BY <1>2, <1>3, <1>4

\* After the step the header ahead is this.
LEMMA AheadCountNext ==
  ASSUME NEW u \in Users
  PROVE  HeaderAhead(u)'.nb_files =
           CASE pc'[u] \in {"image", "entry"} -> Inc(header'[u].nb_files)
             [] pc'[u] = "array" -> Dec(header'[u].nb_files)
             [] OTHER -> header'[u].nb_files
<1>1. /\ (Mine(u)!BumpInsert)'.nb_files = Inc(header'[u].nb_files)
      /\ (Mine(u)!BumpDelete)'.nb_files = Dec(header'[u].nb_files)
  BY DEF Mine!BumpInsert, Mine!BumpDelete, Mine!Inc, Mine!Dec, Inc, Dec
<1>2. CASE pc'[u] \in {"image", "entry"}
  BY <1>1, <1>2 DEF HeaderAhead
<1>3. CASE pc'[u] = "array"
  BY <1>1, <1>3 DEF HeaderAhead
<1>4. CASE pc'[u] \notin {"image", "entry", "array"}
  BY <1>4 DEF HeaderAhead
<1> QED
  BY <1>2, <1>3, <1>4

LEMMA Numbers ==
  ASSUME Typed, NEW u \in Users
  PROVE  /\ header[u].nb_files \in 0 .. UINT32_MAX
         /\ disk_header.nb_files \in 0 .. UINT32_MAX
         /\ Count(metadata[u]) \in Int
         /\ Count(disk_metadata) \in Int
         /\ Count(IndexWith(pending[u])) \in Int
<1>1. /\ header[u].nb_files \in 0 .. UINT32_MAX
      /\ disk_header.nb_files \in 0 .. UINT32_MAX
  BY DEF Typed, TypeOK, Headers
<1> QED
  BY <1>1, ValidFinite DEF Count

\* The array in the file shows as many entries as the copy, when the call has no
\* entry to write.
LEMMA CurrentCount ==
  ASSUME Typed, NEW u \in Users, Current(u), pc[u] \notin {"image", "derived"}
  PROVE  Count(IndexWith(pending[u])) = Count(metadata[u])
<1>1. /\ IndexWith(pending[u]) \in [Slots -> Metadata]
      /\ metadata[u] \in [Slots -> Metadata]
  BY FlushType DEF Typed, TypeOK
<1>2. \A i \in Slots : SameSlot(metadata[u][i], IndexWith(pending[u])[i])
  BY DEF Current, IndexAhead
<1> QED
  BY <1>1, <1>2, SameCount

LEMMA IdlesDrift ==
  ASSUME Typed, NEW u \in Users, Shape(u), Current(u), Drift(u), Idles(u)
  PROVE  Drift(u)'
<1>1. /\ pc[u] = "idle" /\ pc'[u] \in Rest
      /\ header' = header /\ cuts' = cuts
      /\ metadata'[u] \in [Slots -> Metadata]
      /\ \A i \in Slots : SameSlot(metadata'[u][i], metadata[u][i])
  BY DEF Idles
<1>2. metadata[u] \in [Slots -> Metadata]
  BY DEF Typed, TypeOK
<1>3. Count(metadata'[u]) = Count(metadata[u])
  BY <1>1, <1>2, SameCount
<1>4. IndexWith(pending[u]) = disk_metadata
  BY <1>1, RestAhead
<1>5. /\ HeaderAhead(u).nb_files = header[u].nb_files
      /\ HeaderAhead(u)'.nb_files = header[u].nb_files
  BY <1>1, AheadCount, AheadCountNext DEF Rest
<1>6. Near(HeaderAhead(u).nb_files, Count(metadata[u]), cuts)'
  BY <1>1, <1>3, <1>5 DEF Drift, Near, Count
<1>7. /\ disk_metadata' = disk_metadata
      /\ disk_header' = disk_header \/ disk_header' = header[u]
      /\ pending'[u].to \in {"nothing", "header"}
  <2>1. CASE UNCHANGED <<pending, disk>>
    BY <1>1, <2>1 DEF disk, Shape
  <2>2. CASE Write(u, NoWrite)
    BY <1>4, <2>2, WriteEffect DEF Current, NoWrite
  <2> QED
    BY <2>1, <2>2 DEF Idles
<1>8. IndexWith(pending[u])' = disk_metadata
  BY <1>7 DEF IndexWith
<1>9. Near(disk_header.nb_files, Count(disk_metadata), cuts + 1)'
  BY <1>1, <1>4, <1>7 DEF Drift, Near, Count
<1>10. Near(header[u].nb_files, Count(IndexWith(pending[u])), cuts + 1)'
  BY <1>1, <1>4, <1>8 DEF Drift, Near, Count
<1> QED
  BY <1>6, <1>9, <1>10 DEF Drift

LEMMA EntersDrift ==
  ASSUME Typed, NEW u \in Users, Shape(u), Current(u), Drift(u), cuts \in Nat,
         NEW i \in Slots, NEW e, NEW w, NEW phase \in {"image", "entry"},
         Enters(u, i, e, phase), Write(u, w),
         phase = "image" => w.to = "images",
         phase = "entry" => w = ToEntry(i, e)
  PROVE  Drift(u)'
<1> DEFINE n == header[u].nb_files
           m == Count(metadata[u])
           g == [disk_metadata EXCEPT ![i] = e]
<1>1. /\ pc[u] = "idle" /\ pc'[u] = phase
      /\ i \in Slots \ Valid(metadata[u])
      /\ e \in Metadata /\ e.is_valid
      /\ metadata'[u] = [metadata[u] EXCEPT ![i] = e]
      /\ header' = header /\ cuts' = cuts
  BY DEF Enters, Moves
<1>2. /\ IndexWith(pending[u]) = disk_metadata
      /\ IndexAhead(u) = disk_metadata
  BY <1>1, RestAhead
<1>3. /\ disk_metadata' = disk_metadata
      /\ disk_header' = header[u]
      /\ pending'[u] = w
  BY <1>2, WriteEffect DEF Current
<1>4. disk_metadata \in [Slots -> Metadata] /\ metadata[u] \in [Slots -> Metadata]
  BY DEF Typed, TypeOK
<1>5. Count(disk_metadata) = m
  BY <1>1, <1>2, CurrentCount
<1>6. i \notin Valid(disk_metadata)
  BY <1>1, <1>2 DEF Current, SameSlot, Valid
<1>7. Count(metadata'[u]) = m + 1 /\ Count(g) = m + 1
  <2>1. Count([metadata[u] EXCEPT ![i] = e]) = Count(metadata[u]) + 1
    BY <1>1, <1>4, CountSteps
  <2>2. Count([disk_metadata EXCEPT ![i] = e]) = Count(disk_metadata) + 1
    <3>1. /\ disk_metadata \in [Slots -> Metadata]
          /\ i \in Slots \ Valid(disk_metadata)
          /\ e \in Metadata /\ e.is_valid
      BY <1>1, <1>4, <1>6
    <3> QED
      BY <3>1, CountSteps
  <2> QED
    BY <1>1, <1>5, <2>1, <2>2
<1>8. IndexWith(pending[u])' = disk_metadata \/ IndexWith(pending[u])' = g
  <2>1. CASE phase = "image"
    <3>1. pending'[u].to = "images" /\ disk_metadata' = disk_metadata
      BY <1>3, <2>1
    <3>2. IndexWith(pending[u])' = disk_metadata
      BY <3>1 DEF IndexWith
    <3> QED
      BY <3>2
  <2>2. CASE phase = "entry"
    <3>1. pending'[u] = ToEntry(i, e) /\ disk_metadata' = disk_metadata
      BY <1>3, <2>2
    <3>2. IndexWith(pending[u])' = g
      BY <3>1 DEF IndexWith, ToEntry
    <3> QED
      BY <3>2
  <2> QED
    BY <2>1, <2>2
<1>9. /\ HeaderAhead(u).nb_files = n
      /\ HeaderAhead(u)'.nb_files = Inc(n)
  BY <1>1, AheadCount, AheadCountNext
<1>10. n \in 0 .. UINT32_MAX /\ m \in Int
  BY Numbers
<1>11. Near(n, m, cuts)
  BY <1>9 DEF Drift
<1>12. /\ Near(Inc(n), m + 1, cuts)
       /\ Near(n, m, cuts + 1)
       /\ Near(n, m + 1, cuts + 1)
  BY <1>10, <1>11, NearSteps
<1>13. Count(IndexWith(pending[u])') \in {m, m + 1}
  BY <1>5, <1>7, <1>8
<1>14. Count(disk_metadata') = m /\ disk_header'.nb_files = n /\ header'[u].nb_files = n
  BY <1>1, <1>3, <1>5
<1> HIDE DEF n, m, g
<1>15. Near(HeaderAhead(u).nb_files, Count(metadata[u]), cuts)'
  BY <1>1, <1>7, <1>9, <1>12 DEF Near, Count
<1>16. Near(disk_header.nb_files, Count(disk_metadata), cuts + 1)'
  BY <1>1, <1>12, <1>14 DEF Near, Count
<1>17. Near(header[u].nb_files, Count(IndexWith(pending[u])), cuts + 1)'
  BY <1>1, <1>12, <1>13, <1>14 DEF Near, Count
<1> QED
  BY <1>15, <1>16, <1>17 DEF Drift

LEMMA ClearsDrift ==
  ASSUME Typed, NEW u \in Users, Shape(u), Current(u), Drift(u), cuts \in Nat,
         NEW id, NEW k, Clears(u, id, k), Typed', Current(u)'
  PROVE  Drift(u)'
<1> DEFINE i == First(Named(metadata[u], id))
           f == [metadata[u] EXCEPT ![i].is_valid = FALSE]
           n == header[u].nb_files
           m == Count(metadata[u])
<1>1. /\ pc[u] = "idle" /\ pc'[u] = "array"
      /\ i \in Valid(metadata[u])
      /\ f \in [Slots -> Metadata]
      /\ metadata'[u] = f
      /\ disk_header' = header[u]
      /\ disk_metadata' = [j \in Slots |-> IF j < k THEN f[j] ELSE IndexWith(pending[u])[j]]
      /\ header' = header /\ cuts' = cuts
  BY DEF Clears, Moves, Named, Current
<1>2. /\ IndexWith(pending[u]) = disk_metadata
      /\ IndexAhead(u) = disk_metadata
  BY <1>1, RestAhead
<1>3. /\ disk_metadata' \in [Slots -> Metadata]
      /\ metadata[u] \in [Slots -> Metadata]
      /\ IndexWith(pending[u])' \in [Slots -> Metadata]
  <2>1. /\ disk_metadata' \in [Slots -> Metadata]
        /\ metadata[u] \in [Slots -> Metadata]
    BY DEF Typed, TypeOK
  <2>2. pending'[u] = ToArray(k, f)
    BY DEF Clears
  <2> HIDE DEF f
  <2>3. /\ pending'[u].to = "array"
        /\ pending'[u].from = k
        /\ pending'[u].index = f
    BY <2>2 DEF ToArray
  <2>4. IndexWith(pending[u])' = [j \in Slots |-> IF j < k THEN disk_metadata'[j] ELSE f[j]]
    BY <2>3 DEF IndexWith
  <2> QED
    BY <1>1, <2>1, <2>4
<1>4. \A j \in Slots : SameSlot(disk_metadata[j], metadata[u][j])
  BY <1>2 DEF Current, SameSlot
<1>5. i \in Slots /\ \A j \in Slots \ {i} : f[j] = metadata[u][j]
  BY <1>1, <1>3 DEF Valid
<1>6. Count(f) = m - 1
  BY <1>1, <1>3, CountSteps
<1> HIDE DEF f, i
<1>7. Count(disk_metadata') \in {m, m - 1}
  <2>1. CASE i < k
    <3>1. \A j \in Slots : SameSlot(disk_metadata'[j], f[j])
      BY <1>1, <1>2, <1>4, <1>5, <2>1 DEF SameSlot
    <3> QED
      BY <1>1, <1>3, <1>6, <3>1, SameCount
  <2>2. CASE ~(i < k)
    <3>1. \A j \in Slots : SameSlot(disk_metadata'[j], metadata[u][j])
      BY <1>1, <1>2, <1>4, <1>5, <2>2 DEF SameSlot
    <3> QED
      BY <1>3, <3>1, SameCount
  <2> QED
    BY <2>1, <2>2
<1>8. Count(IndexWith(pending[u])') = m - 1
  <2>1. \A j \in Slots : SameSlot(f[j], IndexWith(pending[u])'[j])
    BY <1>1 DEF Current, IndexAhead
  <2> QED
    BY <1>1, <1>3, <1>6, <2>1, SameCount
<1>9. /\ HeaderAhead(u).nb_files = n
      /\ HeaderAhead(u)'.nb_files = Dec(n)
  BY <1>1, AheadCount, AheadCountNext
<1>10. n \in 0 .. UINT32_MAX /\ m \in Int
  BY Numbers
<1>11. Near(n, m, cuts)
  BY <1>9 DEF Drift
<1>12. /\ Near(Dec(n), m - 1, cuts)
       /\ Near(n, m, cuts + 1)
       /\ Near(n, m - 1, cuts + 1)
  BY <1>10, <1>11, NearSteps
<1>13. Count(metadata'[u]) = m - 1 /\ disk_header'.nb_files = n /\ header'[u].nb_files = n
  BY <1>1, <1>6
<1> HIDE DEF n, m
<1>15. Near(HeaderAhead(u).nb_files, Count(metadata[u]), cuts)'
  BY <1>1, <1>9, <1>12, <1>13 DEF Near, Count
<1>16. Near(disk_header.nb_files, Count(disk_metadata), cuts + 1)'
  BY <1>1, <1>7, <1>12, <1>13 DEF Near, Count
<1>17. Near(header[u].nb_files, Count(IndexWith(pending[u])), cuts + 1)'
  BY <1>1, <1>8, <1>12, <1>13 DEF Near, Count
<1> QED
  BY <1>15, <1>16, <1>17 DEF Drift

LEMMA CompletesDrift ==
  ASSUME Typed, NEW u \in Users, Shape(u), Current(u), Drift(u), cuts \in Nat,
         NEW i \in Slots, NEW e, NEW b, Completes(u, i, e, b)
  PROVE  Drift(u)'
<1> DEFINE n == header[u].nb_files
           m == Count(metadata[u])
<1>1. /\ pc[u] = "idle" /\ pc'[u] = "derived"
      /\ i \in Valid(metadata[u])
      /\ e \in Metadata /\ e.is_valid
      /\ metadata'[u] = [metadata[u] EXCEPT ![i] = e]
      /\ header' = header /\ cuts' = cuts
  BY DEF Completes, Moves
<1>2. /\ IndexWith(pending[u]) = disk_metadata
      /\ IndexAhead(u) = disk_metadata
  BY <1>1, RestAhead
<1>3. /\ disk_metadata' = disk_metadata
      /\ disk_header' = header[u]
      /\ pending'[u].to = "images"
  BY <1>2, WriteEffect DEF Completes, Current, ToImages
<1>4. metadata[u] \in [Slots -> Metadata]
  BY DEF Typed, TypeOK
<1>5. Count(disk_metadata) = m
  BY <1>1, <1>2, CurrentCount
<1>6. Count(metadata'[u]) = m
  <2>1. Valid(metadata'[u]) = Valid(metadata[u])
    BY <1>1, <1>4 DEF Valid
  <2> QED
    BY <2>1 DEF Count
<1>7. IndexWith(pending[u])' = disk_metadata
  BY <1>3 DEF IndexWith
<1>8. /\ HeaderAhead(u).nb_files = n
      /\ HeaderAhead(u)'.nb_files = n
  BY <1>1, AheadCount, AheadCountNext
<1>9. n \in 0 .. UINT32_MAX /\ m \in Int
  BY Numbers
<1>10. Near(n, m, cuts)
  BY <1>8 DEF Drift
<1>11. Near(n, m, cuts + 1)
  BY <1>9, <1>10, NearSteps
<1>12. /\ Count(disk_metadata') = m
       /\ Count(IndexWith(pending[u])') = m
       /\ disk_header'.nb_files = n /\ header'[u].nb_files = n
  BY <1>1, <1>3, <1>5, <1>7
<1> HIDE DEF n, m
<1>13. Near(HeaderAhead(u).nb_files, Count(metadata[u]), cuts)'
  BY <1>1, <1>6, <1>8, <1>10 DEF Near, Count
<1>14. Near(disk_header.nb_files, Count(disk_metadata), cuts + 1)'
  BY <1>1, <1>11, <1>12 DEF Near, Count
<1>15. Near(header[u].nb_files, Count(IndexWith(pending[u])), cuts + 1)'
  BY <1>1, <1>11, <1>12 DEF Near, Count
<1> QED
  BY <1>13, <1>14, <1>15 DEF Drift

LEMMA UpdatesDrift ==
  ASSUME Typed, NEW u \in Users, Shape(u), Current(u), Drift(u), cuts \in Nat,
         NEW from, NEW to, Updates(u, from, to), Typed', Current(u)',
         <<from, to>> = <<"image", "entry">> \/ <<from, to>> = <<"derived", "update">>
  PROVE  Drift(u)'
<1> DEFINE n == header[u].nb_files
           m == Count(metadata[u])
<1>1. /\ pc[u] = from /\ pc'[u] = to
      /\ header' = header /\ metadata' = metadata /\ cuts' = cuts
  BY DEF Updates, Moves
<1>2. /\ disk_metadata' = IndexWith(pending[u])
      /\ disk_header' = header[u]
      /\ pending'[u] = ToEntry(slot[u], metadata[u][slot[u]])
  BY WriteEffect DEF Updates, Current
<1>3. Count(IndexWith(pending[u])') = m
  <2>1. /\ disk_metadata' \in [Slots -> Metadata]
        /\ metadata[u] \in [Slots -> Metadata]
        /\ slot[u] \in Slots
    BY DEF Typed, TypeOK
  <2>2. IndexWith(pending[u])' = [disk_metadata' EXCEPT ![slot[u]] = metadata[u][slot[u]]]
    BY <1>2 DEF IndexWith, ToEntry
  <2>3. IndexWith(pending[u])' \in [Slots -> Metadata]
    BY <2>1, <2>2
  <2>4. \A j \in Slots : SameSlot(metadata[u][j], IndexWith(pending[u])'[j])
    BY <1>1 DEF Current, IndexAhead
  <2> QED
    BY <2>1, <2>3, <2>4, SameCount
<1>4. n \in 0 .. UINT32_MAX /\ m \in Int
  BY Numbers
<1>5. /\ HeaderAhead(u)'.nb_files = HeaderAhead(u).nb_files
      /\ HeaderAhead(u).nb_files = Inc(n) \/ HeaderAhead(u).nb_files = n
  <2>1. CASE from = "image" /\ to = "entry"
    BY <1>1, <2>1, AheadCount, AheadCountNext
  <2>2. CASE from = "derived" /\ to = "update"
    BY <1>1, <2>2, AheadCount, AheadCountNext
  <2> QED
    BY <2>1, <2>2
<1>6. Near(n, m, cuts + 1)
  BY <1>4, <1>5, NearSteps DEF Drift
<1>7. disk_header'.nb_files = n /\ header'[u].nb_files = n
  BY <1>1, <1>2
<1>8. Near(HeaderAhead(u).nb_files, Count(metadata[u]), cuts)'
  BY <1>1, <1>5 DEF Drift, Near, Count
<1>9. Near(disk_header.nb_files, Count(disk_metadata), cuts + 1)'
  BY <1>1, <1>2 DEF Drift, Near, Count
<1> HIDE DEF n, m
<1>10. Near(header[u].nb_files, Count(IndexWith(pending[u])), cuts + 1)'
  BY <1>1, <1>3, <1>6, <1>7 DEF Near, Count
<1> QED
  BY <1>8, <1>9, <1>10 DEF Drift

LEMMA EndsDrift ==
  ASSUME Typed, NEW u \in Users, Shape(u), Current(u), Drift(u), cuts \in Nat,
         NEW from \in {"entry", "array", "update"}, NEW h, NEW w, Ends(u, from, h, w),
         h.nb_files = HeaderAhead(u).nb_files, h.nb_files \in 0 .. UINT32_MAX,
         w.to \in {"nothing", "header"}
  PROVE  Drift(u)'
<1> DEFINE n == h.nb_files
           m == Count(metadata[u])
<1>1. /\ pc[u] = from /\ pc'[u] \in Rest
      /\ header'[u] = h /\ metadata' = metadata /\ cuts' = cuts
  BY DEF Ends
<1>2. /\ disk_metadata' = IndexWith(pending[u])
      /\ disk_header' = header[u]
      /\ pending'[u] = w
  BY WriteEffect DEF Ends, Current
<1>3. IndexWith(pending[u])' = IndexWith(pending[u])
  BY <1>2 DEF IndexWith
<1>4. Count(IndexWith(pending[u])) = m
  BY <1>1, CurrentCount
<1>5. HeaderAhead(u)'.nb_files = n
  BY <1>1, AheadCountNext DEF Rest
<1>6. m \in Int
  BY Numbers
<1>7. Near(n, m, cuts)
  BY DEF Drift
<1>8. Near(n, m, cuts + 1)
  BY <1>6, <1>7, NearSteps
<1>9. Near(disk_header.nb_files, Count(disk_metadata), cuts + 1)'
  BY <1>1, <1>2 DEF Drift, Near, Count
<1>10. header'[u].nb_files = n /\ Count(IndexWith(pending[u])') = m
  BY <1>1, <1>3, <1>4
<1> HIDE DEF n, m
<1>11. Near(HeaderAhead(u).nb_files, Count(metadata[u]), cuts)'
  BY <1>1, <1>5, <1>7 DEF m, Near, Count
<1>12. Near(header[u].nb_files, Count(IndexWith(pending[u])), cuts + 1)'
  BY <1>1, <1>8, <1>10 DEF Near, Count
<1> QED
  BY <1>9, <1>11, <1>12 DEF Drift

\* The process that has the file ends: the file is closed between two calls, or
\* in the middle of one, or not at all.
LEMMA GoneNear ==
  ASSUME Typed, NEW u \in Users, Shape(u), Current(u), Drift(u), cuts \in Nat, Gone(u)
  PROVE  /\ Flush(u) /\ pc[u] \in Rest /\ cuts' = cuts =>
              Near(disk_header.nb_files, Count(disk_metadata), cuts)'
         /\ (Flush(u) \/ UNCHANGED disk) /\ cuts' = cuts + 1 =>
              Near(disk_header.nb_files, Count(disk_metadata), cuts)'
<1>1. ASSUME Flush(u), pc[u] \in Rest, cuts' = cuts
      PROVE  Near(disk_header.nb_files, Count(disk_metadata), cuts)'
  <2>1. IndexWith(pending[u]) = disk_metadata
    BY <1>1, RestAhead DEF Rest
  <2>2. disk_header' = header[u] /\ disk_metadata' = disk_metadata
    BY <1>1, <2>1 DEF Flush, Current
  <2>3. Count(disk_metadata) = Count(metadata[u])
    BY <1>1, <2>1, CurrentCount DEF Rest
  <2>4. HeaderAhead(u).nb_files = header[u].nb_files
    BY <1>1, AheadCount DEF Rest
  <2>5. Near(header[u].nb_files, Count(disk_metadata), cuts)
    BY <2>3, <2>4 DEF Drift
  <2> QED
    BY <1>1, <2>2, <2>5 DEF Near, Count
<1>2. ASSUME Flush(u), cuts' = cuts + 1
      PROVE  Near(disk_header.nb_files, Count(disk_metadata), cuts)'
  BY <1>2 DEF Flush, Current, Drift, Near, Count
<1>3. ASSUME UNCHANGED disk, cuts' = cuts + 1
      PROVE  Near(disk_header.nb_files, Count(disk_metadata), cuts)'
  BY <1>3 DEF disk, Drift, Near, Count
<1> QED
  BY <1>1, <1>2, <1>3

LEMMA OpenDrift ==
  ASSUME Typed, NEW u \in Users, Forgotten, cuts \in Nat, Open(u),
         Near(disk_header.nb_files, Count(disk_metadata), cuts)
  PROVE  Drift(u)'
<1>1. /\ pending' = pending /\ pending[u] = NoWrite
      /\ UNCHANGED <<disk_header, disk_metadata, cuts>>
  BY DEF Open, Forgotten, disk
<1>2. /\ header'[u] = disk_header
      /\ metadata'[u] = disk_metadata
      /\ pc'[u] = "idle"
  BY DEF Open, Goes, Typed, TypeOK
<1>3. IndexWith(pending[u])' = disk_metadata
  BY <1>1 DEF IndexWith, NoWrite
<1>4. HeaderAhead(u)'.nb_files = disk_header.nb_files
  BY <1>2, AheadCountNext
<1>5. Near(disk_header.nb_files, Count(disk_metadata), cuts + 1)
  BY Numbers, NearSteps
<1>6. Near(HeaderAhead(u).nb_files, Count(metadata[u]), cuts)'
  BY <1>1, <1>2, <1>4 DEF Near, Count
<1>7. Near(disk_header.nb_files, Count(disk_metadata), cuts + 1)'
  BY <1>1, <1>5 DEF Near, Count
<1>8. Near(header[u].nb_files, Count(IndexWith(pending[u])), cuts + 1)'
  BY <1>1, <1>2, <1>3, <1>5 DEF Near, Count
<1> QED
  BY <1>6, <1>7, <1>8 DEF Drift

\* The file between two users, and under the one that has it open.
Numbered ==
  /\ (\A u \in Users : Off(u)) => Near(disk_header.nb_files, Count(disk_metadata), cuts)
  /\ \A u \in Users : ~Off(u) => Drift(u)

\* The inductive invariant for the number of images in the header.
Counting ==
  /\ Told
  /\ cuts \in Nat
  /\ ~overlapped => Numbered

LEMMA InitCounting == Init => Counting
<1> SUFFICES ASSUME Init
             PROVE  Counting
  OBVIOUS
<1>1. Told
  BY InitTold
<1>2. Valid(disk_metadata) = {}
  BY DEF Init, BlankIndex, BlankMetadata, Valid
<1>3. Count(disk_metadata) = 0 /\ disk_header.nb_files = 0 /\ cuts = 0
  BY <1>2, FS_EmptySet DEF Count, Init, BlankHeader
<1>4. Near(0, 0, 0)
  <2>1. 0 \in -0 .. 0 /\ 0 \in Int /\ 0 * (UINT32_MAX + 1) = 0
    BY MaxFilesAssumption
  <2> QED
    BY <2>1 DEF Near
<1>5. \A u \in Users : Off(u)
  BY DEF Init, Off
<1> QED
  BY <1>1, <1>3, <1>4, <1>5 DEF Counting, Numbered

LEMMA EffectDrift ==
  ASSUME Told, Told', ~overlapped, ~overlapped', cuts \in Nat, Numbered, NEW u \in Users,
         Inside(u), Effect(u)
  PROVE  Numbered' /\ cuts' = cuts
<1>1. cuts' = cuts
  BY DEF Effect, Idles, Enters, Clears, Completes, Updates, Ends
<1>2. /\ Typed /\ Alone /\ Current(u) /\ Shape(u) /\ OnlyOwn(u) /\ Drift(u)
      /\ ~Off(u) /\ ~Off(u)'
  BY DEF Told, Sole, Alone, Shaped, Inside, Numbered, Off
<1>3. Typed' /\ Current(u)'
  BY <1>2 DEF Told, Sole, Alone
<1>4. Drift(u)'
  <2>1. ASSUME NEW i \in Slots, NEW e, NEW w,
               Enters(u, i, e, "image"), Write(u, w), w.to = "images"
        PROVE  Drift(u)'
    BY <1>2, <2>1, EntersDrift
  <2>2. ASSUME NEW i \in Slots, NEW e, Enters(u, i, e, "entry"), Write(u, ToEntry(i, e))
        PROVE  Drift(u)'
    BY <1>2, <2>2, EntersDrift
  <2>3. ASSUME NEW id, NEW k, Clears(u, id, k)
        PROVE  Drift(u)'
    BY <1>2, <1>3, <2>3, ClearsDrift
  <2>4. ASSUME NEW i \in Slots, NEW e, NEW b, Completes(u, i, e, b)
        PROVE  Drift(u)'
    BY <1>2, <2>4, CompletesDrift
  <2>5. CASE Updates(u, "image", "entry")
    BY <1>2, <1>3, <2>5, UpdatesDrift
  <2>6. CASE Updates(u, "derived", "update")
    BY <1>2, <1>3, <2>6, UpdatesDrift
  <2>7. CASE Idles(u)
    BY <1>2, <2>7, IdlesDrift
  <2>8. ASSUME NEW from \in {"entry", "array", "update"}, NEW h, NEW w,
               Ends(u, from, h, w), h = HeaderAhead(u), w.to \in {"nothing", "header"}
        PROVE  Drift(u)'
    <3>1. h.nb_files \in 0 .. UINT32_MAX
      <4>1. header'[u] = h /\ header'[u] \in Headers
        BY <1>3, <2>8 DEF Ends, Typed, TypeOK
      <4> QED
        BY <4>1 DEF Headers
    <3> QED
      BY <1>2, <2>8, <3>1, EndsDrift
  <2>9. CASE Ends(u, "entry", Mine(u)!BumpInsert, ToHeader(Mine(u)!BumpInsert))
    BY <2>8, <2>9 DEF HeaderAhead, ToHeader, Ends
  <2>10. CASE Ends(u, "array", Mine(u)!BumpDelete, ToHeader(Mine(u)!BumpDelete))
    BY <2>8, <2>10 DEF HeaderAhead, ToHeader, Ends
  <2>11. CASE Ends(u, "update", header[u], NoWrite)
    BY <2>8, <2>11 DEF HeaderAhead, NoWrite, Ends
  <2> QED
    BY <2>1, <2>2, <2>3, <2>4, <2>5, <2>6, <2>7, <2>9, <2>10, <2>11 DEF Effect
<1>5. \A v \in Users : ~Off(v)' => v = u
  BY <1>2 DEF Alone, OnlyOwn, Off
<1>6. ASSUME NEW v \in Users, ~Off(v)'
      PROVE  Drift(v)'
  BY <1>4, <1>5, <1>6
<1> QED
  BY <1>1, <1>2, <1>6 DEF Numbered

LEMMA NextCounting ==
  ASSUME Counting, [Next]_vars
  PROVE  Counting'
<1>1. Told /\ Told' /\ cuts \in Nat /\ Typed /\ Forgotten
  BY NextTold DEF Counting, Told
<1>2. ASSUME NEW u \in Users, Gone(u), ~Off(u), ~overlapped',
             \/ Flush(u) /\ pc[u] \in Rest /\ cuts' = cuts
             \/ (Flush(u) \/ UNCHANGED disk) /\ cuts' = cuts + 1
      PROVE  Numbered' /\ cuts' \in Nat
  <2>1. ~overlapped /\ Alone /\ Numbered
    BY <1>1, <1>2 DEF Gone, Counting, Told, Sole
  <2>2. Current(u) /\ Shape(u) /\ Drift(u)
    BY <1>1, <1>2, <2>1 DEF Alone, Told, Shaped, Numbered
  <2>3. OnlyOwn(u) /\ Off(u)'
    BY <1>1, <1>2, GoneOwn DEF Off
  <2>4. \A v \in Users : Off(v)'
    BY <1>2, <2>1, <2>3 DEF Alone, OnlyOwn, Off
  <2>5. Near(disk_header.nb_files, Count(disk_metadata), cuts)'
    BY <1>1, <1>2, <2>2, GoneNear
  <2> QED
    BY <1>1, <1>2, <2>4, <2>5 DEF Numbered
<1>3. ASSUME NEW u \in Users, UserStep(u), ~overlapped'
      PROVE  Numbered' /\ cuts' \in Nat
  <2>1. CASE Open(u)
    <3>1. ~overlapped /\ \A v \in Users : Off(v)
      BY <1>3, <2>1, Zenon DEF Open
    <3>2. Near(disk_header.nb_files, Count(disk_metadata), cuts) /\ cuts' = cuts
      BY <2>1, <3>1 DEF Counting, Numbered, Open
    <3>3. Drift(u)'
      BY <1>1, <2>1, <3>2, OpenDrift
    <3>4. \A v \in Users \ {u} : Off(v)'
      BY <1>1, <2>1, <3>1, OpenOwn DEF OnlyOwn, Off
    <3>5. ~Off(u)'
      BY <1>1, <2>1 DEF Open, Goes, Off, Typed, TypeOK
    <3>6. ASSUME NEW v \in Users, ~Off(v)'
          PROVE  Drift(v)'
      BY <3>3, <3>4, <3>6
    <3> QED
      BY <1>1, <3>2, <3>5, <3>6 DEF Numbered
  <2>2. CASE Close(u)
    BY <1>2, <1>3, <2>2 DEF Close, Off, Rest
  <2>3. CASE Kill(u)
    BY <1>2, <1>3, <2>3 DEF Kill, Cut
  <2>4. CASE Inside(u) /\ Effect(u)
    <3>1. overlapped' = overlapped
      BY <2>4 DEF Effect, Idles, Enters, Clears, Completes, Updates, Ends
    <3>2. Numbered
      BY <1>3, <3>1 DEF Counting
    <3> QED
      BY <1>1, <1>3, <2>4, <3>1, <3>2, EffectDrift
  <2> QED
    BY <1>1, <1>3, <2>1, <2>2, <2>3, <2>4, UserEffect
<1>4. ASSUME Interrupt, ~overlapped'
      PROVE  Numbered' /\ cuts' \in Nat
  <2>1. "server" \in Users
    BY DEF Users
  <2> QED
    BY <1>2, <1>4, <2>1 DEF Interrupt, Cut
<1>5. ASSUME Create
      PROVE  Numbered' /\ cuts' \in Nat
  <2>1. Valid(disk_metadata') = {}
    BY <1>5 DEF Create, BlankIndex, BlankMetadata, Valid
  <2>2. Count(disk_metadata') = 0 /\ disk_header'.nb_files = 0 /\ cuts' = 0
    BY <1>5, <2>1, FS_EmptySet DEF Count, Create, BlankHeader
  <2>3. Near(0, 0, 0)
    <3>1. 0 \in -0 .. 0 /\ 0 \in Int /\ 0 * (UINT32_MAX + 1) = 0
      BY MaxFilesAssumption
    <3> QED
      BY <3>1 DEF Near
  <2>4. \A u \in Users : Off(u)'
    BY <1>5 DEF Create, Off
  <2>5. Near(disk_header.nb_files, Count(disk_metadata), cuts)'
    BY <2>2, <2>3 DEF Near, Count
  <2> QED
    BY <2>2, <2>4, <2>5 DEF Numbered
<1>6. ASSUME UNCHANGED vars, ~overlapped'
      PROVE  Numbered' /\ cuts' \in Nat
  <2>1. /\ UNCHANGED <<pc, header, metadata, slot, pending, disk_header, disk_metadata>>
        /\ UNCHANGED <<overlapped, cuts>>
    BY <1>6 DEF vars, copies, disk, calling, history
  <2>2. Numbered
    BY <1>6, <2>1 DEF Counting
  <2>3. \A u \in Users : Off(u)' = Off(u)
    BY <2>1 DEF Off
  <2>4. ASSUME NEW u \in Users, ~Off(u)'
        PROVE  Drift(u)'
    <3>1. Drift(u)
      BY <2>2, <2>3, <2>4 DEF Numbered
    <3>2. HeaderAhead(u)'.nb_files = HeaderAhead(u).nb_files
      BY <2>1, AheadCount, AheadCountNext
    <3>3. IndexWith(pending[u])' = IndexWith(pending[u])
      BY <2>1 DEF IndexWith
    <3> QED
      BY <2>1, <3>1, <3>2, <3>3 DEF Drift, Near, Count
  <2>5. (\A u \in Users : Off(u)') =>
           Near(disk_header.nb_files, Count(disk_metadata), cuts)'
    BY <2>1, <2>2, <2>3 DEF Numbered, Near, Count
  <2> QED
    BY <1>1, <2>1, <2>4, <2>5 DEF Numbered
<1>7. cuts' \in Nat /\ (~overlapped' => Numbered')
  <2>1. ASSUME NEW u \in Users, UserStep(u)
        PROVE  cuts' \in Nat
    <3>1. CASE Effect(u)
      BY <1>1, <3>1 DEF Effect, Idles, Enters, Clears, Completes, Updates, Ends
    <3>2. CASE Open(u) \/ Close(u) \/ Kill(u)
      BY <1>1, <3>2 DEF Open, Close, Kill, Cut
    <3> QED
      BY <1>1, <2>1, <3>1, <3>2, UserEffect
  <2>2. Interrupt \/ Create \/ UNCHANGED vars => cuts' \in Nat
    BY <1>1 DEF Interrupt, Cut, Create, vars, history
  <2> QED
    BY <1>3, <1>4, <1>5, <1>6, <2>1, <2>2 DEF Next
<1> QED
  BY <1>1, <1>7 DEF Counting

\* As long as one process at a time has the file open, the number of images in
\* the header is off by one at most for every process that was cut off.
THEOREM CountStaysNear == Spec => []CountDrifts
<1>1. ASSUME Counting
      PROVE  CountDrifts
  <2> SUFFICES ASSUME ~overlapped, \A u \in Users : Off(u)
               PROVE  \E d \in -cuts .. cuts :
                        disk_header.nb_files
                          = (Cardinality(Valid(disk_metadata)) + d) % (UINT32_MAX + 1)
    BY DEF CountDrifts
  <2>1. /\ Near(disk_header.nb_files, Count(disk_metadata), cuts)
        /\ cuts \in Nat
    BY <1>1 DEF Counting, Numbered
  <2>2. /\ disk_header.nb_files \in 0 .. UINT32_MAX
        /\ Count(disk_metadata) \in Int
    BY <1>1, ValidFinite DEF Counting, Told, Typed, TypeOK, Headers, Count
  <2> QED
    BY <2>1, <2>2, NearIsModulo DEF Count
<1>2. Counting /\ [Next]_vars => Counting'
  BY NextCounting
<1> QED
  BY <1>1, <1>2, InitCounting, PTL DEF Spec

-----------------------------------------------------------------------------
(* The calls are those of the library. *)

\* The operators of the index as the library sees them are those of the file.
LEMMA LibraryIndex ==
  /\ Library!Slots = Slots
  /\ Library!BlankIndex = BlankIndex /\ Library!BlankHeader = BlankHeader
  /\ \A f : Library!Valid(f) = Valid(f)
  /\ \A f, id : Library!Named(f, id) = Named(f, id)
  /\ \A S : Library!First(S) = First(S)
  /\ \A m, id, img : Library!Filled(m, id, img) = Filled(m, id, img)
  /\ \A f, n, i : Library!DedupError(f, n, i) = DedupError(f, n, i)
  /\ \A f, n, i : Library!Deduped(f, n, i) = Deduped(f, n, i)
  /\ \A m, d, res : Library!Content(m, d, res) = Content(m, d, res)
  /\ \A img, res : Library!Blob(img, res) = Blob(img, res)
  /\ \A b : Library!BlobSize(b) = BlobSize(b)
  /\ \A n : Library!Inc(n) = Inc(n) /\ Library!Dec(n) = Dec(n)
<1>s. Library!Slots = Slots /\ Library!Res = Res
  BY DEF Library!Slots, Slots, Library!Res, Res
<1>b. Library!BlankIndex = BlankIndex /\ Library!BlankHeader = BlankHeader
  BY <1>s DEF Library!BlankIndex, BlankIndex, Library!BlankMetadata, BlankMetadata,
              Library!BlankHeader, BlankHeader
<1>1. \A f : Library!Valid(f) = Valid(f)
  BY <1>s DEF Library!Valid, Valid
<1>2. \A f, id : Library!Named(f, id) = Named(f, id)
  BY <1>1 DEF Library!Named, Named
<1>3. \A S : Library!First(S) = First(S)
  BY DEF Library!First, First
<1>4. \A m, id, img : Library!Filled(m, id, img) = Filled(m, id, img)
  BY DEF Library!Filled, Filled
<1>5. \A f, i : Library!DedupStops(f, i) = DedupStops(f, i)
  BY <1>1 DEF Library!DedupStops, DedupStops
<1>6. \A f, n, i : Library!DedupError(f, n, i) = DedupError(f, n, i)
  BY <1>3, <1>5 DEF Library!DedupError, DedupError
<1>7. \A f, n, i : Library!Deduped(f, n, i) = Deduped(f, n, i)
  <2> SUFFICES ASSUME NEW f, NEW n, NEW i
               PROVE  Library!Deduped(f, n, i) = Deduped(f, n, i)
    OBVIOUS
  <2>1. /\ Library!DedupStops(f, i) = DedupStops(f, i)
        /\ Library!DedupError(f, n, i) = DedupError(f, n, i)
        /\ Library!First(DedupStops(f, i)) = First(DedupStops(f, i))
    BY <1>3, <1>5, <1>6
  <2> QED
    BY <2>1 DEF Library!Deduped, Deduped
<1>8. \A b : Library!BlobSize(b) = BlobSize(b)
  BY DEF Library!BlobSize, BlobSize
<1>9. \A m, d, res : Library!Content(m, d, res) = Content(m, d, res)
  BY <1>8 DEF Library!Content, Content, Library!BytesAt, BytesAt
<1>10. \A img, res : Library!Blob(img, res) = Blob(img, res)
  BY DEF Library!Blob, Blob
<1>11. \A n : Library!Inc(n) = Inc(n) /\ Library!Dec(n) = Dec(n)
  BY DEF Library!Inc, Inc, Library!Dec, Dec
<1> QED
  BY <1>s, <1>b, <1>1, <1>2, <1>3, <1>4, <1>6, <1>7, <1>8, <1>9, <1>10, <1>11

\* So are the calls and what they return.
LEMMA LibraryReplies ==
  /\ \A name, id, arg : Library!Call(name, id, arg) = Call(name, id, arg)
  /\ \A c, err, out : Library!Reply(c, err, out) = Reply(c, err, out)
  /\ \A id, img : Library!Insert(id, img) = Insert(id, img)
  /\ \A id : Library!Delete(id) = Delete(id)
  /\ \A id, res : Library!Read(id, res) = Read(id, res)
<1>1. \A name, id, arg : Library!Call(name, id, arg) = Call(name, id, arg)
  BY DEF Library!Call, Call
<1>2. Library!Unlisted = [i \in {} |-> NoId]
  <2>1. Valid(BlankIndex) = {}
    BY DEF Valid, BlankIndex, BlankMetadata
  <2>2. Library!Unlisted = [i \in Valid(BlankIndex) |-> BlankIndex[i].img_id]
    BY LibraryIndex DEF Library!Unlisted, Library!Listing
  <2> QED
    BY <2>1, <2>2
<1>3. \A c, err, out : Library!Reply(c, err, out) = Reply(c, err, out)
  BY <1>2 DEF Library!Reply, Reply
<1> QED
  BY <1>1, <1>3 DEF Library!Insert, Insert, Library!Delete, Delete, Library!Read, Read

\* Between two calls the library is what the process itself sees.
LEMMA LibraryAtRest ==
  ASSUME NEW u \in Users, Holder = u, pc[u] = "idle"
  PROVE  /\ \A i : Library!InsertAt(i) = Mine(u)!InsertAt(i)
         /\ \A i, id, img :
              /\ Library!CandidateError(i, id, img) = Mine(u)!CandidateError(i, id, img)
              /\ Library!Candidate(i, id, img) = Mine(u)!Candidate(i, id, img)
              /\ Library!InsertAccepted(i, id, img) = Mine(u)!InsertAccepted(i, id, img)
              /\ Library!IsNew(i, id, img) = Mine(u)!IsNew(i, id, img)
              /\ Library!Entry(i, id, img) = Mine(u)!Entry(i, id, img)
         /\ Library!EmptySlots = Mine(u)!EmptySlots
         /\ Library!BumpInsert = Mine(u)!BumpInsert
         /\ Library!BumpDelete = Mine(u)!BumpDelete
         /\ \A id : Library!Deleted(id) = Mine(u)!Deleted(id)
         /\ \A i, id : Library!ReadAt(i, id) = Mine(u)!ReadAt(i, id)
         /\ \A i, res :
              /\ Library!CallsResize(i, res) = Mine(u)!CallsResize(i, res)
              /\ Library!NeedsResize(i, res) = Mine(u)!NeedsResize(i, res)
              /\ Library!Resized(i, res) = Mine(u)!Resized(i, res)
              /\ Library!ResizedEntry(i, res) = Mine(u)!ResizedEntry(i, res)
         /\ \A i, id, res : Library!Resizes(i, id, res) = Mine(u)!Resizes(i, id, res)
<1>1. /\ metadata[Holder] = metadata[u]
      /\ HeaderAhead(Holder) = header[u]
      /\ DataWith(pending[Holder]) = DataWith(pending[u])
      /\ ~Off(Holder) /\ pc[u] # "off"
  BY DEF HeaderAhead, Off
<1>2. Library!EmptySlots = Mine(u)!EmptySlots
  BY <1>1, LibraryIndex, MineIndex DEF Library!EmptySlots, Mine!EmptySlots, Mine!Slots, Slots
<1>3. \A i : Library!InsertAt(i) = Mine(u)!InsertAt(i)
  BY <1>1, <1>2, LibraryIndex, MineIndex DEF Library!InsertAt, Mine!InsertAt
<1>4. \A i, id, img : Library!WithEntry(i, id, img) = Mine(u)!WithEntry(i, id, img)
  <2> SUFFICES ASSUME NEW i, NEW id, NEW img
               PROVE  Library!WithEntry(i, id, img) = Mine(u)!WithEntry(i, id, img)
    OBVIOUS
  <2> DEFINE m == metadata[u]
  <2>1. /\ metadata[Holder] = m
        /\ Library!Filled(m[i], id, img) = Filled(m[i], id, img)
        /\ Mine(u)!Filled(m[i], id, img) = Filled(m[i], id, img)
    BY <1>1, LibraryIndex, MineIndex
  <2> QED
    BY <2>1 DEF Library!WithEntry, Mine!WithEntry
<1>5. \A i, id, img :
        /\ Library!CandidateError(i, id, img) = Mine(u)!CandidateError(i, id, img)
        /\ Library!Candidate(i, id, img) = Mine(u)!Candidate(i, id, img)
  BY <1>1, <1>4, LibraryIndex, MineIndex
  DEF Library!CandidateError, Mine!CandidateError, Library!Candidate, Mine!Candidate
<1>6. \A i, id, img :
        /\ Library!InsertAccepted(i, id, img) = Mine(u)!InsertAccepted(i, id, img)
        /\ Library!IsNew(i, id, img) = Mine(u)!IsNew(i, id, img)
  BY <1>3, <1>5
  DEF Library!InsertAccepted, Mine!InsertAccepted, Library!IsNew, Mine!IsNew
<1>7. \A m, o : Library!Placed(m, o) = Mine(u)!Placed(m, o)
  BY DEF Library!Placed, Mine!Placed, Library!Res, Mine!Res
<1>8. \A i, id, img : Library!Entry(i, id, img) = Mine(u)!Entry(i, id, img)
  BY <1>1, <1>5, <1>6, <1>7 DEF Library!Entry, Mine!Entry
<1>9. /\ Library!BumpInsert = Mine(u)!BumpInsert
      /\ Library!BumpDelete = Mine(u)!BumpDelete
      /\ \A id : Library!Deleted(id) = Mine(u)!Deleted(id)
  BY <1>1, LibraryIndex, MineIndex
  DEF Library!BumpInsert, Mine!BumpInsert, Library!BumpDelete, Mine!BumpDelete,
      Library!Deleted, Mine!Deleted
<1>10. \A i, id : Library!ReadAt(i, id) = Mine(u)!ReadAt(i, id)
  BY <1>1, LibraryIndex, MineIndex DEF Library!ReadAt, Mine!ReadAt
<1>11. \A i, res : /\ Library!CallsResize(i, res) = Mine(u)!CallsResize(i, res)
                   /\ Library!NeedsResize(i, res) = Mine(u)!NeedsResize(i, res)
  BY <1>1 DEF Library!CallsResize, Mine!CallsResize, Library!NeedsResize, Mine!NeedsResize
<1>12. \A i, res : /\ Library!Resized(i, res) = Mine(u)!Resized(i, res)
                   /\ Library!ResizedEntry(i, res) = Mine(u)!ResizedEntry(i, res)
  <2> SUFFICES ASSUME NEW i, NEW res
               PROVE  /\ Library!Resized(i, res) = Mine(u)!Resized(i, res)
                      /\ Library!ResizedEntry(i, res) = Mine(u)!ResizedEntry(i, res)
    OBVIOUS
  <2>1. Library!Resized(i, res) = Mine(u)!Resized(i, res)
    BY <1>1, LibraryIndex, MineIndex DEF Library!Resized, Mine!Resized
  <2>2. Library!BlobSize(Library!Resized(i, res)) = Mine(u)!BlobSize(Mine(u)!Resized(i, res))
    BY <2>1, LibraryIndex, MineIndex
  <2> QED
    BY <1>1, <2>1, <2>2 DEF Library!ResizedEntry, Mine!ResizedEntry
<1>13. \A i, id, res : Library!Resizes(i, id, res) = Mine(u)!Resizes(i, id, res)
  BY <1>1, <1>10, <1>11, LibraryIndex, MineIndex DEF Library!Resizes, Mine!Resizes
<1> QED
  BY <1>2, <1>3, <1>5, <1>6, <1>8, <1>9, <1>10, <1>11, <1>12, <1>13

\* After a step as well the library is what the holder sees.
LEMMA HolderNext ==
  ASSUME NEW u \in Users, Holder' = u
  PROVE  /\ Off(Holder)' = Off(u)'
         /\ metadata[Holder]' = metadata'[u]
         /\ HeaderAhead(Holder)' = HeaderAhead(u)'
         /\ DiskHeaderAhead(Holder)' = DiskHeaderAhead(u)'
         /\ IndexAhead(Holder)' = IndexAhead(u)'
         /\ DataWith(pending[Holder])' = Stored(u)'
<1> DEFINE h == Holder
<1>1. h' = u
  OBVIOUS
<1> HIDE DEF h
<1>2. /\ Off(h)' = Off(u)'
      /\ metadata[h]' = metadata'[u]
      /\ HeaderAhead(h)' = HeaderAhead(u)'
      /\ DiskHeaderAhead(h)' = DiskHeaderAhead(u)'
  BY <1>1 DEF Off, HeaderAhead, DiskHeaderAhead, Counts, HeaderWith,
       Mine!BumpInsert, Mine!BumpDelete, Mine!Inc, Mine!Dec
<1>3. IndexAhead(h)' = IndexAhead(u)'
  BY <1>1 DEF IndexAhead, IndexWith
<1>4. DataWith(pending[h])' = Stored(u)'
  BY <1>1 DEF Stored, DataWith
<1> QED
  BY <1>2, <1>3, <1>4 DEF h

\* What a process sees of the file when its call has returned: the copy of the
\* header and what is or will be in the file.
Ahead(u) == <<HeaderAhead(u), DiskHeaderAhead(u), IndexAhead(u), Stored(u)>>

\* A step of a process that is and stays the holder of the file.
Holding(u) == Holder = u /\ Holder' = u /\ ~Off(u) /\ ~Off(u)'

\* What a process at rest, or about to write the counters, sees.
LEMMA RestsAhead ==
  ASSUME NEW u \in Users, Shape(u), Current(u), pc[u] = "idle"
  PROVE  Ahead(u) = <<header[u], header[u], disk_metadata, data>>
<1>1. HeaderAhead(u) = header[u] /\ DiskHeaderAhead(u) = header[u]
  BY DEF HeaderAhead, DiskHeaderAhead, Counts, Current
<1> QED
  BY <1>1, RestAhead DEF Ahead

\* Before the step the library is in this state.
LEMMA LibraryBefore ==
  ASSUME NEW u \in Users, Holding(u)
  PROVE  /\ ~Off(Holder)
         /\ metadata[Holder] = metadata[u]
         /\ <<HeaderAhead(Holder), DiskHeaderAhead(Holder),
              IndexAhead(Holder), DataWith(pending[Holder])>> = Ahead(u)
  BY DEF Holding, Ahead, Stored

\* A step that changes nothing of what the holder sees is none of the library.
LEMMA SeenUnchanged ==
  ASSUME NEW u \in Users, Holding(u), Ahead(u)' = Ahead(u),
         metadata'[u] = metadata[u], reply' = reply
  PROVE  UNCHANGED Library!vars
<1>s. Off(Holder)' = Off(Holder)
  BY HolderNext DEF Holding, Off
<1>a. Ahead(u) = <<HeaderAhead(Holder), DiskHeaderAhead(Holder),
                   IndexAhead(Holder), DataWith(pending[Holder])>>
  BY LibraryBefore
<1>b. Ahead(u)' = <<HeaderAhead(Holder)', DiskHeaderAhead(Holder)',
                    IndexAhead(Holder)', DataWith(pending[Holder])'>>
  BY HolderNext DEF Ahead, Holding
<1>1. /\ Off(Holder)' = Off(Holder)
      /\ metadata[Holder]' = metadata[Holder]
      /\ HeaderAhead(Holder)' = HeaderAhead(Holder)
      /\ DiskHeaderAhead(Holder)' = DiskHeaderAhead(Holder)
      /\ IndexAhead(Holder)' = IndexAhead(Holder)
      /\ DataWith(pending[Holder])' = DataWith(pending[Holder])
  BY <1>s, <1>a, <1>b, HolderNext, LibraryBefore DEF Holding
<1> QED
  BY <1>1 DEF Library!vars

\* A step that changes the copy of the array and the reply only.
LEMMA MemoryChanges ==
  ASSUME NEW u \in Users, Holding(u), Ahead(u)' = Ahead(u)
  PROVE  /\ (~Off(Holder))' = ~Off(Holder)
         /\ HeaderAhead(Holder)' = HeaderAhead(Holder)
         /\ metadata[Holder]' = metadata'[u]
         /\ UNCHANGED Library!disk
<1>s. Off(Holder)' = Off(Holder)
  BY HolderNext DEF Holding, Off
<1>a. Ahead(u) = <<HeaderAhead(Holder), DiskHeaderAhead(Holder),
                   IndexAhead(Holder), DataWith(pending[Holder])>>
  BY LibraryBefore
<1>b. Ahead(u)' = <<HeaderAhead(Holder)', DiskHeaderAhead(Holder)',
                    IndexAhead(Holder)', DataWith(pending[Holder])'>>
  BY HolderNext DEF Ahead, Holding
<1>1. /\ Off(Holder)' = Off(Holder)
      /\ metadata[Holder]' = metadata'[u]
      /\ HeaderAhead(Holder)' = HeaderAhead(Holder)
      /\ DiskHeaderAhead(Holder)' = DiskHeaderAhead(Holder)
      /\ IndexAhead(Holder)' = IndexAhead(Holder)
      /\ DataWith(pending[Holder])' = DataWith(pending[Holder])
  BY <1>s, <1>a, <1>b, HolderNext, LibraryBefore DEF Holding
<1> QED
  BY <1>1 DEF Library!disk

\* A call that returns at once, or reads and returns, leaves the file alone.
LEMMA IdlesAhead ==
  ASSUME Typed, NEW u \in Users, Shape(u), Current(u), Current(u)', Shape(u)', Idles(u)
  PROVE  Ahead(u)' = Ahead(u)
<1>1. /\ pc[u] = "idle" /\ pc'[u] \in Rest
      /\ header' = header
  BY DEF Idles
<1>2. IndexWith(pending[u]) = disk_metadata /\ Stored(u) = data
  BY <1>1, RestAhead
<1>3. /\ disk_metadata' = disk_metadata
      /\ data' = data
      /\ pending'[u].to \in {"nothing", "header"}
  <2>1. CASE UNCHANGED <<pending, disk>>
    BY <1>1, <2>1 DEF disk, Shape
  <2>2. CASE Write(u, NoWrite)
    BY <1>2, <2>2, WriteEffect DEF NoWrite
  <2> QED
    BY <2>1, <2>2 DEF Idles
<1>4. /\ IndexAhead(u)' = disk_metadata
      /\ Stored(u)' = data
  BY <1>1, <1>3 DEF IndexAhead, IndexWith, Stored, DataWith, Rest
<1>5. /\ HeaderAhead(u)' = header[u]
      /\ DiskHeaderAhead(u)' = header[u]
  BY <1>1 DEF HeaderAhead, DiskHeaderAhead, Counts, Rest, Current
<1>6. Ahead(u) = <<header[u], header[u], disk_metadata, data>>
  BY <1>1, RestsAhead
<1> QED
  BY <1>4, <1>5, <1>6 DEF Ahead

\* A step of a process that has the file for itself.
Undisturbed(u) ==
  /\ Typed /\ Typed'
  /\ Shape(u) /\ Shape(u)'
  /\ Current(u) /\ Current(u)'
  /\ Holding(u)

\* What a call that returns at once, or reads and returns, is to the library.
LEMMA IdlesLibrary ==
  ASSUME NEW u \in Users, Undisturbed(u), Idles(u)
  PROVE  /\ ~Off(Holder) /\ (~Off(Holder))' = ~Off(Holder)
         /\ HeaderAhead(Holder) = header[u]
         /\ HeaderAhead(Holder)' = HeaderAhead(Holder)
         /\ metadata[Holder] = metadata[u]
         /\ metadata[Holder]' = metadata'[u]
         /\ DataWith(pending[Holder]) = Stored(u)
         /\ UNCHANGED Library!disk
<1>1. pc[u] = "idle"
  BY DEF Idles
<1>2. Ahead(u)' = Ahead(u)
  BY IdlesAhead DEF Undisturbed
<1>3. HeaderAhead(Holder) = header[u] /\ DataWith(pending[Holder]) = Stored(u)
  BY <1>1, LibraryBefore, RestsAhead DEF Undisturbed, Ahead
<1> QED
  BY <1>2, <1>3, LibraryBefore, MemoryChanges DEF Undisturbed, Holding

LEMMA AtOnceReply ==
  ASSUME NEW u \in Users, NEW c, NEW err, ReturnsAtOnce(u, c, err)
  PROVE  reply' = Library!Reply(c, err, NoImage)
  BY LibraryReplies DEF ReturnsAtOnce

LEMMA InsertReturnsAtOnce ==
  ASSUME NEW u \in Users, Undisturbed(u), Idles(u), NEW id \in Ids, NEW img \in Images
  PROVE  /\ InsertFull(u, id, img) => Library!InsertFull(id, img)
         /\ InsertNowhere(u, id, img) => Library!InsertNowhere(id, img)
         /\ \A i \in Slots :
              /\ InsertUndecodable(u, i, id, img) => Library!InsertUndecodable(i, id, img)
              /\ InsertRefused(u, i, id, img) => Library!InsertRefused(i, id, img)
<1>1. Holder = u /\ pc[u] = "idle"
  BY DEF Undisturbed, Holding, Idles
<1>2. Library!Insert(id, img) = Insert(id, img)
  BY LibraryReplies
<1>3. ASSUME InsertFull(u, id, img)
      PROVE  Library!InsertFull(id, img)
  <2>1. /\ MaxFiles <= header[u].nb_files
        /\ metadata' = metadata
        /\ reply' = Library!Reply(Library!Insert(id, img), "ERR_IMGFS_FULL", NoImage)
    BY <1>2, <1>3, AtOnceReply DEF InsertFull
  <2> QED
    BY <2>1, IdlesLibrary DEF Library!InsertFull, Library!memory
<1>4. ASSUME InsertNowhere(u, id, img)
      PROVE  Library!InsertNowhere(id, img)
  <2>1. /\ header[u].nb_files < MaxFiles
        /\ Library!EmptySlots = {}
        /\ metadata' = metadata
        /\ reply' = Library!Reply(Library!Insert(id, img), "ERR_NONE", NoImage)
    BY <1>1, <1>2, <1>4, AtOnceReply, LibraryAtRest DEF InsertNowhere
  <2> QED
    BY <2>1, IdlesLibrary DEF Library!InsertNowhere, Library!memory
<1>t. metadata \in [Users -> [Slots -> Metadata]]
  BY DEF Undisturbed, Typed, TypeOK
<1>5. ASSUME NEW i \in Slots, InsertUndecodable(u, i, id, img)
      PROVE  Library!InsertUndecodable(i, id, img)
  <2>1. /\ Library!InsertAt(i)
        /\ img \in Broken
        /\ metadata'[u] = [metadata[u] EXCEPT ![i] = Filled(metadata[u][i], id, img)]
        /\ reply' = Library!Reply(Library!Insert(id, img), "ERR_IMGLIB", NoImage)
    BY <1>1, <1>2, <1>5, <1>t, AtOnceReply, LibraryAtRest DEF InsertUndecodable, SetsSlot
  <2>2. metadata[Holder]' =
          [metadata[Holder] EXCEPT ![i] = Library!Filled(metadata[Holder][i], id, img)]
    <3>1. Library!Filled(metadata[Holder][i], id, img) = Filled(metadata[u][i], id, img)
      BY IdlesLibrary, LibraryIndex
    <3> QED
      BY <2>1, <3>1, IdlesLibrary
  <2> QED
    BY <2>1, <2>2, IdlesLibrary DEF Library!InsertUndecodable
<1>6. ASSUME NEW i \in Slots, InsertRefused(u, i, id, img)
      PROVE  Library!InsertRefused(i, id, img)
  <2> DEFINE c == Library!Candidate(i, id, img)
             err == Library!CandidateError(i, id, img)
  <2>1. /\ c = Mine(u)!Candidate(i, id, img)
        /\ err = Mine(u)!CandidateError(i, id, img)
    BY <1>1, LibraryAtRest
  <2>2. /\ Library!InsertAt(i)
        /\ img \notin Broken
        /\ err # "ERR_NONE"
        /\ metadata'[u] = [metadata[u] EXCEPT ![i] = [c EXCEPT !.is_valid = FALSE]]
        /\ reply' = Library!Reply(Library!Insert(id, img), err, NoImage)
    BY <1>1, <1>2, <1>6, <1>t, <2>1, AtOnceReply, LibraryAtRest DEF InsertRefused, SetsSlot
  <2> QED
    BY <2>2, IdlesLibrary DEF Library!InsertRefused
<1> QED
  BY <1>3, <1>4, <1>5, <1>6

LEMMA ReadReturnsAtOnce ==
  ASSUME NEW u \in Users, Undisturbed(u), Idles(u), NEW id \in Ids, NEW res \in Res
  PROVE  /\ DeleteMissing(u, id) => Library!DeleteMissing(id)
         /\ ReadMissing(u, id, res) => Library!ReadMissing(id, res)
         /\ \A i \in Slots :
              ReadOutOfBounds(u, i, id, res) => Library!ReadOutOfBounds(i, id, res)
<1>1. Holder = u /\ pc[u] = "idle"
  BY DEF Undisturbed, Holding, Idles
<1>2. Library!Delete(id) = Delete(id) /\ Library!Read(id, res) = Read(id, res)
  BY LibraryReplies
<1>3. Library!Named(metadata[Holder], id) = Named(metadata[u], id)
  BY <1>1, LibraryIndex
<1>4. ASSUME DeleteMissing(u, id)
      PROVE  Library!DeleteMissing(id)
  <2>1. /\ Named(metadata[u], id) = {}
        /\ metadata' = metadata
        /\ reply' = Library!Reply(Library!Delete(id), "ERR_IMAGE_NOT_FOUND", NoImage)
    BY <1>2, <1>4, AtOnceReply DEF DeleteMissing
  <2> QED
    BY <1>3, <2>1, IdlesLibrary DEF Library!DeleteMissing, Library!memory
<1>5. ASSUME ReadMissing(u, id, res)
      PROVE  Library!ReadMissing(id, res)
  <2>1. /\ Named(metadata[u], id) = {}
        /\ metadata' = metadata
        /\ reply' = Library!Reply(Library!Read(id, res), "ERR_IMAGE_NOT_FOUND", NoImage)
    BY <1>2, <1>5, AtOnceReply DEF ReadMissing
  <2> QED
    BY <1>3, <2>1, IdlesLibrary DEF Library!ReadMissing, Library!memory
<1>6. ASSUME NEW i \in Slots, ReadOutOfBounds(u, i, id, res)
      PROVE  Library!ReadOutOfBounds(i, id, res)
  <2>1. /\ Library!ReadAt(i, id)
        /\ Library!CallsResize(i, res)
        /\ i >= header[u].nb_files
        /\ metadata' = metadata
        /\ reply' = Library!Reply(Library!Read(id, res), "ERR_INVALID_IMGID", NoImage)
    BY <1>1, <1>2, <1>6, AtOnceReply, LibraryAtRest DEF ReadOutOfBounds
  <2> QED
    BY <2>1, IdlesLibrary DEF Library!ReadOutOfBounds, Library!memory
<1> QED
  BY <1>4, <1>5, <1>6

LEMMA ReadsStored ==
  ASSUME NEW u \in Users, Undisturbed(u), Idles(u), NEW id \in Ids, NEW res \in Res,
         NEW i \in Slots
  PROVE  /\ ReadStored(u, i, id, res) =>
              Library!ReadStored(i, id, res) \/ Library!ReadFails(i, id, res)
         /\ ReadUnresized(u, i, id, res) =>
              Library!ReadUndecodable(i, id, res) \/ Library!ReadFails(i, id, res)
<1>1. Holder = u /\ pc[u] = "idle"
  BY DEF Undisturbed, Holding, Idles
<1>2. Library!Read(id, res) = Read(id, res)
  BY LibraryReplies
<1>3. \A r : Library!Content(metadata[Holder][i], DataWith(pending[Holder]), r) = Found(u, i, r)
  BY <1>1, LibraryIndex DEF Found
<1>4. i \in Int /\ header[u].nb_files \in Int
  BY Numbers DEF Slots, Undisturbed
<1>5. /\ Library!ReadAt(i, id) = Mine(u)!ReadAt(i, id)
      /\ Library!CallsResize(i, res) = Mine(u)!CallsResize(i, res)
      /\ Library!NeedsResize(i, res) = Mine(u)!NeedsResize(i, res)
  BY <1>1, LibraryAtRest
<1>6. /\ Library!NeedsResize(i, res) <=>
           /\ Library!CallsResize(i, res)
           /\ i < header[u].nb_files
           /\ metadata[u][i].size[res] = 0
  BY <1>1, IdlesLibrary DEF Library!NeedsResize
<1>7. ASSUME NEW err, NEW out, ReadsAndReturns(u, Read(id, res), err, out)
      PROVE  /\ reply' = Library!Reply(Library!Read(id, res), err, out)
             /\ UNCHANGED <<Library!memory, Library!disk>>
  <2>1. metadata' = metadata /\ reply' = Reply(Read(id, res), err, out)
    BY <1>7 DEF ReadsAndReturns, copies
  <2> QED
    BY <1>2, <2>1, IdlesLibrary, LibraryReplies DEF Library!memory
<1>8. ASSUME ReadStored(u, i, id, res)
      PROVE  Library!ReadStored(i, id, res) \/ Library!ReadFails(i, id, res)
  <2>1. /\ Library!ReadAt(i, id)
        /\ Library!CallsResize(i, res) =>
             i < header[u].nb_files /\ metadata[u][i].size[res] # 0
    BY <1>5, <1>8 DEF ReadStored
  <2>2. CASE ReadsAndReturns(u, Read(id, res), "ERR_NONE", Found(u, i, res))
    BY <1>1, <1>3, <1>7, <2>1, <2>2, IdlesLibrary DEF Library!ReadStored
  <2>3. CASE /\ Found(u, i, res) = NoImage
             /\ ReadsAndReturns(u, Read(id, res), "ERR_IO", NoImage)
    <3>1. Library!Wanted(i, res) = res
      BY <1>6, <2>1 DEF Library!Wanted
    <3>2. ~(Library!CallsResize(i, res) /\ i >= HeaderAhead(Holder).nb_files)
      BY <1>4, <2>1, IdlesLibrary
    <3> QED
      BY <1>3, <1>7, <2>1, <2>3, <3>1, <3>2 DEF Library!ReadFails
  <2> QED
    BY <1>8, <2>2, <2>3 DEF ReadStored
<1>9. ASSUME ReadUnresized(u, i, id, res)
      PROVE  Library!ReadUndecodable(i, id, res) \/ Library!ReadFails(i, id, res)
  <2>1. /\ Library!ReadAt(i, id)
        /\ Library!NeedsResize(i, res)
        /\ Found(u, i, ORIG_RES) = NoImage
    BY <1>5, <1>9 DEF ReadUnresized
  <2>2. CASE ReadsAndReturns(u, Read(id, res), "ERR_IMGLIB", NoImage)
    BY <1>3, <1>7, <2>1, <2>2 DEF Library!ReadUndecodable
  <2>3. CASE ReadsAndReturns(u, Read(id, res), "ERR_IO", NoImage)
    <3>1. Library!Wanted(i, res) = ORIG_RES
      BY <2>1 DEF Library!Wanted
    <3>2. ~(Library!CallsResize(i, res) /\ i >= HeaderAhead(Holder).nb_files)
      BY <1>4, <1>6, <2>1, IdlesLibrary
    <3> QED
      BY <1>3, <1>7, <2>1, <2>3, <3>1, <3>2 DEF Library!ReadFails
  <2> QED
    BY <1>9, <2>2, <2>3 DEF ReadUnresized
<1> QED
  BY <1>8, <1>9

\* The image of the call is in the file as soon as it is in the buffer.
LEMMA AppendsStored ==
  ASSUME Typed, NEW u \in Users, NEW b, Appends(u, b)
  PROVE  Stored(u)' = Append(Stored(u), b)
<1>1. data' = Stored(u) /\ pending'[u] = ToImages(End(u), b)
  BY WriteEffect DEF Appends
<1>2. Stored(u) \in Seq(Blobs) /\ End(u) = Len(Stored(u)) + 1
  BY FlushType DEF Typed, Stored, End
<1>3. End(u) > Len(data')
  <2>1. Len(Stored(u)) \in Nat
    BY <1>2
  <2> QED
    BY <1>1, <1>2, <2>1
<1> QED
  BY <1>1, <1>3 DEF Stored, DataWith, ToImages

\* A call that goes on after its first write, as the library sees it: the state
\* it will leave, in memory and in the file.
LEMMA CallDone ==
  ASSUME NEW u \in Users, Undisturbed(u)
  PROVE  /\ ~Off(Holder) /\ (~Off(Holder))' = ~Off(Holder)
         /\ metadata[Holder] = metadata[u]
         /\ metadata[Holder]' = metadata'[u]
         /\ HeaderAhead(Holder)' = HeaderAhead(u)'
         /\ DiskHeaderAhead(Holder)' = DiskHeaderAhead(u)'
         /\ IndexAhead(Holder)' = IndexAhead(u)'
         /\ DataWith(pending[Holder]) = Stored(u)
         /\ DataWith(pending[Holder])' = Stored(u)'
<1>1. Off(Holder)' = Off(Holder)
  BY HolderNext DEF Undisturbed, Holding, Off
<1> QED
  BY <1>1, HolderNext, LibraryBefore DEF Undisturbed, Holding, Stored

LEMMA InsertsDone ==
  ASSUME NEW u \in Users, Undisturbed(u), NEW id \in Ids, NEW img \in Images,
         NEW i \in Slots, NEW phase \in {"image", "entry"},
         Enters(u, i, Mine(u)!Entry(i, id, img), phase),
         phase = "image" => InsertImage(u, i, id, img),
         phase = "entry" => InsertShared(u, i, id, img)
  PROVE  Library!InsertDone(i, id, img)
<1> DEFINE e == Mine(u)!Entry(i, id, img)
<1>1. /\ Typed /\ Shape(u) /\ Current(u)
      /\ Holder = u /\ pc[u] = "idle" /\ pc'[u] = phase
      /\ header' = header
      /\ metadata'[u] = [metadata[u] EXCEPT ![i] = e]
  BY DEF Undisturbed, Holding, Enters, Moves
<1>2. IndexAhead(Holder) = disk_metadata /\ Stored(u) = data
  BY <1>1, RestAhead
<1>3. /\ InsertAccepted(u, i, id, img)
      /\ phase = "image" =>
           /\ Mine(u)!IsNew(i, id, img)
           /\ Appends(u, Blob(img, ORIG_RES))
      /\ phase = "entry" =>
           /\ ~Mine(u)!IsNew(i, id, img)
           /\ Write(u, ToEntry(i, e))
  BY DEF InsertImage, InsertShared
<1>4. /\ Library!InsertAccepted(i, id, img)
      /\ Library!IsNew(i, id, img) = Mine(u)!IsNew(i, id, img)
      /\ Library!Entry(i, id, img) = e
      /\ Library!BumpInsert = Mine(u)!BumpInsert
  BY <1>1, <1>3, LibraryAtRest DEF InsertAccepted
<1>5. reply' = Library!Reply(Library!Insert(id, img), "ERR_NONE", NoImage)
  BY <1>3, LibraryReplies DEF InsertAccepted
<1>6. HeaderAhead(u)' = Mine(u)!BumpInsert /\ DiskHeaderAhead(u)' = Mine(u)!BumpInsert
  BY <1>1 DEF HeaderAhead, DiskHeaderAhead, Counts, Mine!BumpInsert, Mine!Inc
<1> HIDE DEF e
<1>7. IndexAhead(u)' = [disk_metadata EXCEPT ![i] = e]
  <2>1. CASE phase = "image"
    <3> DEFINE w == ToImages(End(u), Blob(img, ORIG_RES))
    <3>1. Write(u, w)
      BY <1>3, <2>1 DEF Appends
    <3>2. w.to = "images"
      BY DEF ToImages
    <3>3. Enters(u, i, e, "image")
      BY <2>1 DEF e
    <3> HIDE DEF w
    <3> QED
      BY <1>1, <3>1, <3>2, <3>3, EntersIndex
  <2>2. CASE phase = "entry"
    BY <1>1, <1>3, <2>2, EntersIndex DEF e
  <2> QED
    BY <2>1, <2>2
<1>8. Library!AppendImage(i, id, img)
  <2>1. CASE phase = "image"
    <3>1. Appends(u, Blob(img, ORIG_RES)) /\ Library!IsNew(i, id, img)
      BY <1>3, <1>4, <2>1
    <3>2. Stored(u)' = Append(Stored(u), Blob(img, ORIG_RES))
      BY <1>1, <3>1, AppendsStored
    <3>3. Len(Stored(u)) < MaxBlobs
      <4>1. Len(Stored(u)) \in Nat
        BY <1>1, FlushType DEF Typed
      <4> QED
        BY <3>1, <4>1, SessionBoundsAssumption DEF Appends, End, Stored
    <3>4. Library!Blob(img, ORIG_RES) = Blob(img, ORIG_RES)
      BY LibraryIndex
    <3> QED
      BY <3>1, <3>2, <3>3, <3>4, CallDone DEF Library!AppendImage
  <2>2. CASE phase = "entry"
    <3>1. pending'[u] = ToEntry(i, e) /\ data' = Stored(u)
      BY <1>1, <1>3, <2>2, WriteEffect DEF e
    <3>2. Stored(u)' = Stored(u)
      BY <3>1 DEF Stored, DataWith, ToEntry
    <3>3. ~Library!IsNew(i, id, img)
      BY <1>3, <1>4, <2>2
    <3> QED
      BY <3>2, <3>3, CallDone DEF Library!AppendImage
  <2> QED
    BY <2>1, <2>2
<1> QED
  BY <1>1, <1>2, <1>4, <1>5, <1>6, <1>7, <1>8, CallDone DEF Library!InsertDone

LEMMA DeletesDone ==
  ASSUME NEW u \in Users, Undisturbed(u), NEW id \in Ids, NEW k,
         DeleteArray(u, id, k), Clears(u, id, k)
  PROVE  Library!DeleteDone(id)
<1> DEFINE f == Mine(u)!Deleted(id)
<1>1. /\ Typed /\ Shape(u) /\ Current(u)
      /\ Holder = u /\ pc[u] = "idle" /\ pc'[u] = "array"
      /\ header' = header
      /\ metadata'[u] = f
      /\ f = [metadata[u] EXCEPT ![First(Named(metadata[u], id))].is_valid = FALSE]
      /\ Stored(u) = data
  BY RestAhead DEF Undisturbed, Holding, Clears, Moves
<1>2. /\ Library!Named(metadata[Holder], id) # {}
      /\ Library!Deleted(id) = f
      /\ Library!BumpDelete = Mine(u)!BumpDelete
  BY <1>1, LibraryAtRest, LibraryIndex DEF DeleteArray
<1>3. reply' = Library!Reply(Library!Delete(id), "ERR_NONE", NoImage)
  BY LibraryReplies DEF DeleteArray
<1>4. HeaderAhead(u)' = Mine(u)!BumpDelete /\ DiskHeaderAhead(u)' = Mine(u)!BumpDelete
  BY <1>1 DEF HeaderAhead, DiskHeaderAhead, Counts, Mine!BumpDelete, Mine!Inc, Mine!Dec
<1> HIDE DEF f
<1>5. IndexAhead(u)' = f
  BY <1>1, ClearsIndex
<1>6. Stored(u)' = Stored(u)
  <2>1. data' = Stored(u) /\ pending'[u] = ToArray(k, Mine(u)!Deleted(id))
    BY <1>1 DEF DeleteArray, Stored, Typed, TypeOK
  <2> QED
    BY <2>1 DEF Stored, DataWith, ToArray
<1> QED
  BY <1>1, <1>2, <1>3, <1>4, <1>5, <1>6, CallDone DEF Library!DeleteDone

LEMMA ReadsResized ==
  ASSUME NEW u \in Users, Undisturbed(u), NEW id \in Ids, NEW res \in Res, NEW i \in Slots,
         ResizeImage(u, i, id, res),
         Completes(u, i, Mine(u)!ResizedEntry(i, res), Mine(u)!Resized(i, res))
  PROVE  Library!ReadResized(i, id, res)
<1> DEFINE e == Mine(u)!ResizedEntry(i, res)
           b == Mine(u)!Resized(i, res)
<1>1. /\ Typed /\ Shape(u) /\ Current(u)
      /\ Holder = u /\ pc[u] = "idle" /\ pc'[u] = "derived"
      /\ header' = header
      /\ metadata'[u] = [metadata[u] EXCEPT ![i] = e]
      /\ slot'[u] = i
      /\ Write(u, ToImages(End(u), b))
      /\ metadata[u] \in [Slots -> Metadata]
  BY DEF Undisturbed, Holding, Completes, Moves, Typed, TypeOK
<1>2. Ahead(u) = <<header[u], header[u], disk_metadata, data>> /\ Stored(u) = data
  BY <1>1, RestsAhead, RestAhead
<1>3. /\ Library!Resizes(i, id, res)
      /\ Library!Resized(i, res) = b
      /\ Library!ResizedEntry(i, res) = e
      /\ reply' = Library!Reply(Library!Read(id, res), "ERR_NONE", Library!Resized(i, res))
  BY <1>1, LibraryAtRest, LibraryReplies DEF ResizeImage
<1> HIDE DEF e, b
<1>4. /\ pending'[u] = ToImages(End(u), b)
      /\ disk_metadata' = disk_metadata
      /\ disk_header' = header[u]
  BY <1>1, RestAhead, WriteEffect DEF Current
<1>5. HeaderAhead(u)' = header[u] /\ DiskHeaderAhead(u)' = header[u]
  BY <1>1, <1>4 DEF HeaderAhead, DiskHeaderAhead, Counts, HeaderWith, ToImages
<1>6. IndexAhead(u)' = [disk_metadata EXCEPT ![i] = e]
  <2>1. IndexWith(pending[u])' = disk_metadata
    BY <1>4 DEF IndexWith, ToImages
  <2>2. metadata'[u][i] = e
    BY <1>1
  <2> QED
    BY <1>1, <2>1, <2>2 DEF IndexAhead
<1>7. Library!AppendResized(i, res)
  <2>1. Appends(u, b)
    BY DEF ResizeImage, b
  <2>2. Stored(u)' = Append(Stored(u), b)
    BY <1>1, <2>1, AppendsStored
  <2>3. Len(Stored(u)) < MaxBlobs
    <3>1. Len(Stored(u)) \in Nat
      BY <1>1, FlushType DEF Typed
    <3> QED
      BY <2>1, <3>1, SessionBoundsAssumption DEF Appends, End, Stored
  <2> QED
    BY <1>3, <2>2, <2>3, CallDone DEF Library!AppendResized
<1>8. /\ HeaderAhead(Holder) = header[u]
      /\ DiskHeaderAhead(Holder) = header[u]
      /\ IndexAhead(Holder) = disk_metadata
  BY <1>2, LibraryBefore DEF Undisturbed
<1> QED
  BY <1>1, <1>3, <1>5, <1>6, <1>7, <1>8, CallDone DEF Library!ReadResized

\* The later writes of a call change nothing of what will be in the file.
LEMMA UpdatesAhead ==
  ASSUME Typed, NEW u \in Users, NEW from, NEW to, Updates(u, from, to),
         <<from, to>> = <<"image", "entry">> \/ <<from, to>> = <<"derived", "update">>
  PROVE  Ahead(u)' = Ahead(u)
<1>1. /\ pc[u] = from /\ pc'[u] = to
      /\ UNCHANGED <<header, metadata, slot>>
  BY DEF Updates, Moves
<1>2. /\ pending'[u] = ToEntry(slot[u], metadata[u][slot[u]])
      /\ disk_header' = HeaderWith(pending[u])
      /\ disk_metadata' = IndexWith(pending[u])
      /\ data' = Stored(u)
  BY WriteEffect DEF Updates
<1>3. \/ pc[u] = "image" /\ pc'[u] = "entry"
      \/ pc[u] = "derived" /\ pc'[u] = "update"
  BY <1>1
<1>4. HeaderAhead(u)' = HeaderAhead(u)
  BY <1>1, <1>3 DEF HeaderAhead, Mine!BumpInsert, Mine!BumpDelete, Mine!Inc, Mine!Dec
<1>5. HeaderWith(pending[u])' = HeaderWith(pending[u])
  BY <1>2 DEF HeaderWith, ToEntry
<1>6. DiskHeaderAhead(u)' = DiskHeaderAhead(u)
  BY <1>3, <1>4, <1>5 DEF DiskHeaderAhead, Counts
<1>7. IndexAhead(u)' = IndexAhead(u)
  <2> DEFINE f == [IndexWith(pending[u]) EXCEPT ![slot[u]] = metadata[u][slot[u]]]
  <2>1. IndexAhead(u) = f
    BY <1>3 DEF IndexAhead
  <2>2. IndexWith(pending[u])' = f
    BY <1>2 DEF IndexWith, ToEntry
  <2>3. IndexAhead(u)' = IndexWith(pending[u])'
    BY <1>3 DEF IndexAhead
  <2> QED
    BY <2>1, <2>2, <2>3
<1>8. Stored(u)' = Stored(u)
  BY <1>2 DEF Stored, DataWith, ToEntry
<1> QED
  BY <1>4, <1>6, <1>7, <1>8 DEF Ahead

LEMMA EndsAhead ==
  ASSUME Typed, NEW u \in Users, NEW from \in {"entry", "array", "update"}, NEW w,
         Ends(u, from, HeaderAhead(u), w),
         w = (IF from = "update" THEN NoWrite ELSE ToHeader(HeaderAhead(u)))
  PROVE  Ahead(u)' = Ahead(u)
<1>1. /\ pc[u] = from /\ pc'[u] \in Rest
      /\ header'[u] = HeaderAhead(u)
  BY DEF Ends
<1>2. /\ pending'[u] = w
      /\ disk_header' = HeaderWith(pending[u])
      /\ disk_metadata' = IndexWith(pending[u])
      /\ data' = Stored(u)
  BY WriteEffect DEF Ends
<1>3. w.to \in {"nothing", "header"}
  BY DEF NoWrite, ToHeader
<1>4. HeaderAhead(u)' = HeaderAhead(u)
  <2>1. HeaderAhead(u)' = header'[u]
    BY <1>1 DEF HeaderAhead, Rest
  <2> QED
    BY <1>1, <2>1
<1>5. DiskHeaderAhead(u)' = DiskHeaderAhead(u)
  <2>1. DiskHeaderAhead(u)' = HeaderWith(pending[u])'
    BY <1>1 DEF DiskHeaderAhead, Counts, Rest
  <2>2. CASE from = "update"
    <3>1. HeaderWith(pending[u])' = HeaderWith(pending[u])
      BY <1>2, <2>2 DEF HeaderWith, NoWrite
    <3>2. DiskHeaderAhead(u) = HeaderWith(pending[u])
      BY <1>1, <2>2 DEF DiskHeaderAhead, Counts
    <3> QED
      BY <2>1, <3>1, <3>2
  <2>3. CASE from # "update"
    <3>1. pending'[u] = ToHeader(HeaderAhead(u))
      BY <1>2, <2>3
    <3>2. HeaderWith(pending[u])' = HeaderAhead(u)
      BY <3>1 DEF HeaderWith, ToHeader
    <3>3. DiskHeaderAhead(u) = HeaderAhead(u)
      BY <1>1, <2>3 DEF DiskHeaderAhead, Counts
    <3> QED
      BY <2>1, <3>2, <3>3
  <2> QED
    BY <2>2, <2>3
<1>6. IndexAhead(u)' = IndexAhead(u)
  <2>1. IndexAhead(u) = IndexWith(pending[u])
    BY <1>1 DEF IndexAhead
  <2>2. IndexWith(pending[u])' = disk_metadata'
    BY <1>2, <1>3 DEF IndexWith
  <2>3. IndexAhead(u)' = IndexWith(pending[u])'
    BY <1>1 DEF IndexAhead, Rest
  <2> QED
    BY <1>2, <2>1, <2>2, <2>3
<1>7. Stored(u)' = Stored(u)
  BY <1>2, <1>3 DEF Stored, DataWith
<1> QED
  BY <1>4, <1>5, <1>6, <1>7 DEF Ahead

\* The reply that lazily_resize prepares is what do_read will find.
Remembered(u) ==
  pc[u] \in {"derived", "update"} =>
    reply = Reply(call[u], "ERR_NONE",
                  Content(metadata[u][slot[u]], Stored(u), call[u].arg))

LEMMA LaterUnchanged ==
  ASSUME NEW u \in Users, Undisturbed(u), Remembered(u),
         \/ InsertEntry(u) \/ InsertHeader(u) \/ DeleteHeader(u)
         \/ ResizeEntry(u) \/ ReadDerived(u)
  PROVE  UNCHANGED Library!vars
<1>t. Typed /\ Holding(u)
  BY DEF Undisturbed
<1>1. CASE InsertEntry(u)
  <2>1. Updates(u, "image", "entry")
    BY <1>t, <1>1, LaterEffect
  <2>2. Ahead(u)' = Ahead(u)
    BY <1>t, <2>1, UpdatesAhead
  <2> QED
    BY <1>t, <2>1, <2>2, SeenUnchanged DEF Updates
<1>2. CASE ResizeEntry(u)
  <2>1. Updates(u, "derived", "update")
    BY <1>t, <1>2, LaterEffect
  <2>2. Ahead(u)' = Ahead(u)
    BY <1>t, <2>1, UpdatesAhead
  <2> QED
    BY <1>t, <2>1, <2>2, SeenUnchanged DEF Updates
<1>3. CASE InsertHeader(u)
  <2>1. Ends(u, "entry", Mine(u)!BumpInsert, ToHeader(Mine(u)!BumpInsert))
    BY <1>t, <1>3, LaterEffect
  <2>2. HeaderAhead(u) = Mine(u)!BumpInsert
    BY <2>1 DEF Ends, HeaderAhead
  <2>3. Ahead(u)' = Ahead(u)
    BY <1>t, <2>1, <2>2, EndsAhead
  <2>4. reply' = reply /\ metadata' = metadata
    BY <1>3 DEF InsertHeader
  <2> QED
    BY <1>t, <2>3, <2>4, SeenUnchanged
<1>4. CASE DeleteHeader(u)
  <2>1. Ends(u, "array", Mine(u)!BumpDelete, ToHeader(Mine(u)!BumpDelete))
    BY <1>t, <1>4, LaterEffect
  <2>2. HeaderAhead(u) = Mine(u)!BumpDelete
    BY <2>1 DEF Ends, HeaderAhead
  <2>3. Ahead(u)' = Ahead(u)
    BY <1>t, <2>1, <2>2, EndsAhead
  <2>4. reply' = reply /\ metadata' = metadata
    BY <1>4 DEF DeleteHeader
  <2> QED
    BY <1>t, <2>3, <2>4, SeenUnchanged
<1>5. CASE ReadDerived(u)
  <2>1. Ends(u, "update", header[u], NoWrite)
    BY <1>t, <1>5, LaterEffect
  <2>2. HeaderAhead(u) = header[u]
    BY <2>1 DEF Ends, HeaderAhead
  <2>3. Ahead(u)' = Ahead(u)
    BY <1>t, <2>1, <2>2, EndsAhead
  <2>4. reply' = reply
    BY <1>5, <2>1 DEF ReadDerived, Remembered, Found, Stored, Ends
  <2>5. metadata' = metadata
    BY <1>5 DEF ReadDerived, copies
  <2> QED
    BY <1>t, <2>3, <2>4, <2>5, SeenUnchanged
<1> QED
  BY <1>1, <1>2, <1>3, <1>4, <1>5

\* The derived image is found where the entry says, once the entry is complete.
LEMMA ResizeRemembers ==
  ASSUME Typed, NEW u \in Users, NEW id \in Ids, NEW res \in Res, NEW i \in Slots,
         ResizeImage(u, i, id, res),
         Completes(u, i, Mine(u)!ResizedEntry(i, res), Mine(u)!Resized(i, res))
  PROVE  Remembered(u)'
<1> DEFINE e == Mine(u)!ResizedEntry(i, res)
           m == metadata[u][i]
           b == Blob(Content(m, Stored(u), ORIG_RES).img, res)
<1>1. /\ metadata'[u] = [metadata[u] EXCEPT ![i] = e]
      /\ slot'[u] = i
      /\ metadata[u] \in [Slots -> Metadata]
  BY DEF Completes, Typed, TypeOK
<1>2. /\ call'[u] = Read(id, res)
      /\ Mine(u)!Resizes(i, id, res)
      /\ Appends(u, Mine(u)!Resized(i, res))
      /\ reply' = Reply(Read(id, res), "ERR_NONE", Mine(u)!Resized(i, res))
  BY DEF ResizeImage, Starts, Typed, CallsTyped
<1>3. /\ Mine(u)!Resized(i, res) = b
      /\ e = [m EXCEPT !.size[res] = BlobSize(b), !.offset[res] = End(u)]
      /\ Content(m, Stored(u), ORIG_RES) # NoImage
  <2>1. /\ Mine(u)!Resized(i, res) = b
        /\ e = [m EXCEPT !.size[res] = BlobSize(b), !.offset[res] = End(u)]
    BY MineReads, Zenon
  <2>2. Content(m, Stored(u), ORIG_RES) # NoImage
    BY <1>2, MineReads
  <2> QED
    BY <2>1, <2>2
<1>4. m \in Metadata /\ b \in Blobs
  BY <1>1, <1>3, ResizeType DEF Typed
<1>5. Stored(u) \in Seq(Blobs) /\ End(u) = Len(Stored(u)) + 1
  BY FlushType DEF Typed, Stored, End
<1>6. Stored(u)' = Append(Stored(u), b)
  BY <1>2, <1>3, AppendsStored
<1> HIDE DEF e, m, b
<1>7. e.size[res] = BlobSize(b) /\ e.offset[res] = Len(Stored(u)) + 1
  BY <1>3, <1>4, <1>5 DEF Metadata
<1>8. Content(e, Append(Stored(u), b), res) = b
  BY <1>4, <1>5, <1>7, AppendedIsFound DEF Content
<1>9. metadata'[u][slot'[u]] = e /\ call'[u].arg = res
  BY <1>1, <1>2 DEF Read, Call
<1>10. Content(metadata'[u][slot'[u]], Stored(u)', call'[u].arg) = b
  BY <1>6, <1>8, <1>9
<1>11. reply' = Reply(call'[u], "ERR_NONE", b)
  BY <1>2, <1>3
<1> QED
  BY <1>10, <1>11 DEF Remembered

\* A process that is not making a derived image has nothing to remember.
LEMMA EffectRemembers ==
  ASSUME Typed, NEW u \in Users, UserStep(u), Remembered(u), ~Off(u), ~Off(u)'
  PROVE  Remembered(u)'
<1>1. CASE Updates(u, "derived", "update")
  <2>1. Stored(u)' = Stored(u)
    <3>1. pending'[u] = ToEntry(slot[u], metadata[u][slot[u]]) /\ data' = Stored(u)
      BY <1>1, WriteEffect DEF Updates
    <3> QED
      BY <3>1 DEF Stored, DataWith, ToEntry
  <2>2. pc[u] = "derived" /\ UNCHANGED <<metadata, slot, call, reply>>
    BY <1>1 DEF Updates, Moves
  <2> QED
    BY <2>1, <2>2 DEF Remembered, Content
<1>2. CASE \E id \in Ids, res \in Res : ReadStep(u, id, res)
  <2>1. CASE Idles(u)
    BY <2>1 DEF Idles, Rest, Remembered
  <2> QED
    BY <1>2, <2>1, ReadEffect, ResizeRemembers
<1>3. CASE \E id \in Ids, img \in Images : InsertStep(u, id, img)
  <2>1. pc'[u] \notin {"derived", "update"}
    BY <1>3, InsertEffect DEF Idles, Rest, Enters, Moves
  <2> QED
    BY <2>1 DEF Remembered
<1>4. CASE \E id \in Ids : DeleteStep(u, id)
  <2>1. pc'[u] \notin {"derived", "update"}
    BY <1>4, DeleteEffect DEF Idles, Rest, Clears, Moves
  <2> QED
    BY <2>1 DEF Remembered
<1>5. CASE InsertEntry(u) \/ InsertHeader(u) \/ DeleteHeader(u) \/ ReadDerived(u)
  <2>1. pc'[u] \notin {"derived", "update"}
    BY <1>5, LaterEffect DEF Updates, Moves, Ends, Rest
  <2> QED
    BY <2>1 DEF Remembered
<1>6. CASE ResizeEntry(u)
  BY <1>1, <1>6, LaterEffect
<1>7. ~Open(u) /\ ~Close(u) /\ ~Kill(u)
  <2>1. Gone(u) => Off(u)'
    BY GoneOwn DEF Off
  <2> QED
    BY <2>1 DEF Open, Close, Kill
<1> QED
  BY <1>2, <1>3, <1>4, <1>5, <1>6, <1>7 DEF UserStep

\* The inductive invariant for what the calls are to the library.
Reading ==
  /\ Counting
  /\ ~overlapped => \A u \in Users : Remembered(u)

LEMMA NextReading ==
  ASSUME Reading, [Next]_vars
  PROVE  Reading'
<1>1. Typed /\ Told /\ Counting'
  BY NextCounting DEF Reading, Counting, Told
<1>2. ASSUME ~overlapped', NEW u \in Users, Off(u)'
      PROVE  Remembered(u)'
  BY <1>2 DEF Off, Remembered
<1>3. ASSUME ~overlapped', NEW u \in Users, UserStep(u), ~Off(u), ~Off(u)'
      PROVE  \A v \in Users : Remembered(v)'
  <2>1. Inside(u) /\ Effect(u)
    <3>1. Gone(u) => Off(u)'
      BY <1>1, GoneOwn DEF Off
    <3> QED
      BY <1>1, <1>3, <3>1, UserEffect DEF Open, Close, Kill
  <2>2. overlapped' = overlapped
    BY <2>1 DEF Effect, Idles, Enters, Clears, Completes, Updates, Ends
  <2>3. Remembered(u)'
    BY <1>1, <1>3, <2>2, EffectRemembers DEF Reading
  <2>4. ASSUME NEW v \in Users \ {u}
        PROVE  Off(v)'
    <3>1. Alone /\ OnlyOwn(u)
      BY <1>1, <1>3, <2>1, <2>2 DEF Told, Sole, Inside
    <3> QED
      BY <1>3, <3>1 DEF Alone, OnlyOwn, Off
  <2> QED
    BY <1>2, <1>3, <2>3, <2>4
<1>4. ASSUME ~overlapped', NEW u \in Users, UserStep(u)
      PROVE  \A v \in Users : Remembered(v)'
  <2>1. CASE Open(u)
    <3>1. \A v \in Users : Off(v)
      BY <1>4, <2>1, Zenon DEF Open
    <3>2. pc'[u] = "idle" /\ \A v \in Users \ {u} : Off(v)'
      BY <1>1, <2>1, <3>1, OpenOwn DEF OnlyOwn, Off
    <3>3. Remembered(u)'
      BY <3>2 DEF Remembered
    <3> QED
      BY <1>2, <1>4, <3>2, <3>3
  <2>2. CASE Close(u) \/ Kill(u)
    <3>1. Off(u)' /\ OnlyOwn(u)
      BY <1>1, <2>2, GoneOwn DEF Close, Kill, Off
    <3>2. Alone /\ ~Off(u)
      BY <1>1, <1>4, <2>2 DEF Close, Kill, Gone, Off, Told, Sole
    <3>3. \A v \in Users : Off(v)'
      BY <3>1, <3>2 DEF Alone, OnlyOwn, Off
    <3> QED
      BY <1>2, <1>4, <3>3
  <2>3. CASE ~Off(u) /\ ~Off(u)'
    BY <1>3, <1>4, <2>3
  <2> QED
    BY <1>1, <1>4, <2>1, <2>2, <2>3, UserEffect DEF Inside, Off
<1>5. ASSUME ~overlapped', Interrupt
      PROVE  \A v \in Users : Remembered(v)'
  <2>1. "server" \in Users
    BY DEF Users
  <2>2. Off("server")' /\ OnlyOwn("server")
    BY <1>1, <1>5, <2>1, GoneOwn DEF Interrupt, Off
  <2>3. Alone /\ ~Off("server")
    BY <1>1, <1>5 DEF Interrupt, Gone, Told, Sole
  <2>4. \A v \in Users : Off(v)'
    BY <2>1, <2>2, <2>3 DEF Alone, OnlyOwn, Off
  <2> QED
    BY <1>2, <1>5, <2>4
<1>6. ASSUME ~overlapped', Create
      PROVE  \A v \in Users : Remembered(v)'
  BY <1>2, <1>6 DEF Create, Off
<1>7. ASSUME ~overlapped', UNCHANGED vars
      PROVE  \A v \in Users : Remembered(v)'
  BY <1>7 DEF vars, copies, disk, calling, history, Reading, Remembered, Stored, DataWith,
              Content, BytesAt
<1> QED
  BY <1>1, <1>4, <1>5, <1>6, <1>7 DEF Reading, Next

\* What nobody holds is what is in the file.
LEMMA NobodyAhead ==
  ASSUME NEW u \in Users, Forgotten, Off(u)
  PROVE  /\ Ahead(u) = <<BlankHeader, disk_header, disk_metadata, data>>
         /\ metadata[u] = BlankIndex
<1>1. /\ pc[u] = "off" /\ pending[u] = NoWrite
      /\ header[u] = BlankHeader /\ metadata[u] = BlankIndex
  BY DEF Forgotten, Off
<1>2. /\ HeaderAhead(u) = BlankHeader
      /\ DiskHeaderAhead(u) = disk_header
      /\ IndexAhead(u) = disk_metadata
      /\ Stored(u) = data
  BY <1>1 DEF HeaderAhead, DiskHeaderAhead, Counts, HeaderWith, IndexAhead, IndexWith,
              Stored, DataWith, NoWrite
<1> QED
  BY <1>1, <1>2 DEF Ahead

LEMMA NobodyAheadNext ==
  ASSUME NEW u \in Users, Forgotten', Off(u)'
  PROVE  /\ Ahead(u)' = <<BlankHeader, disk_header', disk_metadata', data'>>
         /\ metadata'[u] = BlankIndex
<1>1. /\ pc'[u] = "off" /\ pending'[u] = NoWrite
      /\ header'[u] = BlankHeader /\ metadata'[u] = BlankIndex
  BY DEF Forgotten, Off
<1>2. /\ HeaderAhead(u)' = BlankHeader
      /\ DiskHeaderAhead(u)' = disk_header'
      /\ IndexAhead(u)' = disk_metadata'
      /\ Stored(u)' = data'
  BY <1>1 DEF HeaderAhead, DiskHeaderAhead, Counts, HeaderWith, IndexAhead, IndexWith,
              Stored, DataWith, NoWrite
<1> QED
  BY <1>1, <1>2 DEF Ahead

\* The library before and after a step, by who holds the file.
LEMMA HolderAhead ==
  ASSUME NEW u \in Users, Holder = u
  PROVE  /\ metadata[Holder] = metadata[u]
         /\ Off(Holder) = Off(u)
         /\ <<HeaderAhead(Holder), DiskHeaderAhead(Holder),
              IndexAhead(Holder), DataWith(pending[Holder])>> = Ahead(u)
  BY DEF Ahead, Stored

LEMMA HolderAheadNext ==
  ASSUME NEW u \in Users, Holder' = u
  PROVE  /\ metadata[Holder]' = metadata'[u]
         /\ Off(Holder)' = Off(u)'
         /\ <<HeaderAhead(Holder)', DiskHeaderAhead(Holder)',
              IndexAhead(Holder)', DataWith(pending[Holder])'>> = Ahead(u)'
  BY HolderNext DEF Ahead

LEMMA HolderIsUser ==
  /\ Holder \in Users
  /\ (\A u \in Users : Off(u)) => Off(Holder)
  /\ \A u \in Users : ~Off(u) /\ (\A v \in Users \ {u} : Off(v)) => Holder = u
<1>1. Holder \in Users
  BY DEF Holder, Users
<1>2. ASSUME NEW u \in Users, ~Off(u), \A v \in Users \ {u} : Off(v)
      PROVE  Holder = u
  BY <1>2 DEF Holder, Users
<1> QED
  BY <1>1, <1>2

LEMMA HolderIsUserNext ==
  /\ Holder' \in Users
  /\ (\A u \in Users : Off(u)') => Off(Holder)'
  /\ \A u \in Users : ~Off(u)' /\ (\A v \in Users \ {u} : Off(v)') => Holder' = u
<1>1. Holder' \in Users
  BY DEF Holder, Users
<1>2. ASSUME NEW u \in Users, ~Off(u)', \A v \in Users \ {u} : Off(v)'
      PROVE  Holder' = u
  BY <1>2 DEF Holder, Users
<1>3. ASSUME \A u \in Users : Off(u)'
      PROVE  Off(Holder)'
  <2>1. PICK u \in Users : Holder' = u
    BY <1>1
  <2> QED
    BY <1>3, <2>1, HolderNext
<1> QED
  BY <1>1, <1>2, <1>3

LEMMA NobodyHolds ==
  ASSUME Forgotten, \A u \in Users : Off(u)
  PROVE  /\ Off(Holder) = TRUE
         /\ HeaderAhead(Holder) = BlankHeader
         /\ metadata[Holder] = BlankIndex
         /\ DiskHeaderAhead(Holder) = disk_header
         /\ IndexAhead(Holder) = disk_metadata
         /\ DataWith(pending[Holder]) = data
<1>1. PICK u \in Users : Holder = u
  BY HolderIsUser
<1>2. Off(u)
  OBVIOUS
<1>3. /\ Ahead(u) = <<BlankHeader, disk_header, disk_metadata, data>>
      /\ metadata[u] = BlankIndex
  BY <1>2, NobodyAhead
<1>4. /\ metadata[Holder] = BlankIndex
      /\ <<HeaderAhead(Holder), DiskHeaderAhead(Holder),
           IndexAhead(Holder), DataWith(pending[Holder])>>
           = <<BlankHeader, disk_header, disk_metadata, data>>
  BY <1>1, <1>3, HolderAhead
<1>5. Off(Holder) = TRUE
  BY <1>1, <1>2 DEF Off
<1> QED
  BY <1>4, <1>5

LEMMA NobodyHoldsNext ==
  ASSUME Forgotten', \A u \in Users : Off(u)'
  PROVE  /\ Off(Holder)' = TRUE
         /\ HeaderAhead(Holder)' = BlankHeader
         /\ metadata[Holder]' = BlankIndex
         /\ DiskHeaderAhead(Holder)' = disk_header'
         /\ IndexAhead(Holder)' = disk_metadata'
         /\ DataWith(pending[Holder])' = data'
<1>1. PICK u \in Users : Holder' = u
  BY HolderIsUserNext
<1>2. Off(u)'
  OBVIOUS
<1>3. /\ Ahead(u)' = <<BlankHeader, disk_header', disk_metadata', data'>>
      /\ metadata'[u] = BlankIndex
  BY <1>2, NobodyAheadNext
<1>4. /\ metadata[Holder]' = BlankIndex
      /\ <<HeaderAhead(Holder)', DiskHeaderAhead(Holder)',
           IndexAhead(Holder)', DataWith(pending[Holder])'>>
           = <<BlankHeader, disk_header', disk_metadata', data'>>
  BY <1>1, <1>3, HolderAheadNext
<1>5. Off(Holder)' = TRUE
  <2>1. Off(u)' = TRUE
    BY <1>2 DEF Off
  <2> QED
    BY <1>1, <2>1, HolderAheadNext
<1> QED
  BY <1>4, <1>5

LEMMA OpensLibrary ==
  ASSUME Typed, Forgotten, NEW u \in Users, Open(u), \A v \in Users : Off(v)
  PROVE  Library!Open
<1>1. /\ Off(Holder)
      /\ DiskHeaderAhead(Holder) = disk_header
      /\ IndexAhead(Holder) = disk_metadata
      /\ DataWith(pending[Holder]) = data
  BY NobodyHolds
<1>2. /\ pc'[u] = "idle" /\ ~Off(u)'
      /\ \A w \in Users \ {u} : Off(w)'
  BY OpenOwn DEF OnlyOwn, Off
<1>3. Holder' = u
  BY <1>2, HolderIsUserNext
<1>4. /\ pending' = pending /\ pending[u] = NoWrite
      /\ UNCHANGED <<disk_header, disk_metadata, data>>
      /\ header'[u] = disk_header
      /\ metadata'[u] = disk_metadata
      /\ reply' = Reply(NoCall, "ERR_NONE", NoImage)
  BY DEF Open, Forgotten, disk, Typed, TypeOK
<1>5. /\ HeaderAhead(u)' = disk_header
      /\ DiskHeaderAhead(u)' = disk_header
      /\ IndexAhead(u)' = disk_metadata
      /\ Stored(u)' = data
  BY <1>2, <1>4 DEF HeaderAhead, DiskHeaderAhead, Counts, HeaderWith, IndexAhead, IndexWith,
                    Stored, DataWith, NoWrite
<1>6. /\ ~Off(Holder)'
      /\ HeaderAhead(Holder)' = disk_header
      /\ metadata[Holder]' = disk_metadata
      /\ DiskHeaderAhead(Holder)' = disk_header
      /\ IndexAhead(Holder)' = disk_metadata
      /\ DataWith(pending[Holder])' = data
  BY <1>2, <1>3, <1>4, <1>5, HolderNext
<1>7. reply' = Library!Reply(Library!Call("none", NoId, NoImage), "ERR_NONE", NoImage)
  BY <1>4, LibraryReplies DEF NoCall
<1> QED
  BY <1>1, <1>6, <1>7 DEF Library!Open, Library!disk

LEMMA ClosesLibrary ==
  ASSUME Typed, Forgotten', NEW u \in Users, Shape(u), Current(u), Close(u),
         \A v \in Users \ {u} : Off(v)
  PROVE  Library!Close
<1>1. /\ ~Off(u) /\ pc[u] \in Rest
      /\ Off(u)' /\ \A v \in Users \ {u} : Off(v)'
  BY GoneOwn DEF Close, OnlyOwn, Off, Rest
<1>2. Holder = u
  BY <1>1, HolderIsUser
<1>3. /\ disk_header' = HeaderWith(pending[u])
      /\ disk_metadata' = IndexWith(pending[u])
      /\ data' = Stored(u)
      /\ reply' = Reply(NoCall, "ERR_NONE", NoImage)
  BY DEF Close, Flush, Gone, Stored
<1>4. /\ DiskHeaderAhead(u) = HeaderWith(pending[u])
      /\ IndexAhead(u) = IndexWith(pending[u])
  BY <1>1 DEF DiskHeaderAhead, Counts, IndexAhead, Rest
<1>5. /\ ~Off(Holder)
      /\ DiskHeaderAhead(Holder) = disk_header'
      /\ IndexAhead(Holder) = disk_metadata'
      /\ DataWith(pending[Holder]) = data'
  <2>1. <<HeaderAhead(Holder), DiskHeaderAhead(Holder),
          IndexAhead(Holder), DataWith(pending[Holder])>>
          = <<HeaderAhead(u), disk_header', disk_metadata', data'>>
    BY <1>2, <1>3, <1>4, HolderAhead DEF Ahead
  <2> QED
    BY <1>1, <1>2, <2>1
<1>6. /\ Off(Holder)'
      /\ HeaderAhead(Holder)' = BlankHeader
      /\ metadata[Holder]' = BlankIndex
      /\ DiskHeaderAhead(Holder)' = disk_header'
      /\ IndexAhead(Holder)' = disk_metadata'
      /\ DataWith(pending[Holder])' = data'
  <2>1. \A v \in Users : Off(v)'
    BY <1>1
  <2> QED
    BY <2>1, NobodyHoldsNext
<1>7. reply' = Library!Reply(Library!Call("none", NoId, NoImage), "ERR_NONE", NoImage)
  BY <1>3, LibraryReplies DEF NoCall
<1> QED
  BY <1>5, <1>6, <1>7, LibraryIndex DEF Library!Close, Library!disk

LEMMA CreatesLibrary ==
  ASSUME Forgotten, Forgotten', Create
  PROVE  Library!Create
<1>1. (\A u \in Users : Off(u)) /\ (\A u \in Users : Off(u)')
  BY DEF Create, Off
<1>2. /\ Off(Holder) = TRUE
      /\ HeaderAhead(Holder) = BlankHeader
      /\ metadata[Holder] = BlankIndex
  BY <1>1, NobodyHolds
<1>3. /\ Off(Holder)' = TRUE
      /\ HeaderAhead(Holder)' = BlankHeader
      /\ metadata[Holder]' = BlankIndex
      /\ DiskHeaderAhead(Holder)' = disk_header'
      /\ IndexAhead(Holder)' = disk_metadata'
      /\ DataWith(pending[Holder])' = data'
  BY <1>1, NobodyHoldsNext
<1>4. /\ disk_header' = Library!BlankHeader
      /\ disk_metadata' = Library!BlankIndex
      /\ data' = <<>>
      /\ reply' = Library!Reply(Library!Call("create", NoId, NoImage), "ERR_NONE", NoImage)
  BY LibraryIndex, LibraryReplies DEF Create
<1>5. (~Off(Holder))' = ~Off(Holder)
  BY <1>2, <1>3
<1> QED
  BY <1>2, <1>3, <1>4, <1>5 DEF Library!Create, Library!memory

\* Every step of the one process that has the file open is a call of the library,
\* or none.
LEMMA StepsLibrary ==
  ASSUME NEW u \in Users, UserStep(u), Undisturbed(u), Remembered(u)
  PROVE  Library!Next \/ UNCHANGED Library!vars
<1>t. Typed
  BY DEF Undisturbed
<1>1. ASSUME NEW id \in Ids, NEW img \in Images, InsertStep(u, id, img)
      PROVE  Library!InsertCall(id, img)
  <2>1. CASE Idles(u)
    <3>1. ~\E i \in Slots : InsertImage(u, i, id, img) \/ InsertShared(u, i, id, img)
      BY <1>t, <2>1 DEF InsertImage, InsertShared, Starts, Goes, Idles, Rest, Typed, TypeOK
    <3> QED
      BY <1>1, <2>1, <3>1, InsertReturnsAtOnce, LibraryIndex
      DEF InsertStep, Library!InsertCall
  <2>2. ASSUME NEW i \in Slots, InsertImage(u, i, id, img),
               Enters(u, i, Mine(u)!Entry(i, id, img), "image")
        PROVE  Library!InsertCall(id, img)
    <3>1. Library!InsertDone(i, id, img)
      BY <2>2, InsertsDone
    <3> QED
      BY <3>1, LibraryIndex DEF Library!InsertCall
  <2>3. ASSUME NEW i \in Slots, InsertShared(u, i, id, img),
               Enters(u, i, Mine(u)!Entry(i, id, img), "entry")
        PROVE  Library!InsertCall(id, img)
    <3>1. Library!InsertDone(i, id, img)
      BY <2>3, InsertsDone
    <3> QED
      BY <3>1, LibraryIndex DEF Library!InsertCall
  <2> QED
    BY <1>t, <1>1, <2>1, <2>2, <2>3, InsertEffect
<1>2. ASSUME NEW id \in Ids, DeleteStep(u, id)
      PROVE  Library!DeleteCall(id)
  <2>1. CASE Idles(u)
    <3>1. ~\E k \in 0 .. MaxFiles : DeleteArray(u, id, k)
      BY <1>t, <2>1 DEF DeleteArray, Starts, Goes, Idles, Rest, Typed, TypeOK
    <3>2. DeleteMissing(u, id)
      BY <1>2, <3>1 DEF DeleteStep
    <3>3. ORIG_RES \in Res
      BY DEF Res
    <3>4. Library!DeleteMissing(id)
      BY <2>1, <3>2, <3>3, ReadReturnsAtOnce
    <3> QED
      BY <3>4 DEF Library!DeleteCall
  <2>2. ASSUME NEW k \in 0 .. MaxFiles, DeleteArray(u, id, k), Clears(u, id, k)
        PROVE  Library!DeleteCall(id)
    <3>1. Library!DeleteDone(id)
      BY <2>2, DeletesDone
    <3> QED
      BY <3>1 DEF Library!DeleteCall
  <2> QED
    BY <1>t, <1>2, <2>1, <2>2, DeleteEffect
<1>3. ASSUME NEW id \in Ids, NEW res \in Res, ReadStep(u, id, res)
      PROVE  Library!ReadCall(id, res)
  <2>1. CASE Idles(u)
    <3>1. ~\E i \in Slots : ResizeImage(u, i, id, res)
      BY <1>t, <2>1 DEF ResizeImage, Starts, Goes, Idles, Rest, Typed, TypeOK
    <3>2. \/ ReadMissing(u, id, res)
          \/ \E i \in Slots : \/ ReadOutOfBounds(u, i, id, res)
                              \/ ReadStored(u, i, id, res)
                              \/ ReadUnresized(u, i, id, res)
      BY <1>3, <3>1 DEF ReadStep
    <3>3. \/ Library!ReadMissing(id, res)
          \/ \E i \in Slots : \/ Library!ReadOutOfBounds(i, id, res)
                              \/ Library!ReadStored(i, id, res)
                              \/ Library!ReadUndecodable(i, id, res)
                              \/ Library!ReadFails(i, id, res)
      BY <2>1, <3>2, ReadReturnsAtOnce, ReadsStored
    <3> QED
      BY <3>3, LibraryIndex DEF Library!ReadCall
  <2>2. ASSUME NEW i \in Slots, ResizeImage(u, i, id, res),
               Completes(u, i, Mine(u)!ResizedEntry(i, res), Mine(u)!Resized(i, res))
        PROVE  Library!ReadCall(id, res)
    <3>1. Library!ReadResized(i, id, res)
      BY <2>2, ReadsResized
    <3> QED
      BY <3>1, LibraryIndex DEF Library!ReadCall
  <2> QED
    BY <1>t, <1>3, <2>1, <2>2, ReadEffect
<1>4. ~Open(u) /\ ~Close(u) /\ ~Kill(u)
  <2>1. Gone(u) => Off(u)'
    BY <1>t, GoneOwn DEF Off
  <2> QED
    BY <2>1 DEF Open, Close, Kill, Undisturbed, Holding
<1>5. \/ \E id \in Ids, img \in Images : InsertStep(u, id, img)
      \/ \E id \in Ids : DeleteStep(u, id)
      \/ \E id \in Ids, res \in Res : ReadStep(u, id, res)
      \/ InsertEntry(u) \/ InsertHeader(u) \/ DeleteHeader(u)
      \/ ResizeEntry(u) \/ ReadDerived(u)
  BY <1>4 DEF UserStep
<1>6. Library!Res = Res
  BY DEF Library!Res, Res
<1> QED
  BY <1>1, <1>2, <1>3, <1>5, <1>6, LaterUnchanged DEF Library!Next

\* What a process that has the file for itself does to it, write by write, is what
\* the calls of the library do at once, as long as nobody is cut off.
THEOREM SessionsImplementLibrary == Spec => ImplementsLibrary
<1>1. Init => Reading
  <2> SUFFICES ASSUME Init
               PROVE  Reading
    OBVIOUS
  <2>1. \A u \in Users : Remembered(u)
    BY DEF Init, Remembered
  <2> QED
    BY <2>1, InitCounting DEF Reading
<1>2. Reading /\ [Next]_vars => Reading'
  BY NextReading
<1>3. ASSUME Reading, Reading', [Next]_vars
      PROVE  [~overlapped' /\ cuts' = cuts => Library!Next \/ UNCHANGED Library!vars]_vars
  <2> SUFFICES ASSUME Next, ~overlapped', cuts' = cuts
               PROVE  Library!Next \/ UNCHANGED Library!vars
    BY <1>3
  <2>1. /\ Typed /\ Typed' /\ Forgotten /\ Forgotten' /\ Shaped /\ Shaped'
        /\ Told /\ Alone' /\ cuts \in Nat
    BY <1>3 DEF Reading, Counting, Told, Sole
  <2>2. cuts' # cuts + 1
    BY <2>1
  <2>3. CASE Create
    BY <2>1, <2>3, CreatesLibrary DEF Library!Next
  <2>4. CASE Interrupt
    BY <2>2, <2>4 DEF Interrupt, Cut
  <2>5. ASSUME NEW u \in Users, UserStep(u)
        PROVE  Library!Next \/ UNCHANGED Library!vars
    <3>1. CASE Open(u)
      <4>1. \A v \in Users : Off(v)
        BY <3>1, Zenon DEF Open
      <4> QED
        BY <2>1, <3>1, <4>1, OpensLibrary DEF Library!Next
    <3>2. CASE Close(u)
      <4>1. overlapped' = overlapped /\ ~Off(u)
        BY <3>2 DEF Close, Gone, Off
      <4>2. Current(u) /\ Shape(u) /\ \A v \in Users \ {u} : Off(v)
        BY <2>1, <4>1 DEF Told, Sole, Alone, Shaped
      <4> QED
        BY <2>1, <3>2, <4>2, ClosesLibrary DEF Library!Next
    <3>3. CASE Kill(u)
      BY <2>2, <3>3 DEF Kill, Cut
    <3>4. CASE Inside(u) /\ Effect(u)
      <4>1. overlapped' = overlapped /\ ~Off(u) /\ ~Off(u)'
        BY <3>4 DEF Effect, Idles, Enters, Clears, Completes, Updates, Ends, Inside, Off
      <4>2. /\ Current(u) /\ Shape(u) /\ Remembered(u)
            /\ \A v \in Users \ {u} : Off(v)
        BY <1>3, <2>1, <4>1 DEF Told, Sole, Alone, Shaped, Reading
      <4>3. /\ Current(u)' /\ Shape(u)'
            /\ \A v \in Users \ {u} : Off(v)'
        BY <2>1, <4>1 DEF Alone, Shaped
      <4>4. Holder = u /\ Holder' = u
        BY <4>1, <4>2, <4>3, HolderIsUser, HolderIsUserNext
      <4>5. Undisturbed(u)
        BY <2>1, <4>1, <4>2, <4>3, <4>4 DEF Undisturbed, Holding
      <4> QED
        BY <2>5, <4>2, <4>5, StepsLibrary
    <3> QED
      BY <2>1, <2>5, <3>1, <3>2, <3>3, <3>4, UserEffect
  <2> QED
    BY <2>3, <2>4, <2>5 DEF Next
<1>4. Spec => []Reading
  BY <1>1, <1>2, PTL DEF Spec
<1> QED
  BY <1>3, <1>4, PTL DEF Spec, ImplementsLibrary

=============================================================================
