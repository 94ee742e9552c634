-------------------------- MODULE ImgfsSafetyProofs --------------------------
(***************************************************************************)
(* Proofs about Imgfs, for every number of slots, every set of ids and     *)
(* contents, every size and every width of the counters: its types,        *)
(* whatever fails; and, while every write to the file works, its safety,   *)
(* that it implements the abstract store, each step in a state that is     *)
(* Safe being a step of ImgStore, and that its version counts the changes. *)
(***************************************************************************)
EXTENDS ImgfsSafety, ImgfsIndexProofs

-----------------------------------------------------------------------------
(* Type correctness. *)

\* The replies an action returns are well typed when their parts are.
LEMMA ReplyType ==
  ASSUME NEW call \in CallType, NEW err \in Errors,
         NEW out \in Blobs \union {NoImage}
  PROVE  Reply(call, err, out) \in [call : CallType, err : Errors,
                                   out : Blobs \union {NoImage}, ids : Listings]
<1>1. Unlisted \in Listings
  BY BlankType DEF Unlisted, Listing, Listings
<1> QED
  BY <1>1 DEF Reply

\* What do_list shows is a listing.
LEMMA ListingType ==
  ASSUME NEW index \in [Slots -> Metadata]
  PROVE  Listing(index) \in Listings
<1>1. Valid(index) \in SUBSET Slots
  BY DEF Valid
<1>2. Listing(index) \in [Valid(index) -> Ids \union {NoId}]
  BY <1>1 DEF Listing, Metadata
<1> QED
  BY <1>1, <1>2 DEF Listings

\* The entries that do_insert puts together are well typed.
LEMMA EntryType ==
  ASSUME TypeOK, NEW i \in Slots, NEW id \in Ids, NEW img \in Images
  PROVE  /\ Filled(metadata[i], id, img) \in Metadata
         /\ WithEntry(i, id, img) \in [Slots -> Metadata]
         /\ Candidate(i, id, img) \in Metadata
         /\ Entry(i, id, img) \in Metadata
<1>1. metadata \in [Slots -> Metadata]
  BY DEF TypeOK
<1>2. Filled(metadata[i], id, img) \in Metadata
  BY <1>1, FilledType
<1>3. WithEntry(i, id, img) \in [Slots -> Metadata]
  <2>1. [Filled(metadata[i], id, img) EXCEPT !.is_valid = TRUE] \in Metadata
    BY <1>2 DEF Metadata
  <2> QED
    BY <1>1, <2>1 DEF WithEntry
<1>4. Candidate(i, id, img) \in Metadata
  BY <1>3, DedupedType DEF Candidate
<1>5. Len(data) + 1 \in Nat
  BY DEF TypeOK
<1>6. Placed(Candidate(i, id, img), Len(data) + 1) \in Metadata
  BY <1>4, <1>5 DEF Placed, Metadata
<1> QED
  BY <1>2, <1>3, <1>4, <1>6 DEF Entry

\* The header after an insertion, and the region behind the array.
LEMMA BumpType ==
  ASSUME TypeOK
  PROVE  BumpInsert \in Headers /\ BumpDelete \in Headers
<1>1. header.version \in 0 .. UINT32_MAX /\ header.nb_files \in 0 .. UINT32_MAX
  BY DEF TypeOK, Headers
<1> QED
  BY <1>1, CounterType DEF BumpInsert, BumpDelete, Headers

LEMMA AppendImageType ==
  ASSUME TypeOK, NEW i \in Slots, NEW id \in Ids, NEW img \in Images,
         AppendImage(i, id, img)
  PROVE  data' \in Seq(Blobs)
<1>1. Blob(img, ORIG_RES) \in Blobs
  BY DEF Blob, Blobs, Res
<1> QED
  BY <1>1 DEF AppendImage, TypeOK

\* The arrays that do_delete leaves in memory and in the file.
LEMMA DeletedType ==
  ASSUME TypeOK, NEW id \in Ids
  PROVE  /\ Deleted(id) \in [Slots -> Metadata]
         /\ \A k \in Slots : Torn(id, k) \in [Slots -> Metadata]
<1>1. metadata \in [Slots -> Metadata] /\ disk_metadata \in [Slots -> Metadata]
  BY DEF TypeOK
<1>2. \A j \in Slots : [metadata[j] EXCEPT !.is_valid = FALSE] \in Metadata
  BY <1>1 DEF Metadata
<1>3. Deleted(id) \in [Slots -> Metadata]
  BY <1>1, <1>2 DEF Deleted
<1> QED
  BY <1>1, <1>3 DEF Torn

\* What do_read hands out, and the entry that lazily_resize completes.
LEMMA ResizedType ==
  ASSUME TypeOK, NEW i \in Slots, NEW res \in Res
  PROVE  /\ Content(metadata[i], data, res) \in Blobs \union {NoImage}
         /\ Content(metadata[i], data, ORIG_RES) # NoImage =>
              /\ Resized(i, res) \in Blobs
              /\ ResizedEntry(i, res) \in Metadata
<1>1. /\ metadata[i] \in Metadata
      /\ data \in Seq(Blobs)
  BY DEF TypeOK
<1>2. \A r \in Res : Content(metadata[i], data, r) \in Blobs \union {NoImage}
  BY <1>1, ContentType DEF Content
<1>3. ASSUME Content(metadata[i], data, ORIG_RES) # NoImage
      PROVE  Resized(i, res) \in Blobs /\ ResizedEntry(i, res) \in Metadata
  <2>1. Content(metadata[i], data, ORIG_RES) \in Blobs
    BY <1>2, <1>3 DEF Res
  <2>2. Resized(i, res) \in Blobs
    BY <2>1 DEF Resized, Blob, Blobs
  <2>3. BlobSize(Resized(i, res)) \in Nat
    BY <2>2, SizeAssumption DEF BlobSize, Blobs
  <2>4. Len(data) + 1 \in Nat
    BY <1>1
  <2> QED
    BY <1>1, <2>2, <2>3, <2>4 DEF ResizedEntry, Metadata
<1> QED
  BY <1>2, <1>3

\* The initial state is well typed.
LEMMA InitType == Init => TypeOK
<1> SUFFICES ASSUME Init
             PROVE  TypeOK
  OBVIOUS
<1>1. Call("create", NoId, NoImage) \in CallType
  BY DEF Call, CallType, Calls
<1>2. "ERR_NONE" \in Errors
  BY DEF Errors
<1>3. reply \in [call : CallType, err : Errors,
                out : Blobs \union {NoImage}, ids : Listings]
  BY <1>1, <1>2, ReplyType DEF Init
<1>4. <<>> \in Seq(Blobs)
  OBVIOUS
<1> QED
  BY <1>3, <1>4, BlankType DEF Init, TypeOK

\* Every step of the library, whatever fails in it, keeps the types.
LEMMA NextType == TypeOK /\ [Next]_vars => TypeOK'
<1> SUFFICES ASSUME TypeOK, [Next]_vars
             PROVE  TypeOK'
  OBVIOUS
<1> DEFINE Replies == [call : CallType, err : Errors,
                       out : Blobs \union {NoImage}, ids : Listings]
<1>t. /\ is_open \in BOOLEAN
      /\ header \in Headers
      /\ metadata \in [Slots -> Metadata]
      /\ disk_header \in Headers
      /\ disk_metadata \in [Slots -> Metadata]
      /\ data \in Seq(Blobs)
      /\ reply \in Replies
  BY DEF TypeOK
<1>r. \A err \in Errors, out \in Blobs \union {NoImage} :
        /\ Reply(Call("none", NoId, NoImage), err, out) \in Replies
        /\ Reply(Call("create", NoId, NoImage), err, out) \in Replies
        /\ Reply(Call("list", NoId, NoImage), err, out) \in Replies
        /\ \A id \in Ids, img \in Images : Reply(Insert(id, img), err, out) \in Replies
        /\ \A id \in Ids : Reply(Delete(id), err, out) \in Replies
        /\ \A id \in Ids, res \in Res : Reply(Read(id, res), err, out) \in Replies
  <2>1. /\ Call("none", NoId, NoImage) \in CallType
        /\ Call("create", NoId, NoImage) \in CallType
        /\ Call("list", NoId, NoImage) \in CallType
    BY DEF Call, CallType, Calls
  <2>2. \A id \in Ids, img \in Images : Insert(id, img) \in CallType
    BY DEF Insert, Call, CallType, Calls
  <2>3. \A id \in Ids : Delete(id) \in CallType
    BY DEF Delete, Call, CallType, Calls
  <2>4. \A id \in Ids, res \in Res : Read(id, res) \in CallType
    BY DEF Read, Call, CallType, Calls
  <2> QED
    BY <2>1, <2>2, <2>3, <2>4, ReplyType
<1>e. Errors = {"ERR_NONE", "ERR_IO", "ERR_IMGFS_FULL", "ERR_DUPLICATE_ID",
                "ERR_IMAGE_NOT_FOUND", "ERR_INVALID_IMGID", "ERR_IMGLIB",
                "ERR_OUT_OF_MEMORY", "ERR_RUNTIME"}
  BY DEF Errors
<1>s. \A index \in [Slots -> Metadata] : Shown(Listing(index)) \in Replies
  <2> SUFFICES ASSUME NEW index \in [Slots -> Metadata]
               PROVE  Shown(Listing(index)) \in Replies
    OBVIOUS
  <2>1. Call("list", NoId, NoImage) \in CallType
    BY DEF Call, CallType, Calls
  <2>2. Reply(Call("list", NoId, NoImage), "ERR_NONE", NoImage) \in Replies
    BY <2>1, <1>e, ReplyType
  <2>3. Listing(index) \in Listings
    BY ListingType
  <2> QED
    BY <2>2, <2>3 DEF Shown
<1> HIDE DEF Replies
<1> DEFINE Typed == /\ is_open' \in BOOLEAN
                    /\ header' \in Headers
                    /\ metadata' \in [Slots -> Metadata]
                    /\ disk_header' \in Headers
                    /\ disk_metadata' \in [Slots -> Metadata]
                    /\ data' \in Seq(Blobs)
                    /\ reply' \in Replies
<1> SUFFICES Typed
  BY DEF TypeOK, Replies
<1>1. CASE Create
  BY <1>1, <1>t, <1>r, <1>e, BlankType DEF Create, memory
<1>2. CASE Open
  BY <1>2, <1>t, <1>r, <1>e DEF Open, disk
<1>3. CASE Close
  BY <1>3, <1>t, <1>r, <1>e, BlankType DEF Close, disk
<1>4. ASSUME NEW id \in Ids, NEW img \in Images, InsertCall(id, img)
      PROVE  Typed
  <2>1. CASE InsertFull(id, img)
    BY <2>1, <1>t, <1>r, <1>e DEF InsertFull, memory, disk
  <2>2. CASE InsertNowhere(id, img)
    BY <2>2, <1>t, <1>r, <1>e DEF InsertNowhere, memory, disk
  <2>3. ASSUME NEW i \in Slots, InsertUndecodable(i, id, img)
        PROVE  Typed
    BY <2>3, <1>t, <1>r, <1>e, EntryType DEF InsertUndecodable, disk
  <2>4. ASSUME NEW i \in Slots, InsertRefused(i, id, img)
        PROVE  Typed
    <3>0. Candidate(i, id, img) \in Metadata
      BY EntryType
    <3>1. [Candidate(i, id, img) EXCEPT !.is_valid = FALSE] \in Metadata
      BY <3>0 DEF Metadata
    <3>2. CandidateError(i, id, img) \in Errors
      BY <1>e DEF CandidateError, DedupError
    <3> QED
      BY <2>4, <3>1, <3>2, <1>t, <1>r DEF InsertRefused, disk
  <2>5. ASSUME NEW i \in Slots, InsertDone(i, id, img)
        PROVE  Typed
    BY <2>5, <1>t, <1>r, <1>e, EntryType, BumpType, AppendImageType DEF InsertDone
  <2>6. ASSUME NEW i \in Slots, InsertFailsAtData(i, id, img)
        PROVE  Typed
    BY <2>6, <1>t, <1>r, <1>e, EntryType DEF InsertFailsAtData, disk
  <2>7. ASSUME NEW i \in Slots, InsertFailsAtMetadata(i, id, img)
        PROVE  Typed
    <3>1. data' \in Seq(Blobs)
      BY <2>7, <1>t, AppendImageType DEF InsertFailsAtMetadata
    <3>2. metadata' \in [Slots -> Metadata]
      BY <2>7, <1>t, EntryType DEF InsertFailsAtMetadata
    <3> QED
      BY <2>7, <1>t, <1>r, <1>e, <3>1, <3>2 DEF InsertFailsAtMetadata
  <2>8. ASSUME NEW i \in Slots, InsertFailsAtHeader(i, id, img)
        PROVE  Typed
    <3>1. data' \in Seq(Blobs)
      BY <2>8, AppendImageType DEF InsertFailsAtHeader
    <3>2. /\ metadata' \in [Slots -> Metadata]
          /\ disk_metadata' \in [Slots -> Metadata]
      BY <2>8, <1>t, EntryType DEF InsertFailsAtHeader
    <3> QED
      BY <2>8, <1>t, <1>r, <1>e, BumpType, <3>1, <3>2 DEF InsertFailsAtHeader
  <2> QED
    BY <1>4, <2>1, <2>2, <2>3, <2>4, <2>5, <2>6, <2>7, <2>8 DEF InsertCall
<1>5. ASSUME NEW id \in Ids, DeleteCall(id)
      PROVE  Typed
  <2>1. CASE DeleteMissing(id)
    BY <2>1, <1>t, <1>r, <1>e DEF DeleteMissing, memory, disk
  <2>2. CASE DeleteDone(id)
    BY <2>2, <1>t, <1>r, <1>e, BumpType, DeletedType DEF DeleteDone
  <2>3. CASE DeleteFailsAtMetadata(id)
    BY <2>3, <1>t, <1>r, <1>e, DeletedType DEF DeleteFailsAtMetadata
  <2>4. CASE DeleteFailsAtHeader(id)
    BY <2>4, <1>t, <1>r, <1>e, DeletedType DEF DeleteFailsAtHeader
  <2> QED
    BY <1>5, <2>1, <2>2, <2>3, <2>4 DEF DeleteCall
<1>6. ASSUME NEW id \in Ids, NEW res \in Res, ReadCall(id, res)
      PROVE  Typed
  <2>1. CASE ReadMissing(id, res)
    BY <2>1, <1>t, <1>r, <1>e DEF ReadMissing, memory, disk
  <2>2. ASSUME NEW i \in Slots, ReadStored(i, id, res)
        PROVE  Typed
    BY <2>2, <1>t, <1>r, <1>e, ResizedType DEF ReadStored, memory, disk
  <2>3. ASSUME NEW i \in Slots, ReadOutOfBounds(i, id, res)
        PROVE  Typed
    BY <2>3, <1>t, <1>r, <1>e DEF ReadOutOfBounds, memory, disk
  <2>4. ASSUME NEW i \in Slots, ReadUndecodable(i, id, res)
        PROVE  Typed
    BY <2>4, <1>t, <1>r, <1>e DEF ReadUndecodable, memory, disk
  <2>5. ASSUME NEW i \in Slots, ReadResized(i, id, res)
        PROVE  Typed
    <3>1. /\ Resized(i, res) \in Blobs
          /\ ResizedEntry(i, res) \in Metadata
      BY <2>5, ResizedType DEF ReadResized, Resizes
    <3>2. \E err \in Errors, out \in Blobs \union {NoImage} :
            reply' = Reply(Read(id, res), err, out)
      BY <2>5, <3>1, <1>e DEF ReadResized
    <3>3. reply' \in Replies
      BY <3>2, <1>r
    <3> QED
      BY <2>5, <3>1, <3>3, <1>t DEF ReadResized, AppendResized
  <2>6. ASSUME NEW i \in Slots, ReadFailsAtMetadata(i, id, res)
        PROVE  Typed
    <3>1. /\ Resized(i, res) \in Blobs
          /\ ResizedEntry(i, res) \in Metadata
      BY <2>6, ResizedType DEF ReadFailsAtMetadata, Resizes
    <3>2. data' \in Seq(Blobs)
      BY <2>6, <3>1, <1>t DEF ReadFailsAtMetadata, AppendResized
    <3>3. metadata' \in [Slots -> Metadata]
      BY <2>6, <3>1, <1>t DEF ReadFailsAtMetadata
    <3> QED
      BY <2>6, <1>t, <1>r, <1>e, <3>2, <3>3 DEF ReadFailsAtMetadata
  <2>7. ASSUME NEW i \in Slots, ReadFails(i, id, res)
        PROVE  Typed
    <3>1. \E err \in Errors : reply' = Reply(Read(id, res), err, NoImage)
      BY <2>7, <1>e DEF ReadFails, ReadErrors
    <3>2. reply' \in Replies
      BY <3>1, <1>r
    <3> QED
      BY <2>7, <3>2, <1>t DEF ReadFails, memory, disk
  <2> QED
    BY <1>6, <2>1, <2>2, <2>3, <2>4, <2>5, <2>6, <2>7 DEF ReadCall
<1>7. CASE ListJson
  <2>1. reply' \in Replies
    BY <1>7, <1>t, <1>s, <1>r, <1>e DEF ListJson
  <2> QED
    BY <1>7, <1>t, <2>1 DEF ListJson, memory, disk
<1>8. CASE ListStdout
  BY <1>8, <1>t, <1>s, BlankType DEF ListStdout, Unlisted, memory, disk
<1>9. CASE UNCHANGED vars
  BY <1>9, <1>t DEF vars
<1> QED
  BY <1>1, <1>2, <1>3, <1>4, <1>5, <1>6, <1>7, <1>8, <1>9 DEF Next

\* The state of the library stays well typed, whatever fails: in particular the
\* counters stay within a uint32_t and every offset is a natural number.
THEOREM TypeCorrect == Spec => []TypeOK
<1>1. Init => TypeOK
  BY InitType
<1>2. TypeOK /\ [Next]_vars => TypeOK'
  BY NextType
<1> QED
  BY <1>1, <1>2, PTL DEF Spec

-----------------------------------------------------------------------------
(* The file and its copy. *)

\* While the file is open, memory and file agree on everything that counts.
LEMMA OpenAgree ==
  ASSUME Safe, is_open
  PROVE  /\ header = disk_header
         /\ Valid(metadata) = Valid(disk_metadata)
         /\ \A j \in Valid(metadata) : metadata[j] = disk_metadata[j]
         /\ header.nb_files = Cardinality(Valid(metadata))
<1>1. /\ metadata \in [Slots -> Metadata]
      /\ disk_metadata \in [Slots -> Metadata]
  BY DEF Safe, TypeOK
<1>2. /\ header = disk_header
      /\ \A j \in Slots : SameSlot(metadata[j], disk_metadata[j])
  BY DEF Safe, FileInSync
<1>3. /\ Valid(metadata) = Valid(disk_metadata)
      /\ \A j \in Valid(metadata) : metadata[j] = disk_metadata[j]
  BY <1>1, <1>2, SameValid
<1> QED
  BY <1>2, <1>3 DEF Safe, Counted

-----------------------------------------------------------------------------
(* do_insert *)

\* The slot do_insert works on is empty, in memory and in the file.
LEMMA InsertSlot ==
  ASSUME Safe, NEW i \in Slots, InsertAt(i)
  PROVE  i \notin Valid(metadata) /\ i \notin Valid(disk_metadata)
<1>1. EmptySlots \in SUBSET Slots
  BY DEF EmptySlots
<1>2. i \in EmptySlots
  BY <1>1, FirstIsLeast DEF InsertAt
<1> QED
  BY <1>2, OpenAgree DEF EmptySlots, InsertAt

\* The array that deduplication goes through.
LEMMA WithEntryFacts ==
  ASSUME TypeOK, NEW i \in Slots, i \notin Valid(metadata),
         NEW id \in Ids, NEW img \in Images
  PROVE  LET index == WithEntry(i, id, img)
         IN  /\ index[i].img_id = id
             /\ index[i].SHA = img
             /\ index[i].is_valid
             /\ index[i].size[ORIG_RES] = SizeOf[<<img, ORIG_RES>>]
             /\ \A j \in Slots \ {i} : index[j] = metadata[j]
             /\ Valid(index) \ {i} = Valid(metadata)
             /\ DedupStops(index, i) =
                  {j \in Valid(metadata) : metadata[j].img_id = id \/ metadata[j].SHA = img}
<1>1. metadata \in [Slots -> Metadata]
  BY DEF TypeOK
<1>2. WithEntry(i, id, img) = WithNew(metadata, i, id, img)
  BY DEF WithEntry, WithNew
<1> QED
  BY <1>1, <1>2, NewEntryFacts

\* The entry of an accepted insertion: it leads to the image, whether that has
\* just been appended or was there, and shares its place with equal contents.
LEMMA AcceptedEntry ==
  ASSUME Safe, NEW i \in Slots, NEW id \in Ids, NEW img \in Images,
         InsertAccepted(i, id, img), AppendImage(i, id, img)
  PROVE  LET e == Entry(i, id, img)
         IN  /\ e \in Metadata
             /\ e.is_valid
             /\ e.SHA = img
             /\ EntryIntact(e, data')
             /\ \A j \in Valid(disk_metadata) :
                  disk_metadata[j].SHA = img
                    => disk_metadata[j].offset[ORIG_RES] = e.offset[ORIG_RES]
<1> DEFINE c == Candidate(i, id, img)
           e == Entry(i, id, img)
<1>1. /\ TypeOK
      /\ is_open
      /\ i \notin Valid(metadata)
      /\ img \notin Broken
      /\ metadata \in [Slots -> Metadata]
      /\ data \in Seq(Blobs)
  BY InsertSlot DEF Safe, InsertAccepted, InsertAt, TypeOK
<1>2. \A j \in Valid(metadata) : metadata[j] \in Metadata /\ EntryIntact(metadata[j], data)
  BY <1>1, OpenAgree DEF Safe, Intact, Valid
<1>3. /\ c \in Metadata
      /\ c.SHA = img
      /\ c.is_valid
      /\ \/ /\ \A j \in Valid(metadata) : metadata[j].SHA # img
            /\ c.offset[ORIG_RES] = 0
            /\ c.size[ORIG_RES] = SizeOf[<<img, ORIG_RES>>]
         \/ \E j \in Valid(metadata) : /\ metadata[j].SHA = img
                                        /\ c.offset = metadata[j].offset
                                        /\ c.size = metadata[j].size
  <2>1. /\ c = Deduped(WithNew(metadata, i, id, img), header.nb_files, i)
        /\ DedupError(WithNew(metadata, i, id, img), header.nb_files, i) = "ERR_NONE"
    BY DEF InsertAccepted, Candidate, CandidateError, WithEntry, WithNew
  <2> QED
    BY <1>1, <2>1, DedupedEntry
<1> HIDE DEF c
<1>4. CASE \E j \in Valid(metadata) : /\ metadata[j].SHA = img
                                      /\ c.offset = metadata[j].offset
                                      /\ c.size = metadata[j].size
  <2>1. PICK j \in Valid(metadata) : /\ metadata[j].SHA = img
                                     /\ c.offset = metadata[j].offset
                                     /\ c.size = metadata[j].size
    BY <1>4
  <2>2. EntryIntact(c, data)
    BY <1>2, <1>3, <2>1, SharedIsIntact
  <2>3. c.offset[ORIG_RES] # 0
    BY <1>1, <1>3, <2>2, IntactIsPlaced
  <2>4. e = c /\ data' = data
    BY <2>3 DEF Entry, IsNew, AppendImage, c
  <2>5. /\ j \in Valid(disk_metadata)
        /\ disk_metadata[j].SHA = img
        /\ disk_metadata[j].offset[ORIG_RES] = e.offset[ORIG_RES]
    BY <1>1, <2>1, <2>4, OpenAgree
  <2>6. \A k \in Valid(disk_metadata) :
          disk_metadata[k].SHA = img
            => disk_metadata[k].offset[ORIG_RES] = e.offset[ORIG_RES]
    BY <2>5 DEF Safe, SharedOriginals
  <2> QED
    BY <1>3, <2>2, <2>4, <2>6
<1>5. CASE /\ \A j \in Valid(metadata) : metadata[j].SHA # img
           /\ c.offset[ORIG_RES] = 0
           /\ c.size[ORIG_RES] = SizeOf[<<img, ORIG_RES>>]
  <2>1. e = Placed(c, Len(data) + 1) /\ data' = Append(data, Blob(img, ORIG_RES))
    BY <1>5 DEF Entry, IsNew, AppendImage, c
  <2>2. Len(data) + 1 \in Nat
    BY <1>1
  <2> HIDE DEF e
  <2>3. /\ e \in Metadata
        /\ e.SHA = img
        /\ e.is_valid
        /\ e.offset[ORIG_RES] = Len(data) + 1
        /\ e.size[ORIG_RES] = SizeOf[<<img, ORIG_RES>>]
        /\ \A res \in DerivedRes : e.offset[res] = 0 /\ e.size[res] = 0
    BY <1>3, <1>5, <2>1, <2>2, ResAssumption DEF Placed, Metadata, Res
  <2>4. EntryIntact(e, data')
    BY <1>1, <2>1, <2>3, PlacedIsIntact
  <2>5. \A j \in Valid(disk_metadata) : disk_metadata[j].SHA # img
    BY <1>1, <1>5, OpenAgree
  <2> QED
    BY <2>3, <2>4, <2>5 DEF e
<1> QED
  BY <1>3, <1>4, <1>5

\* A successful insertion keeps every part of the invariant.
LEMMA InsertDoneSafe ==
  ASSUME Safe, NEW i \in Slots, NEW id \in Ids, NEW img \in Images,
         InsertDone(i, id, img)
  PROVE  FileInSync' /\ Counted' /\ Intact' /\ SharedOriginals'
<1> DEFINE e == Entry(i, id, img)
<1>1. /\ InsertAccepted(i, id, img)
      /\ AppendImage(i, id, img)
      /\ metadata' = [metadata EXCEPT ![i] = e]
      /\ disk_metadata' = [disk_metadata EXCEPT ![i] = e]
      /\ header' = BumpInsert
      /\ disk_header' = BumpInsert
      /\ is_open' = is_open
  BY DEF InsertDone
<1>2. /\ e \in Metadata
      /\ e.is_valid
      /\ e.SHA = img
      /\ EntryIntact(e, data')
      /\ \A j \in Valid(disk_metadata) :
           disk_metadata[j].SHA = img
             => disk_metadata[j].offset[ORIG_RES] = e.offset[ORIG_RES]
  BY <1>1, AcceptedEntry
<1>3. /\ is_open
      /\ i \notin Valid(metadata)
      /\ i \notin Valid(disk_metadata)
  BY <1>1, InsertSlot DEF InsertAccepted, InsertAt
<1>4. /\ metadata \in [Slots -> Metadata]
      /\ disk_metadata \in [Slots -> Metadata]
      /\ data \in Seq(Blobs)
  BY DEF Safe, TypeOK
<1> HIDE DEF e
<1>5. Valid(disk_metadata') = Valid(disk_metadata) \union {i}
  BY <1>1, <1>2, <1>3, <1>4, FillCounts
<1>6. FileInSync'
  BY <1>1, <1>3, <1>4 DEF Safe, FileInSync, SameSlot
<1>7. Counted'
  <2>1. Cardinality(Valid(disk_metadata')) = Inc(Cardinality(Valid(disk_metadata)))
    BY <1>1, <1>2, <1>3, <1>4, FillCounts
  <2>2. header.nb_files = Cardinality(Valid(disk_metadata))
    BY <1>3, OpenAgree
  <2> QED
    BY <1>1, <2>1, <2>2 DEF Counted, BumpInsert
<1>8. Intact'
  <2>1. ASSUME NEW j \in Valid(disk_metadata)
        PROVE  EntryIntact(disk_metadata[j], data')
    <3>1. EntryIntact(disk_metadata[j], data) /\ disk_metadata[j] \in Metadata
      BY <1>4 DEF Safe, Intact, Valid
    <3>2. Blob(img, ORIG_RES) \in Blobs
      BY BlobIsImage DEF Res
    <3>3. data' = data \/ data' = Append(data, Blob(img, ORIG_RES))
      BY <1>1 DEF AppendImage
    <3> QED
      BY <1>4, <3>1, <3>2, <3>3, AppendKeepsIntact
  <2>2. \A j \in Valid(disk_metadata) : disk_metadata'[j] = disk_metadata[j]
    BY <1>1, <1>3, <1>4 DEF Valid
  <2>3. disk_metadata'[i] = e
    BY <1>1, <1>4
  <2> QED
    BY <1>2, <1>5, <2>1, <2>2, <2>3 DEF Intact
<1>9. SharedOriginals'
  <2>1. \A j \in Valid(disk_metadata) : disk_metadata'[j] = disk_metadata[j]
    BY <1>1, <1>3, <1>4 DEF Valid
  <2>2. disk_metadata'[i] = e
    BY <1>1, <1>4
  <2> QED
    BY <1>2, <1>5, <2>1, <2>2 DEF Safe, SharedOriginals
<1> QED
  BY <1>6, <1>7, <1>8, <1>9

-----------------------------------------------------------------------------
(* do_delete and do_read *)

\* A successful deletion keeps every part of the invariant.
LEMMA DeleteDoneSafe ==
  ASSUME Safe, NEW id \in Ids, DeleteDone(id)
  PROVE  FileInSync' /\ Counted' /\ Intact' /\ SharedOriginals'
<1> DEFINE i == First(Named(metadata, id))
<1>1. /\ is_open
      /\ Named(metadata, id) # {}
      /\ metadata' = [metadata EXCEPT ![i].is_valid = FALSE]
      /\ disk_metadata' = [metadata EXCEPT ![i].is_valid = FALSE]
      /\ header' = BumpDelete
      /\ disk_header' = BumpDelete
      /\ is_open' = is_open
      /\ data' = data
  BY DEF DeleteDone, Deleted
<1>2. metadata \in [Slots -> Metadata]
  BY DEF Safe, TypeOK
<1>3. i \in Valid(metadata) /\ i \in Slots
  <2>1. Named(metadata, id) \in SUBSET Slots
    BY DEF Named, Valid
  <2> QED
    BY <1>1, <2>1, FirstIsLeast DEF Named
<1> HIDE DEF i
<1>4. /\ Valid(disk_metadata') = Valid(metadata) \ {i}
      /\ Cardinality(Valid(disk_metadata')) = Dec(Cardinality(Valid(metadata)))
  BY <1>1, <1>2, <1>3, EmptyCounts
<1>5. \A j \in Valid(disk_metadata') :
        /\ j \in Valid(disk_metadata)
        /\ disk_metadata'[j] = disk_metadata[j]
  <2>1. \A j \in Valid(metadata) \ {i} : disk_metadata'[j] = metadata[j]
    BY <1>1, <1>2 DEF Valid
  <2> QED
    BY <1>1, <1>4, <2>1, OpenAgree
<1>6. FileInSync'
  BY <1>1 DEF FileInSync, SameSlot
<1>7. Counted'
  BY <1>1, <1>4, OpenAgree DEF Counted, BumpDelete
<1>8. Intact'
  BY <1>1, <1>5 DEF Safe, Intact
<1>9. SharedOriginals'
  BY <1>5 DEF Safe, SharedOriginals
<1> QED
  BY <1>6, <1>7, <1>8, <1>9

\* Making a derived image keeps every part of the invariant.
LEMMA ReadResizedSafe ==
  ASSUME Safe, NEW i \in Slots, NEW id \in Ids, NEW res \in Res,
         ReadResized(i, id, res)
  PROVE  FileInSync' /\ Counted' /\ Intact' /\ SharedOriginals'
<1> DEFINE m == metadata[i]
           e == ResizedEntry(i, res)
<1>1. /\ ReadAt(i, id)
      /\ NeedsResize(i, res)
      /\ data' = Append(data, Resized(i, res))
      /\ metadata' = [metadata EXCEPT ![i] = e]
      /\ disk_metadata' = [disk_metadata EXCEPT ![i] = e]
      /\ is_open' = is_open
      /\ header' = header
      /\ disk_header' = disk_header
  BY DEF ReadResized, Resizes, AppendResized
<1>2. /\ metadata \in [Slots -> Metadata]
      /\ disk_metadata \in [Slots -> Metadata]
      /\ m \in Metadata
      /\ data \in Seq(Blobs)
  BY DEF Safe, TypeOK
<1>3. /\ is_open
      /\ i \in Valid(metadata)
  <2>1. Named(metadata, id) \in SUBSET Slots
    BY DEF Named, Valid
  <2> QED
    BY <1>1, <2>1, FirstIsLeast DEF ReadAt, Named
<1>4. /\ i \in Valid(disk_metadata)
      /\ disk_metadata[i] = m
      /\ EntryIntact(m, data)
  BY <1>3, OpenAgree DEF Safe, Intact
<1>5. /\ res \in DerivedRes
      /\ res # ORIG_RES
  BY <1>1 DEF NeedsResize, CallsResize, Res
<1>6. Resized(i, res) = Blob(m.SHA, res)
  <2>1. Content(m, data, ORIG_RES) = Blob(m.SHA, ORIG_RES)
    BY <1>4 DEF EntryIntact
  <2>2. Blob(m.SHA, ORIG_RES).img = m.SHA
    BY DEF Blob
  <2> QED
    BY <2>1, <2>2 DEF Resized
<1>7. /\ Resized(i, res) \in Blobs
      /\ e \in Metadata
      /\ e.is_valid
      /\ e.SHA = m.SHA
      /\ e.offset[ORIG_RES] = m.offset[ORIG_RES]
      /\ EntryIntact(e, data')
  <2>1. m.is_valid
    BY <1>3 DEF Valid
  <2>2. e = [m EXCEPT !.size[res] = BlobSize(Blob(m.SHA, res)),
                      !.offset[res] = Len(data) + 1]
    BY <1>6 DEF ResizedEntry
  <2>3. data' = Append(data, Blob(m.SHA, res))
    BY <1>1, <1>6
  <2> HIDE DEF m, e
  <2>4. /\ m \in Metadata
        /\ data \in Seq(Blobs)
        /\ EntryIntact(m, data)
        /\ res \in DerivedRes
    BY <1>2, <1>4, <1>5
  <2>5. /\ Blob(m.SHA, res) \in Blobs
        /\ e \in Metadata
        /\ e.is_valid = m.is_valid
        /\ e.SHA = m.SHA
        /\ e.offset[ORIG_RES] = m.offset[ORIG_RES]
        /\ EntryIntact(e, Append(data, Blob(m.SHA, res)))
    BY <2>2, <2>4, ResizedIsIntact
  <2> QED
    BY <1>6, <2>1, <2>3, <2>5
<1> HIDE DEF m, e
<1>8. EntryIntact(e, data')
  BY <1>7
<1>9. /\ Valid(disk_metadata') = Valid(disk_metadata)
      /\ disk_metadata'[i] = e
      /\ \A j \in Slots \ {i} : disk_metadata'[j] = disk_metadata[j]
  BY <1>1, <1>2, <1>4, <1>7 DEF Valid
<1>10. FileInSync'
  BY <1>1, <1>2, <1>3 DEF Safe, FileInSync, SameSlot
<1>11. Counted'
  BY <1>1, <1>9 DEF Safe, Counted
<1>12. Intact'
  <2>1. ASSUME NEW j \in Valid(disk_metadata) \ {i}
        PROVE  EntryIntact(disk_metadata'[j], data')
    <3>1. EntryIntact(disk_metadata[j], data) /\ disk_metadata[j] \in Metadata /\ j \in Slots
      BY <1>2 DEF Safe, Intact, Valid
    <3> QED
      BY <1>1, <1>2, <1>7, <1>9, <3>1, AppendKeepsIntact
  <2> QED
    BY <1>8, <1>9, <2>1 DEF Intact
<1>13. SharedOriginals'
  <2>1. e.SHA = disk_metadata[i].SHA /\ e.offset[ORIG_RES] = disk_metadata[i].offset[ORIG_RES]
    BY <1>4, <1>5, <1>7 DEF Res
  <2>2. Valid(disk_metadata) \in SUBSET Slots
    BY DEF Valid
  <2>3. \A j \in Valid(disk_metadata) :
          /\ disk_metadata'[j].SHA = disk_metadata[j].SHA
          /\ disk_metadata'[j].offset[ORIG_RES] = disk_metadata[j].offset[ORIG_RES]
    BY <1>9, <2>1, <2>2
  <2> QED
    BY <1>9, <2>3 DEF Safe, SharedOriginals
<1> QED
  BY <1>10, <1>11, <1>12, <1>13

-----------------------------------------------------------------------------
(* The invariant. *)

LEMMA InitSafe == Init => Safe
<1> SUFFICES ASSUME Init
             PROVE  Safe
  OBVIOUS
<1>1. Valid(disk_metadata) = {}
  BY BlankType DEF Init
<1>2. Cardinality({}) = 0
  BY FS_EmptySet
<1> QED
  BY <1>1, <1>2, InitType DEF Init, Safe, FileInSync, Counted, Intact,
                              SharedOriginals, BlankHeader

\* Steps that leave the file alone, and in memory touch at most the remains in
\* empty slots.
LEMMA MemoryOnlySafe ==
  ASSUME Safe, UNCHANGED disk, header' = header, is_open' = is_open,
         is_open => \A j \in Slots : SameSlot(metadata'[j], disk_metadata[j])
  PROVE  FileInSync' /\ Counted' /\ Intact' /\ SharedOriginals'
<1>1. /\ disk_header' = disk_header
      /\ disk_metadata' = disk_metadata
      /\ data' = data
  BY DEF disk
<1> QED
  BY <1>1 DEF Safe, FileInSync, Counted, Intact, SharedOriginals

LEMMA NextSafe ==
  ASSUME Faults \subseteq {"read"}, Safe, [Next]_vars
  PROVE  Safe'
<1>0. TypeOK'
  BY NextType DEF Safe
<1> DEFINE Parts == FileInSync' /\ Counted' /\ Intact' /\ SharedOriginals'
<1> SUFFICES Parts
  BY <1>0 DEF Safe
<1>u. ASSUME UNCHANGED <<memory, disk>>
      PROVE  Parts
  <2>1. is_open => \A j \in Slots : SameSlot(metadata'[j], disk_metadata[j])
    BY <1>u DEF memory, Safe, FileInSync
  <2> QED
    BY <1>u, <2>1, MemoryOnlySafe DEF memory
<1>1. CASE Create
  <2>1. Valid(disk_metadata') = {}
    BY <1>1, BlankType DEF Create
  <2>2. Cardinality({}) = 0
    BY FS_EmptySet
  <2> QED
    BY <1>1, <2>1, <2>2 DEF Create, memory, FileInSync, Counted, Intact,
                            SharedOriginals, BlankHeader
<1>2. CASE Open
  <2>1. /\ header' = disk_header /\ metadata' = disk_metadata
        /\ disk_header' = disk_header
        /\ disk_metadata' = disk_metadata
        /\ data' = data
    BY <1>2 DEF Open, disk
  <2> QED
    BY <2>1 DEF Safe, FileInSync, SameSlot, Counted, Intact, SharedOriginals
<1>3. CASE Close
  <2>1. /\ ~is_open'
        /\ disk_header' = disk_header
        /\ disk_metadata' = disk_metadata
        /\ data' = data
    BY <1>3 DEF Close, disk
  <2> QED
    BY <2>1 DEF Safe, FileInSync, Counted, Intact, SharedOriginals
<1>4. ASSUME NEW id \in Ids, NEW img \in Images, InsertCall(id, img)
      PROVE  Parts
  <2>e. ASSUME NEW i \in Slots, InsertAt(i), NEW m,
               ~m.is_valid, metadata' = [metadata EXCEPT ![i] = m],
               UNCHANGED <<is_open, header, disk>>
        PROVE  Parts
    <3>1. i \notin Valid(disk_metadata) /\ is_open /\ metadata \in [Slots -> Metadata]
      BY <2>e, InsertSlot DEF InsertAt, Safe, TypeOK
    <3>2. \A j \in Slots : SameSlot(metadata'[j], disk_metadata[j])
      BY <2>e, <3>1 DEF SameSlot, Valid, Safe, FileInSync
    <3> QED
      BY <2>e, <3>2, MemoryOnlySafe
  <2>1. CASE InsertFull(id, img)
    BY <2>1, <1>u DEF InsertFull
  <2>2. CASE InsertNowhere(id, img)
    BY <2>2, <1>u DEF InsertNowhere
  <2>3. ASSUME NEW i \in Slots, InsertUndecodable(i, id, img)
        PROVE  Parts
    <3>1. InsertAt(i) /\ metadata[i] \in Metadata /\ ~metadata[i].is_valid
      BY <2>3, InsertSlot DEF InsertUndecodable, Safe, TypeOK, Valid
    <3>2. ~Filled(metadata[i], id, img).is_valid
      BY <3>1 DEF Filled, Metadata
    <3> QED
      BY <2>3, <2>e, <3>1, <3>2 DEF InsertUndecodable
  <2>4. ASSUME NEW i \in Slots, InsertRefused(i, id, img)
        PROVE  Parts
    <3>1. Candidate(i, id, img) \in Metadata
      BY EntryType DEF Safe
    <3>2. ~[Candidate(i, id, img) EXCEPT !.is_valid = FALSE].is_valid
      BY <3>1 DEF Metadata
    <3> QED
      BY <2>4, <2>e, <3>2 DEF InsertRefused
  <2>5. ASSUME NEW i \in Slots, InsertDone(i, id, img)
        PROVE  Parts
    BY <2>5, InsertDoneSafe
  <2>6. \A i \in Slots : /\ ~InsertFailsAtData(i, id, img)
                         /\ ~InsertFailsAtMetadata(i, id, img)
                         /\ ~InsertFailsAtHeader(i, id, img)
    BY DEF InsertFailsAtData, InsertFailsAtMetadata, InsertFailsAtHeader
  <2> QED
    BY <1>4, <2>1, <2>2, <2>3, <2>4, <2>5, <2>6 DEF InsertCall
<1>5. ASSUME NEW id \in Ids, DeleteCall(id)
      PROVE  Parts
  <2>1. CASE DeleteMissing(id)
    BY <2>1, <1>u DEF DeleteMissing
  <2>2. CASE DeleteDone(id)
    BY <2>2, DeleteDoneSafe
  <2>3. ~DeleteFailsAtMetadata(id) /\ ~DeleteFailsAtHeader(id)
    BY DEF DeleteFailsAtMetadata, DeleteFailsAtHeader
  <2> QED
    BY <1>5, <2>1, <2>2, <2>3 DEF DeleteCall
<1>6. ASSUME NEW id \in Ids, NEW res \in Res, ReadCall(id, res)
      PROVE  Parts
  <2>1. CASE ReadMissing(id, res)
    BY <2>1, <1>u DEF ReadMissing
  <2>2. ASSUME NEW i \in Slots,
               \/ ReadStored(i, id, res)
               \/ ReadOutOfBounds(i, id, res)
               \/ ReadUndecodable(i, id, res)
               \/ ReadFails(i, id, res)
        PROVE  Parts
    BY <2>2, <1>u DEF ReadStored, ReadOutOfBounds, ReadUndecodable, ReadFails
  <2>3. ASSUME NEW i \in Slots, ReadResized(i, id, res)
        PROVE  Parts
    BY <2>3, ReadResizedSafe
  <2>4. \A i \in Slots : ~ReadFailsAtMetadata(i, id, res)
    BY DEF ReadFailsAtMetadata
  <2> QED
    BY <1>6, <2>1, <2>2, <2>3, <2>4 DEF ReadCall
<1>7. CASE ListJson
  BY <1>7, <1>u DEF ListJson
<1>8. CASE ListStdout
  BY <1>8, <1>u DEF ListStdout
<1>9. CASE UNCHANGED vars
  BY <1>9, <1>u DEF vars, memory, disk
<1> QED
  BY <1>1, <1>2, <1>3, <1>4, <1>5, <1>6, <1>7, <1>8, <1>9 DEF Next

\* While every write to the file works, memory and file agree, the header
\* counts the images, every entry leads to its image at every resolution, and
\* entries with one content share one original.
THEOREM LibrarySafe ==
  ASSUME Faults \subseteq {"read"}
  PROVE  Spec => [](FileInSync /\ Counted /\ Intact /\ SharedOriginals)
<1>1. Init => Safe
  BY InitSafe
<1>2. Safe /\ [Next]_vars => Safe'
  BY NextSafe
<1>3. Safe => FileInSync /\ Counted /\ Intact /\ SharedOriginals
  BY DEF Safe
<1> QED
  BY <1>1, <1>2, <1>3, PTL DEF Spec

\* While every write to the file works: the copy of the index in memory is that
\* of the file, whichever of the two each call has written first.
THEOREM MemoryIsFile ==
  ASSUME Faults \subseteq {"read"}
  PROVE  Spec => []FileInSync
  BY LibrarySafe, PTL

\* ... the header counts the valid entries: neither counter has ever wrapped.
THEOREM ImagesAreCounted ==
  ASSUME Faults \subseteq {"read"}
  PROVE  Spec => []Counted
  BY LibrarySafe, PTL

\* ... and a content is stored once, however many ids it has.
THEOREM ContentIsStoredOnce ==
  ASSUME Faults \subseteq {"read"}
  PROVE  Spec => []SharedOriginals
  BY LibrarySafe, PTL

-----------------------------------------------------------------------------
(* The store behind the file. *)

\* What an entry of the file stands for.
Stands(m) ==
  IF m.is_valid THEN [id |-> m.img_id, img |-> m.SHA]
                ELSE [id |-> NoId, img |-> NoImage]

\* What a caller finds by way of a copy m of the entry n.
LEMMA FoundImage ==
  ASSUME NEW m, NEW n, NEW d,
         SameSlot(m, n),
         n.is_valid => EntryIntact(n, d)
  PROVE  LET c == Content(m, d, ORIG_RES)
         IN  (IF m.is_valid
              THEN [id |-> m.img_id, img |-> IF c = NoImage THEN NoImage ELSE c.img]
              ELSE [id |-> NoId, img |-> NoImage]) = Stands(n)
<1>1. CASE ~n.is_valid
  <2>1. ~m.is_valid
    BY <1>1 DEF SameSlot
  <2> QED
    BY <1>1, <2>1 DEF Stands
<1>2. CASE n.is_valid
  <2>1. m = n
    BY <1>2 DEF SameSlot
  <2>2. n.SHA \in Images /\ Content(n, d, ORIG_RES) = Blob(n.SHA, ORIG_RES)
    BY <1>2 DEF EntryIntact
  <2>3. Blob(n.SHA, ORIG_RES) # NoImage /\ Blob(n.SHA, ORIG_RES).img = n.SHA
    BY <2>2, BlobIsImage DEF Blob, Res
  <2> QED
    BY <1>2, <2>1, <2>2, <2>3 DEF Stands
<1> QED
  BY <1>1, <1>2

\* Whether the file is open or not, the store is what the file holds.
LEMMA StoreNow ==
  ASSUME Safe
  PROVE  [i \in Slots |-> StoredIn(i)] = [i \in Slots |-> Stands(disk_metadata[i])]
<1> SUFFICES ASSUME NEW i \in Slots
             PROVE  StoredIn(i) = Stands(disk_metadata[i])
  OBVIOUS
<1>1. disk_metadata[i].is_valid => EntryIntact(disk_metadata[i], data)
  BY DEF Safe, Intact, Valid
<1>2. SameSlot(IF is_open THEN metadata[i] ELSE disk_metadata[i], disk_metadata[i])
  BY DEF Safe, FileInSync, SameSlot
<1> QED
  BY <1>1, <1>2, FoundImage DEF StoredIn

LEMMA StoreNext ==
  ASSUME Safe'
  PROVE  [i \in Slots |-> StoredIn(i)]' = [i \in Slots |-> Stands(disk_metadata'[i])]
<1> SUFFICES ASSUME NEW i \in Slots
             PROVE  StoredIn(i)' = Stands(disk_metadata'[i])
  OBVIOUS
<1>1. disk_metadata'[i].is_valid => EntryIntact(disk_metadata'[i], data')
  BY DEF Safe, Intact, Valid
<1>2. SameSlot(IF is_open' THEN metadata'[i] ELSE disk_metadata'[i], disk_metadata'[i])
  BY DEF Safe, FileInSync, SameSlot
<1> QED
  BY <1>1, <1>2, FoundImage DEF StoredIn

\* Its places.
LEMMA StoreSets ==
  ASSUME Safe
  PROVE  /\ Store!Places = Slots
         /\ Store!Free = Slots \ Valid(disk_metadata)
         /\ Store!Used = Valid(disk_metadata)
         /\ \A id : Store!Under(id) = Named(disk_metadata, id)
         /\ \A j \in Valid(disk_metadata) : disk_metadata[j].SHA \in Store!Stored
<1> DEFINE images == [i \in Slots |-> StoredIn(i)]
<1>0. Store!Places = Slots
  BY DEF Store!Places, Slots
<1>1. \A j \in Slots : images[j] = Stands(disk_metadata[j])
  BY StoreNow
<1>2. \A j \in Valid(disk_metadata) :
        /\ j \in Slots
        /\ images[j] = [id |-> disk_metadata[j].img_id, img |-> disk_metadata[j].SHA]
        /\ images[j] # [id |-> NoId, img |-> NoImage]
  <2> SUFFICES ASSUME NEW j \in Valid(disk_metadata)
               PROVE  /\ j \in Slots
                      /\ images[j] = [id  |-> disk_metadata[j].img_id,
                                      img |-> disk_metadata[j].SHA]
                      /\ images[j] # [id |-> NoId, img |-> NoImage]
    OBVIOUS
  <2>1. j \in Slots /\ disk_metadata[j].is_valid
    BY DEF Valid
  <2>2. disk_metadata[j].SHA # NoImage
    BY NamesAssumption DEF Safe, Intact, EntryIntact
  <2> HIDE DEF images
  <2> QED
    BY <1>1, <2>1, <2>2 DEF Stands
<1>3. \A j \in Slots \ Valid(disk_metadata) : images[j] = [id |-> NoId, img |-> NoImage]
  BY <1>1 DEF Stands, Valid
<1> HIDE DEF images
<1>4. Store!Free = Slots \ Valid(disk_metadata)
  BY <1>0, <1>2, <1>3 DEF Store!Free, Store!Nothing, images
<1>5. Store!Used = Valid(disk_metadata)
  BY <1>0, <1>4 DEF Store!Used, Valid
<1>6. \A id : Store!Under(id) = Named(disk_metadata, id)
  <2> TAKE id
  <2>1. Store!Under(id) = {p \in Valid(disk_metadata) : images[p].id = id}
    BY <1>5 DEF Store!Under, images
  <2>2. ASSUME NEW j \in Valid(disk_metadata)
        PROVE  images[j].id = disk_metadata[j].img_id
    <3>1. images[j] = [id |-> disk_metadata[j].img_id, img |-> disk_metadata[j].SHA]
      BY <1>2
    <3> QED
      BY <3>1
  <2> QED
    BY <2>1, <2>2 DEF Named
<1>7. \A j \in Valid(disk_metadata) : disk_metadata[j].SHA \in Store!Stored
  <2>1. Store!Stored = {images[p].img : p \in Valid(disk_metadata)}
    BY <1>5 DEF Store!Stored, images
  <2>2. ASSUME NEW j \in Valid(disk_metadata)
        PROVE  images[j].img = disk_metadata[j].SHA
    <3>1. images[j] = [id |-> disk_metadata[j].img_id, img |-> disk_metadata[j].SHA]
      BY <1>2
    <3> QED
      BY <3>1
  <2> QED
    BY <2>1, <2>2
<1> QED
  BY <1>0, <1>4, <1>5, <1>6, <1>7

\* What it is told of a call.
LEMMA StoreReplies ==
  ASSUME NEW call, NEW id, NEW arg, NEW err, NEW out,
         reply' = Reply(Call(call, id, arg), err, out)
  PROVE  Store!Returns(call, id, arg, err, out)
<1>1. Unlisted = [p \in {} |-> NoId]
  BY BlankType DEF Unlisted, Listing
<1> QED
  BY <1>1 DEF Reply, Call, Store!Returns

\* A step that leaves the images of the file as they are leaves the store.
LEMMA StoreStays ==
  ASSUME Safe, Safe', \A i \in Slots : Stands(disk_metadata'[i]) = Stands(disk_metadata[i])
  PROVE  UNCHANGED [i \in Slots |-> StoredIn(i)]
  BY StoreNow, StoreNext

LEMMA DiskStays ==
  ASSUME Safe, Safe', UNCHANGED disk
  PROVE  UNCHANGED [i \in Slots |-> StoredIn(i)]
  BY StoreStays DEF disk

-----------------------------------------------------------------------------
(* Slots and counters. *)

\* The slots below the first empty one are as many as it says.
LEMMA BelowIsCounted ==
  ASSUME NEW index, NEW i \in Slots, \A j \in 0 .. i - 1 : j \in Valid(index)
  PROVE  /\ i <= Cardinality(Valid(index))
         /\ i \in Valid(index) => i + 1 <= Cardinality(Valid(index))
<1>1. i \in Nat
  BY DEF Slots
<1>2. ASSUME NEW k \in Nat, 0 .. k - 1 \in SUBSET Valid(index)
      PROVE  k <= Cardinality(Valid(index))
  <2>1. Cardinality(0 .. k - 1) = k
    BY FS_Interval
  <2> QED
    BY <1>2, <2>1, ValidFinite, FS_Subset
<1>3. i <= Cardinality(Valid(index))
  BY <1>1, <1>2
<1>4. i \in Valid(index) => 0 .. (i + 1) - 1 \in SUBSET Valid(index)
  BY <1>1
<1>5. i + 1 \in Nat
  BY <1>1
<1> QED
  BY <1>2, <1>3, <1>4, <1>5

\* An array that counts MaxFiles images has no empty slot, and one without an
\* empty slot counts MaxFiles.
LEMMA FullIsCounted ==
  ASSUME NEW index
  PROVE  Cardinality(Valid(index)) = MaxFiles <=> Valid(index) = Slots
<1>1. Cardinality(Slots) = MaxFiles
  BY FS_Interval, MaxFilesAssumption DEF Slots
<1> QED
  BY <1>1, ValidFinite, SlotsFinite, FS_Subset

\* The insertion works behind the images only: the check of image_dedup.c never
\* fails.
LEMMA InsertCandidate ==
  ASSUME Safe, NEW i \in Slots, InsertAt(i), NEW id \in Ids, NEW img \in Images
  PROVE  LET stops == {j \in Valid(disk_metadata) : \/ disk_metadata[j].img_id = id
                                                    \/ disk_metadata[j].SHA = img}
             refused == stops # {} /\ disk_metadata[First(stops)].img_id = id
         IN  CandidateError(i, id, img) =
               IF refused THEN "ERR_DUPLICATE_ID" ELSE "ERR_NONE"
<1> DEFINE index == WithEntry(i, id, img)
           stops == {j \in Valid(disk_metadata) : \/ disk_metadata[j].img_id = id
                                                  \/ disk_metadata[j].SHA = img}
<1>0. /\ TypeOK
      /\ is_open
      /\ i \notin Valid(metadata)
      /\ metadata \in [Slots -> Metadata]
  BY InsertSlot DEF Safe, InsertAt, TypeOK
<1>1. /\ index[i].img_id = id
      /\ index[i].SHA = img
      /\ index[i].is_valid
      /\ index[i].size[ORIG_RES] = SizeOf[<<img, ORIG_RES>>]
      /\ \A j \in Slots \ {i} : index[j] = metadata[j]
      /\ DedupStops(index, i) =
           {j \in Valid(metadata) : metadata[j].img_id = id \/ metadata[j].SHA = img}
  BY <1>0, WithEntryFacts
<1>2. DedupStops(index, i) = stops
  BY <1>0, <1>1, OpenAgree
<1>3. i <= header.nb_files
  <2>1. EmptySlots \in SUBSET Slots /\ i = First(EmptySlots) /\ EmptySlots # {}
    BY DEF EmptySlots, InsertAt
  <2>2. \A j \in EmptySlots : i <= j
    BY <2>1, FirstIsLeast
  <2>3. \A j \in 0 .. i - 1 : j \in Valid(metadata)
    BY <2>2, MaxFilesAssumption DEF EmptySlots, Slots
  <2> QED
    BY <1>0, <2>3, BelowIsCounted, OpenAgree
<1>4. ~(i > header.nb_files \/ ~index[i].is_valid)
  BY <1>0, <1>1, <1>3, OpenAgree, ValidFinite DEF Slots
<1>5. stops # {} => index[First(stops)] = disk_metadata[First(stops)]
  <2>1. stops \in SUBSET Slots
    BY DEF Valid
  <2>2. stops # {} => First(stops) \in Valid(disk_metadata) /\ First(stops) \in Slots
    BY <2>1, FirstIsLeast
  <2>3. stops # {} => First(stops) \in Valid(metadata) /\ First(stops) # i
    BY <1>0, <2>2, OpenAgree
  <2> QED
    BY <1>0, <1>1, <2>2, <2>3, OpenAgree
<1> HIDE DEF index, stops
<1>6. CandidateError(i, id, img) = DedupError(index, header.nb_files, i)
  BY DEF CandidateError, index
<1>7. DedupError(index, header.nb_files, i) =
        IF stops # {} /\ index[First(stops)].img_id = id
        THEN "ERR_DUPLICATE_ID" ELSE "ERR_NONE"
  BY <1>1, <1>2, <1>4 DEF DedupError
<1> QED
  BY <1>5, <1>6, <1>7 DEF stops

\* The entry of an insertion has the id it was given.
LEMMA EntryNamed ==
  ASSUME TypeOK, NEW i \in Slots, i \notin Valid(metadata),
         NEW id \in Ids, NEW img \in Images
  PROVE  Entry(i, id, img).img_id = id
<1> DEFINE index == WithEntry(i, id, img)
           c     == Candidate(i, id, img)
<1>1. /\ index[i].img_id = id
      /\ index[i].SHA = img
      /\ index[i].is_valid
      /\ index[i].size[ORIG_RES] = SizeOf[<<img, ORIG_RES>>]
      /\ \A j \in Slots \ {i} : index[j] = metadata[j]
  BY WithEntryFacts
<1>2. /\ index \in [Slots -> Metadata]
      /\ index[i] \in Metadata
      /\ c \in Metadata
  BY EntryType
<1>3. c = Deduped(index, header.nb_files, i)
  BY DEF Candidate
<1> HIDE DEF index, c
<1>4. \/ c = index[i]
      \/ \E o, s : c = [index[i] EXCEPT !.offset = o, !.size = s]
      \/ c = [index[i] EXCEPT !.offset[ORIG_RES] = 0]
  BY <1>3 DEF Deduped
<1>5. c.img_id = id
  BY <1>1, <1>2, <1>4 DEF Metadata
<1>6. Entry(i, id, img) = c \/ Entry(i, id, img) = Placed(c, Len(data) + 1)
  BY DEF Entry, c
<1> QED
  BY <1>2, <1>5, <1>6 DEF Placed, Metadata

-----------------------------------------------------------------------------
(* The calls. *)

\* An insertion that is accepted puts one image into a free place.
LEMMA StoreInserts ==
  ASSUME Safe, Safe', NEW i \in Slots, NEW id \in Ids, NEW img \in Images,
         InsertDone(i, id, img)
  PROVE  Store!Insert(id, img)
<1> DEFINE e == Entry(i, id, img)
           images == [j \in Slots |-> StoredIn(j)]
           stops == {j \in Valid(disk_metadata) : \/ disk_metadata[j].img_id = id
                                                  \/ disk_metadata[j].SHA = img}
<1>1. /\ InsertAccepted(i, id, img)
      /\ InsertAt(i)
      /\ AppendImage(i, id, img)
      /\ disk_metadata' = [disk_metadata EXCEPT ![i] = e]
      /\ reply' = Reply(Call("insert", id, img), "ERR_NONE", NoImage)
      /\ img \notin Broken
      /\ CandidateError(i, id, img) = "ERR_NONE"
  BY DEF InsertDone, InsertAccepted, Insert
<1>2. /\ i \in Slots \ Valid(disk_metadata)
      /\ i \notin Valid(metadata)
      /\ TypeOK
      /\ disk_metadata \in [Slots -> Metadata]
  BY <1>1, InsertSlot DEF Safe, TypeOK
<1>3. /\ e.is_valid
      /\ e.SHA = img
      /\ e.img_id = id
  BY <1>1, <1>2, AcceptedEntry, EntryNamed
<1> HIDE DEF e
<1>4. images' = [images EXCEPT ![i] = [id |-> id, img |-> img]]
  <2>1. disk_metadata'[i] = e /\ \A j \in Slots \ {i} : disk_metadata'[j] = disk_metadata[j]
    BY <1>1, <1>2
  <2>2. Stands(disk_metadata'[i]) = [id |-> id, img |-> img]
    BY <1>3, <2>1 DEF Stands
  <2> QED
    BY <2>1, <2>2, StoreNow, StoreNext
<1>5. Store!Under(id) = {} \/ img \in Store!Stored
  <2>1. CASE stops = {}
    BY <2>1, StoreSets DEF Named
  <2>2. CASE stops # {}
    <3>1. stops \in SUBSET Slots
      BY DEF Valid
    <3>2. First(stops) \in stops
      BY <2>2, <3>1, FirstIsLeast
    <3>3. disk_metadata[First(stops)].img_id # id
      <4>1. CandidateError(i, id, img) =
              IF stops # {} /\ disk_metadata[First(stops)].img_id = id
              THEN "ERR_DUPLICATE_ID" ELSE "ERR_NONE"
        BY <1>1, InsertCandidate
      <4> HIDE DEF stops
      <4> QED
        BY <1>1, <2>2, <4>1
    <3>4. First(stops) \in Valid(disk_metadata) /\ disk_metadata[First(stops)].SHA = img
      BY <3>2, <3>3
    <3> QED
      BY <3>4, StoreSets
  <2> QED
    BY <2>1, <2>2
<1>6. i \in Store!Free
  BY <1>2, StoreSets
<1>7. Store!Returns("insert", id, img, "ERR_NONE", NoImage)
  BY <1>1, StoreReplies
<1> QED
  BY <1>1, <1>4, <1>5, <1>6, <1>7 DEF Store!Insert, Store!Entry

\* An insertion that is refused is refused for the reason it returns.
LEMMA StoreRefusesInsert ==
  ASSUME Safe, Safe', NEW id \in Ids, NEW img \in Images,
         \/ InsertFull(id, img)
         \/ \E i \in Slots : \/ InsertUndecodable(i, id, img)
                             \/ InsertRefused(i, id, img)
  PROVE  \E err \in {"ERR_IMGFS_FULL", "ERR_IMGLIB", "ERR_DUPLICATE_ID"} :
           Store!RefuseInsert(id, img, err)
<1>1. CASE InsertFull(id, img)
  <2>1. is_open /\ MaxFiles <= header.nb_files /\ UNCHANGED disk
    BY <1>1 DEF InsertFull
  <2>2. Cardinality(Valid(disk_metadata)) = MaxFiles
    BY <2>1, OpenAgree, ValidFinite, MaxFilesAssumption
  <2>3. Store!Free = {}
    BY <2>2, FullIsCounted, StoreSets
  <2>4. Store!Returns("insert", id, img, "ERR_IMGFS_FULL", NoImage)
    BY <1>1, StoreReplies DEF InsertFull, Insert
  <2> QED
    BY <2>1, <2>3, <2>4, DiskStays DEF Store!RefuseInsert
<1>2. ASSUME NEW i \in Slots, InsertUndecodable(i, id, img)
      PROVE  Store!RefuseInsert(id, img, "ERR_IMGLIB")
  <2>1. InsertAt(i) /\ img \in Broken /\ UNCHANGED disk
    BY <1>2 DEF InsertUndecodable
  <2>2. i \in Store!Free
    BY <2>1, InsertSlot, StoreSets
  <2>3. Store!Returns("insert", id, img, "ERR_IMGLIB", NoImage)
    BY <1>2, StoreReplies DEF InsertUndecodable, Insert
  <2> QED
    BY <2>1, <2>2, <2>3, DiskStays DEF Store!RefuseInsert
<1>3. ASSUME NEW i \in Slots, InsertRefused(i, id, img)
      PROVE  Store!RefuseInsert(id, img, "ERR_DUPLICATE_ID")
  <2> DEFINE stops == {j \in Valid(disk_metadata) : \/ disk_metadata[j].img_id = id
                                                    \/ disk_metadata[j].SHA = img}
  <2>1. InsertAt(i) /\ img \notin Broken /\ UNCHANGED disk
    BY <1>3 DEF InsertRefused
  <2>2. i \in Store!Free
    BY <2>1, InsertSlot, StoreSets
  <2>3. /\ CandidateError(i, id, img) = "ERR_DUPLICATE_ID"
        /\ stops # {}
        /\ disk_metadata[First(stops)].img_id = id
    <3>1. CandidateError(i, id, img) =
            IF stops # {} /\ disk_metadata[First(stops)].img_id = id
            THEN "ERR_DUPLICATE_ID" ELSE "ERR_NONE"
      BY <2>1, InsertCandidate
    <3>2. CandidateError(i, id, img) # "ERR_NONE"
      BY <1>3 DEF InsertRefused
    <3> HIDE DEF stops
    <3> QED
      BY <3>1, <3>2
  <2>4. Store!Under(id) # {}
    <3>1. stops \in SUBSET Slots
      BY DEF Valid
    <3>2. First(stops) \in stops
      BY <2>3, <3>1, FirstIsLeast
    <3>3. First(stops) \in Named(disk_metadata, id)
      BY <2>3, <3>2 DEF Named
    <3> QED
      BY <3>3, StoreSets
  <2>5. Store!Returns("insert", id, img, "ERR_DUPLICATE_ID", NoImage)
    BY <1>3, <2>3, StoreReplies DEF InsertRefused, Insert
  <2> QED
    BY <2>1, <2>2, <2>4, <2>5, DiskStays DEF Store!RefuseInsert
<1> QED
  BY <1>1, <1>2, <1>3

\* A full array is counted as full: do_insert never ends without a slot.
LEMMA NeverNowhere ==
  ASSUME Safe, NEW id, NEW img
  PROVE  ~InsertNowhere(id, img)
<1> SUFFICES ASSUME InsertNowhere(id, img)
             PROVE  FALSE
  OBVIOUS
<1>1. is_open /\ header.nb_files < MaxFiles /\ EmptySlots = {}
  BY DEF InsertNowhere
<1>2. Valid(metadata) = Slots
  BY <1>1 DEF EmptySlots, Valid
<1> QED
  BY <1>1, <1>2, FullIsCounted, OpenAgree, MaxFilesAssumption

\* A deletion empties a place of its id, and fails when there is none.
LEMMA StoreDeletes ==
  ASSUME Safe, Safe', NEW id \in Ids,
         DeleteMissing(id) \/ DeleteDone(id)
  PROVE  Store!Delete(id) \/ Store!RefuseDelete(id)
<1>1. CASE DeleteMissing(id)
  <2>1. is_open /\ Named(metadata, id) = {} /\ UNCHANGED disk
    BY <1>1 DEF DeleteMissing
  <2>2. Store!Under(id) = {}
    BY <2>1, OpenAgree, StoreSets DEF Named
  <2>3. Store!Returns("delete", id, NoImage, "ERR_IMAGE_NOT_FOUND", NoImage)
    BY <1>1, StoreReplies DEF DeleteMissing, Delete
  <2> QED
    BY <2>1, <2>2, <2>3, DiskStays DEF Store!RefuseDelete
<1>2. CASE DeleteDone(id)
  <2> DEFINE i == First(Named(metadata, id))
             images == [j \in Slots |-> StoredIn(j)]
  <2>1. /\ is_open
        /\ Named(metadata, id) # {}
        /\ disk_metadata' = [metadata EXCEPT ![i].is_valid = FALSE]
        /\ reply' = Reply(Call("delete", id, NoImage), "ERR_NONE", NoImage)
    BY <1>2 DEF DeleteDone, Deleted, Delete
  <2>2. /\ metadata \in [Slots -> Metadata]
        /\ disk_metadata \in [Slots -> Metadata]
        /\ \A j \in Slots : SameSlot(metadata[j], disk_metadata[j])
    BY <2>1 DEF Safe, TypeOK, FileInSync
  <2>3. i \in Named(metadata, id) /\ i \in Slots
    <3>1. Named(metadata, id) \in SUBSET Slots
      BY DEF Named, Valid
    <3> QED
      BY <2>1, <3>1, FirstIsLeast
  <2>4. i \in Store!Under(id)
    BY <2>1, <2>3, OpenAgree, StoreSets DEF Named
  <2> HIDE DEF i
  <2>5. images' = [images EXCEPT ![i] = [id |-> NoId, img |-> NoImage]]
    <3>1. disk_metadata'[i] = [metadata[i] EXCEPT !.is_valid = FALSE]
      BY <2>1, <2>2, <2>3
    <3>2. Stands(disk_metadata'[i]) = [id |-> NoId, img |-> NoImage]
      BY <2>2, <2>3, <3>1 DEF Stands, Metadata
    <3>3. \A j \in Slots \ {i} : disk_metadata'[j] = metadata[j]
      BY <2>1, <2>2
    <3>4. \A j \in Slots \ {i} : Stands(disk_metadata'[j]) = Stands(disk_metadata[j])
      BY <2>2, <3>3 DEF Stands, SameSlot
    <3> QED
      BY <2>3, <3>2, <3>4, StoreNow, StoreNext
  <2>6. Store!Returns("delete", id, NoImage, "ERR_NONE", NoImage)
    BY <2>1, StoreReplies
  <2> QED
    BY <2>4, <2>5, <2>6 DEF Store!Delete, Store!Nothing
<1> QED
  BY <1>1, <1>2

\* The entry that a read has found.
LEMMA ReadEntry ==
  ASSUME Safe, NEW i \in Slots, NEW id \in Ids, ReadAt(i, id)
  PROVE  /\ is_open
         /\ i \in Named(disk_metadata, id)
         /\ metadata[i] = disk_metadata[i]
         /\ metadata[i] \in Metadata
         /\ EntryIntact(metadata[i], data)
         /\ metadata[i].SHA \in Images
<1>1. is_open /\ Named(metadata, id) # {} /\ i = First(Named(metadata, id))
  BY DEF ReadAt
<1>2. i \in Named(metadata, id)
  <2>1. Named(metadata, id) \in SUBSET Slots
    BY DEF Named, Valid
  <2> QED
    BY <1>1, <2>1, FirstIsLeast
<1>3. i \in Named(disk_metadata, id) /\ metadata[i] = disk_metadata[i]
  BY <1>1, <1>2, OpenAgree DEF Named
<1>4. EntryIntact(metadata[i], data)
  BY <1>3 DEF Safe, Intact, Named
<1> QED
  BY <1>1, <1>3, <1>4 DEF Safe, TypeOK, EntryIntact

\* What is there need not be made, and is the image at that resolution.
LEMMA StoredContent ==
  ASSUME NEW m \in Metadata, NEW res \in Res, EntryIntact(m, data),
         res = ORIG_RES \/ m.size[res] # 0 \/ m.offset[res] # 0
  PROVE  /\ Content(m, data, res) = [img |-> m.SHA, res |-> res]
         /\ Content(m, data, res) # NoImage
<1>1. Content(m, data, res) = Blob(m.SHA, res)
  BY DEF EntryIntact, DerivedIntact, Res
<1> QED
  BY <1>1, BlobIsImage DEF Blob, EntryIntact

\* Making a derived image changes nothing of what an entry stands for.
LEMMA ResizedStands ==
  ASSUME Safe, NEW i \in Slots, NEW id \in Ids, NEW res \in Res,
         ReadResized(i, id, res)
  PROVE  /\ Valid(disk_metadata') = Valid(disk_metadata)
         /\ \A j \in Slots : /\ disk_metadata'[j].is_valid = disk_metadata[j].is_valid
                            /\ disk_metadata'[j].img_id = disk_metadata[j].img_id
                            /\ disk_metadata'[j].SHA = disk_metadata[j].SHA
<1> DEFINE e == ResizedEntry(i, res)
<1>1. disk_metadata' = [disk_metadata EXCEPT ![i] = e] /\ ReadAt(i, id)
  BY DEF ReadResized, Resizes
<1>2. metadata[i] \in Metadata /\ metadata[i] = disk_metadata[i]
  BY <1>1, ReadEntry
<1>3. e.is_valid = metadata[i].is_valid /\ e.img_id = metadata[i].img_id /\ e.SHA = metadata[i].SHA
  BY <1>2 DEF ResizedEntry, Metadata
<1>4. disk_metadata \in [Slots -> Metadata]
  BY DEF Safe, TypeOK
<1> HIDE DEF e
<1>5. \A j \in Slots : /\ disk_metadata'[j].is_valid = disk_metadata[j].is_valid
                      /\ disk_metadata'[j].img_id = disk_metadata[j].img_id
                      /\ disk_metadata'[j].SHA = disk_metadata[j].SHA
  BY <1>1, <1>2, <1>3, <1>4
<1> QED
  BY <1>5 DEF Valid

\* A read that succeeds hands out the image of the id at the resolution asked for.
LEMMA StoreReads ==
  ASSUME Safe, Safe', NEW i \in Slots, NEW id \in Ids, NEW res \in Res,
         \/ ReadStored(i, id, res)
         \/ ReadResized(i, id, res) /\ reply'.err = "ERR_NONE"
  PROVE  Store!Read(id, res)
<1> DEFINE images == [j \in Slots |-> StoredIn(j)]
           m      == metadata[i]
           out    == [img |-> m.SHA, res |-> res]
<1>1. ReadAt(i, id)
  BY DEF ReadStored, ReadResized, Resizes
<1>2. /\ i \in Named(disk_metadata, id)
      /\ m = disk_metadata[i]
      /\ m \in Metadata
      /\ EntryIntact(m, data)
      /\ m.SHA \in Images
  BY <1>1, ReadEntry
<1>3. images[i].img = m.SHA /\ i \in Store!Under(id)
  <2>1. images[i] = Stands(disk_metadata[i]) /\ disk_metadata[i].is_valid
    BY <1>2, StoreNow DEF Named, Valid
  <2>2. images[i].img = disk_metadata[i].SHA
    BY <2>1 DEF Stands
  <2> QED
    BY <1>2, <2>2, StoreSets
<1>4. reply' = Reply(Call("read", id, res), "ERR_NONE", out) /\ UNCHANGED images
  <2>1. CASE ReadStored(i, id, res)
    <3>1. res = ORIG_RES \/ m.size[res] # 0 \/ m.offset[res] # 0
      BY <2>1 DEF ReadStored, CallsResize
    <3>2. Content(m, data, res) = out
      BY <1>2, <3>1, StoredContent
    <3> QED
      BY <2>1, <3>2, DiskStays DEF ReadStored, Read
  <2>2. CASE ReadResized(i, id, res) /\ reply'.err = "ERR_NONE"
    <3>1. Resized(i, res) = out
      <4>1. Content(m, data, ORIG_RES) = Blob(m.SHA, ORIG_RES)
        BY <1>2 DEF EntryIntact
      <4> QED
        BY <4>1 DEF Resized, Blob
    <3>2. reply' = Reply(Call("read", id, res), "ERR_NONE", out)
      BY <2>2, <3>1 DEF ReadResized, Read, Reply
    <3> QED
      BY <2>2, <3>2, ResizedStands, StoreStays DEF Stands
  <2> QED
    BY <2>1, <2>2
<1>5. Store!Returns("read", id, res, "ERR_NONE", out)
  BY <1>4, StoreReplies
<1> QED
  BY <1>3, <1>4, <1>5 DEF Store!Read

\* A read fails because there is no such id, because a lower slot is empty, or
\* because the file could not be read or the image not be made.
LEMMA StoreRefusesRead ==
  ASSUME Faults \subseteq {"read"}, Safe, Safe', NEW id \in Ids, NEW res \in Res,
         \/ ReadMissing(id, res)
         \/ \E i \in Slots : \/ ReadOutOfBounds(i, id, res)
                             \/ ReadFails(i, id, res)
                             \/ ReadResized(i, id, res) /\ reply'.err # "ERR_NONE"
  PROVE  \E err \in Store!ReadErrors : Store!RefuseRead(id, res, err)
<1>1. ASSUME ReadMissing(id, res)
      PROVE  Store!RefuseRead(id, res, "ERR_IMAGE_NOT_FOUND")
  <2>1. is_open /\ Named(metadata, id) = {} /\ UNCHANGED disk
    BY <1>1 DEF ReadMissing
  <2>2. Store!Under(id) = {}
    BY <2>1, OpenAgree, StoreSets DEF Named
  <2>3. Store!Returns("read", id, res, "ERR_IMAGE_NOT_FOUND", NoImage)
    BY <1>1, StoreReplies DEF ReadMissing, Read
  <2> QED
    BY <2>1, <2>2, <2>3, DiskStays DEF Store!RefuseRead
<1>2. ASSUME NEW i \in Slots, ReadOutOfBounds(i, id, res)
      PROVE  Store!RefuseRead(id, res, "ERR_INVALID_IMGID")
  <2>1. ReadAt(i, id) /\ res # ORIG_RES /\ i >= header.nb_files /\ UNCHANGED disk
    BY <1>2 DEF ReadOutOfBounds, CallsResize
  <2>2. is_open /\ i \in Named(disk_metadata, id)
    BY <2>1, ReadEntry
  <2>3. i \in Valid(disk_metadata) /\ i >= Cardinality(Valid(disk_metadata))
    BY <2>1, <2>2, OpenAgree DEF Named
  <2>4. PICK q \in 0 .. i - 1 : q \notin Valid(disk_metadata)
    <3>1. (\A q \in 0 .. i - 1 : q \in Valid(disk_metadata))
            => i + 1 <= Cardinality(Valid(disk_metadata))
      BY <2>3, BelowIsCounted
    <3> QED
      BY <2>3, <3>1, ValidFinite DEF Slots
  <2>5. q \in Store!Free /\ q < i
    BY <2>4, StoreSets, MaxFilesAssumption DEF Slots
  <2>6. i \in Store!Under(id)
    BY <2>2, StoreSets
  <2>7. Store!Returns("read", id, res, "ERR_INVALID_IMGID", NoImage)
    BY <1>2, StoreReplies DEF ReadOutOfBounds, Read
  <2> QED
    BY <2>1, <2>5, <2>6, <2>7, DiskStays DEF Store!RefuseRead, Res
<1>3. ASSUME NEW i \in Slots, ReadAt(i, id), "read" \in Faults, NEW err \in ReadErrors(i, res),
             UNCHANGED [j \in Slots |-> StoredIn(j)],
             reply' = Reply(Read(id, res), err, NoImage)
      PROVE  Store!RefuseRead(id, res, err)
  <2>1. i \in Store!Under(id)
    BY <1>3, ReadEntry, StoreSets
  <2>2. Store!Returns("read", id, res, err, NoImage)
    BY <1>3, StoreReplies DEF Read
  <2>3. \/ err \in {"ERR_IO", "ERR_OUT_OF_MEMORY"}
        \/ err = "ERR_IMGLIB" /\ res \in DerivedRes
    BY <1>3 DEF ReadErrors, NeedsResize, CallsResize, Res
  <2> QED
    BY <1>3, <2>1, <2>2, <2>3 DEF Store!RefuseRead
<1>4. ASSUME NEW i \in Slots, ReadFails(i, id, res)
      PROVE  \E err \in ReadErrors(i, res) : Store!RefuseRead(id, res, err)
  <2> DEFINE m == metadata[i]
  <2>1. /\ ReadAt(i, id)
        /\ \/ /\ "read" \in Faults
              /\ \E err \in ReadErrors(i, res) : reply' = Reply(Read(id, res), err, NoImage)
           \/ Content(m, data, Wanted(i, res)) = NoImage
        /\ ~(CallsResize(i, res) /\ i >= header.nb_files)
        /\ UNCHANGED disk
    BY <1>4 DEF ReadFails
  <2>2. is_open /\ m \in Metadata /\ EntryIntact(m, data)
    BY <2>1, ReadEntry
  <2>3. Content(m, data, Wanted(i, res)) # NoImage
    <3>1. CASE NeedsResize(i, res)
      BY <2>2, <3>1, StoredContent DEF Wanted, Res
    <3>2. CASE ~NeedsResize(i, res)
      <4>1. header.nb_files \in Nat /\ i \in Nat
        BY <2>2, OpenAgree, ValidFinite, <2>1 DEF ReadAt, Slots
      <4>2. res = ORIG_RES \/ m.size[res] # 0 \/ m.offset[res] # 0
        BY <2>1, <3>2, <4>1 DEF NeedsResize, CallsResize
      <4> QED
        BY <2>2, <3>2, <4>2, StoredContent DEF Wanted
    <3> QED
      BY <3>1, <3>2
  <2> QED
    BY <1>3, <2>1, <2>3, DiskStays
<1>5. ASSUME NEW i \in Slots, ReadResized(i, id, res), reply'.err # "ERR_NONE"
      PROVE  \E err \in ReadErrors(i, res) : Store!RefuseRead(id, res, err)
  <2>1. ReadAt(i, id)
    BY <1>5 DEF ReadResized, Resizes
  <2>2. UNCHANGED [j \in Slots |-> StoredIn(j)]
    BY <1>5, ResizedStands, StoreStays DEF Stands
  <2>3. /\ "read" \in Faults
        /\ \E err \in {"ERR_IO", "ERR_OUT_OF_MEMORY"} :
             reply' = Reply(Read(id, res), err, NoImage)
    BY <1>5 DEF ReadResized, Reply
  <2>4. PICK err \in ReadErrors(i, res) : reply' = Reply(Read(id, res), err, NoImage)
    BY <2>3 DEF ReadErrors
  <2> QED
    BY <1>3, <2>1, <2>2, <2>3, <2>4
<1>6. \A i \in Slots : ReadErrors(i, res) \subseteq Store!ReadErrors
  BY DEF ReadErrors, Store!ReadErrors
<1>7. {"ERR_IMAGE_NOT_FOUND", "ERR_INVALID_IMGID"} \subseteq Store!ReadErrors
  BY DEF Store!ReadErrors
<1> QED
  BY <1>1, <1>2, <1>4, <1>5, <1>6, <1>7

\* Both lists show the places in use, unless the JSON cannot be made.
LEMMA StoreLists ==
  ASSUME Safe, Safe', ListJson \/ ListStdout
  PROVE  Store!List \/ Store!RefuseList
<1>a. CASE reply' = Reply(Call("list", NoId, NoImage), "ERR_RUNTIME", NoImage)
            /\ "read" \in Faults
  <2>1. UNCHANGED disk
    BY DEF ListJson, ListStdout
  <2>2. Store!Returns("list", NoId, NoImage, "ERR_RUNTIME", NoImage)
    BY <1>a, StoreReplies
  <2> QED
    BY <1>a, <2>1, <2>2, DiskStays DEF Store!RefuseList
<1>b. SUFFICES ASSUME ~("read" \in Faults /\ reply' = Reply(Call("list", NoId, NoImage), "ERR_RUNTIME", NoImage))
               PROVE  Store!List
  BY <1>a
<1> DEFINE images == [j \in Slots |-> StoredIn(j)]
<1>1. is_open /\ UNCHANGED disk
  BY DEF ListJson, ListStdout
<1>2. \/ reply' = Shown(Listing(metadata))
      \/ header.nb_files = 0 /\ reply' = Shown(Unlisted)
  BY <1>b DEF ListJson, ListStdout
<1>3. Listing(metadata) = [j \in Valid(disk_metadata) |-> disk_metadata[j].img_id]
  BY <1>1, OpenAgree DEF Listing
<1>4. header.nb_files = 0 => Listing(metadata) = [p \in {} |-> NoId]
  <2>1. header.nb_files = 0 => Valid(disk_metadata) = {}
    BY <1>1, OpenAgree, ValidFinite, FS_EmptySet
  <2> QED
    BY <1>3, <2>1
<1>5. Unlisted = [p \in {} |-> NoId]
  BY BlankType DEF Unlisted, Listing
<1>6. reply' = Shown(Listing(metadata))
  BY <1>2, <1>4, <1>5
<1>7. [j \in Valid(disk_metadata) |-> disk_metadata[j].img_id]
        = [p \in Store!Used |-> images[p].id]
  <2>1. \A j \in Valid(disk_metadata) :
          j \in Slots /\ Stands(disk_metadata[j]).id = disk_metadata[j].img_id
    BY DEF Stands, Valid
  <2>2. \A j \in Slots : images[j] = Stands(disk_metadata[j])
    BY StoreNow
  <2> HIDE DEF images
  <2> QED
    BY <2>1, <2>2, StoreSets
<1>8. reply' = [call |-> [call |-> "list", id |-> NoId, arg |-> NoImage],
                err |-> "ERR_NONE", out |-> NoImage,
                ids |-> [p \in Store!Used |-> images[p].id]]
  BY <1>3, <1>6, <1>7 DEF Shown, Reply, Call
<1> QED
  BY <1>1, <1>8, DiskStays DEF Store!List

-----------------------------------------------------------------------------
(* The refinement. *)

LEMMA StoreInit == Init => Store!Init
<1> SUFFICES ASSUME Init
             PROVE  Store!Init
  OBVIOUS
<1>1. \A i \in Slots : StoredIn(i) = [id |-> NoId, img |-> NoImage]
  BY DEF Init, StoredIn, BlankIndex, BlankMetadata
<1>2. Unlisted = [p \in {} |-> NoId]
  BY BlankType DEF Unlisted, Listing
<1>3. reply = [call |-> [call |-> "create", id |-> NoId, arg |-> NoImage],
               err |-> "ERR_NONE", out |-> NoImage, ids |-> [p \in {} |-> NoId]]
  BY <1>2 DEF Init, Reply, Call
<1>4. Store!Places = Slots
  BY DEF Store!Places, Slots
<1> QED
  BY <1>1, <1>3, <1>4 DEF Store!Init, Store!Nothing

LEMMA StoreStep ==
  ASSUME Faults \subseteq {"read"}, Safe, Safe', [Next]_vars
  PROVE  [Store!Next]_(Store!svars)
<1> DEFINE images == [j \in Slots |-> StoredIn(j)]
<1>1. CASE Create
  <2>1. images' = [p \in Store!Places |-> Store!Nothing]
    <3>1. \A i \in Slots : Stands(disk_metadata'[i]) = [id |-> NoId, img |-> NoImage]
      BY <1>1 DEF Create, Stands, BlankIndex, BlankMetadata
    <3> QED
      BY <3>1, StoreNext, StoreSets DEF Store!Nothing
  <2>2. Store!Returns("create", NoId, NoImage, "ERR_NONE", NoImage)
    BY <1>1, StoreReplies DEF Create
  <2> QED
    BY <2>1, <2>2 DEF Store!Next, Store!Create
<1>2. CASE Open \/ Close
  <2>1. UNCHANGED disk /\ reply' = Reply(Call("none", NoId, NoImage), "ERR_NONE", NoImage)
    BY <1>2 DEF Open, Close
  <2> QED
    BY <2>1, DiskStays, StoreReplies DEF Store!Next, Store!Session
<1>3. ASSUME NEW id \in Ids, NEW img \in Images, InsertCall(id, img)
      PROVE  Store!Next
  <2>1. ASSUME NEW i \in Slots
        PROVE  /\ ~InsertFailsAtData(i, id, img)
               /\ ~InsertFailsAtMetadata(i, id, img)
               /\ ~InsertFailsAtHeader(i, id, img)
    BY DEF InsertFailsAtData, InsertFailsAtMetadata, InsertFailsAtHeader
  <2>2. CASE \E i \in Slots : InsertDone(i, id, img)
    BY <2>2, StoreInserts DEF Store!Next
  <2>3. CASE \/ InsertFull(id, img)
             \/ \E i \in Slots : InsertUndecodable(i, id, img) \/ InsertRefused(i, id, img)
    <3>1. \E err \in {"ERR_IMGFS_FULL", "ERR_IMGLIB", "ERR_DUPLICATE_ID"} :
            Store!RefuseInsert(id, img, err)
      BY <2>3, StoreRefusesInsert
    <3> QED
      BY <3>1 DEF Store!Next
  <2> QED
    BY <1>3, <2>1, <2>2, <2>3, NeverNowhere DEF InsertCall
<1>4. ASSUME NEW id \in Ids, DeleteCall(id)
      PROVE  Store!Next
  <2>1. ~DeleteFailsAtMetadata(id) /\ ~DeleteFailsAtHeader(id)
    BY DEF DeleteFailsAtMetadata, DeleteFailsAtHeader
  <2> QED
    BY <1>4, <2>1, StoreDeletes DEF DeleteCall, Store!Next
<1>5. ASSUME NEW id \in Ids, NEW res \in Res, ReadCall(id, res)
      PROVE  Store!Next
  <2>1. res \in DerivedRes \union {ORIG_RES}
    BY DEF Res
  <2>2. ASSUME NEW i \in Slots
        PROVE  ~ReadFailsAtMetadata(i, id, res) /\ ~ReadUndecodable(i, id, res)
    <3>1. ~ReadFailsAtMetadata(i, id, res)
      BY DEF ReadFailsAtMetadata
    <3>2. ReadAt(i, id) => Content(metadata[i], data, ORIG_RES) # NoImage
      BY ReadEntry, StoredContent DEF Res
    <3> QED
      BY <3>1, <3>2 DEF ReadUndecodable
  <2>3. CASE \E i \in Slots : \/ ReadStored(i, id, res)
                              \/ ReadResized(i, id, res) /\ reply'.err = "ERR_NONE"
    <3>1. Store!Read(id, res)
      BY <2>3, StoreReads
    <3> QED
      BY <2>1, <3>1 DEF Store!Next
  <2>4. CASE \/ ReadMissing(id, res)
             \/ \E i \in Slots : \/ ReadOutOfBounds(i, id, res)
                                 \/ ReadFails(i, id, res)
                                 \/ ReadResized(i, id, res) /\ reply'.err # "ERR_NONE"
    <3>1. \E err \in Store!ReadErrors : Store!RefuseRead(id, res, err)
      BY <2>4, StoreRefusesRead
    <3> QED
      BY <2>1, <3>1 DEF Store!Next
  <2>5. CASE ReadMissing(id, res)
    BY <2>4, <2>5
  <2>6. CASE ~ReadMissing(id, res)
    <3>1. PICK i \in Slots : \/ ReadStored(i, id, res)
                             \/ ReadOutOfBounds(i, id, res)
                             \/ ReadResized(i, id, res)
                             \/ ReadFails(i, id, res)
      BY <1>5, <2>2, <2>6 DEF ReadCall
    <3>2. CASE reply'.err = "ERR_NONE"
      BY <2>3, <2>4, <3>1, <3>2
    <3>3. CASE reply'.err # "ERR_NONE"
      <4>1. ReadStored(i, id, res) => reply'.err = "ERR_NONE"
        BY DEF ReadStored, Reply
      <4> QED
        BY <2>4, <3>1, <3>3, <4>1
    <3> QED
      BY <3>2, <3>3
  <2> QED
    BY <2>5, <2>6
<1>6. CASE ListJson \/ ListStdout
  BY <1>6, StoreLists DEF Store!Next
<1>7. CASE UNCHANGED vars
  <2>1. UNCHANGED <<disk, reply>>
    BY <1>7 DEF vars, disk
  <2> QED
    BY <2>1, DiskStays DEF Store!svars
<1> QED
  BY <1>1, <1>2, <1>3, <1>4, <1>5, <1>6, <1>7 DEF Next

\* While no write to the file fails, the library does what ImgStore promises,
\* whatever the size of the file and whatever images and ids it is given.
THEOREM LibraryImplementsStore ==
  ASSUME Faults \subseteq {"read"}
  PROVE  Spec => ImplementsStore
<1>1. Init => Safe
  BY InitSafe
<1>2. Safe /\ [Next]_vars => Safe'
  BY NextSafe
<1>3. Init => Store!Init
  BY StoreInit
<1>4. Safe /\ Safe' /\ [Next]_vars => [Store!Next]_(Store!svars)
  BY StoreStep
<1> QED
  BY <1>1, <1>2, <1>3, <1>4, PTL DEF Spec, ImplementsStore, Store!Spec

-----------------------------------------------------------------------------
(* The version. *)

LEMMA VersionStep ==
  ASSUME Faults \subseteq {"read"}, Safe, [Next]_vars, ~Create
  PROVE  disk_header'.version = IF Visible(disk_metadata') = Visible(disk_metadata)
                                THEN disk_header.version
                                ELSE Inc(disk_header.version)
<1> DEFINE Counts ==
      disk_header'.version = IF Visible(disk_metadata') = Visible(disk_metadata)
                             THEN disk_header.version
                             ELSE Inc(disk_header.version)
<1> SUFFICES Counts
  OBVIOUS
<1>u. ASSUME disk_header' = disk_header, disk_metadata' = disk_metadata
      PROVE  Counts
  BY <1>u
<1>d. UNCHANGED disk => Counts
  BY <1>u DEF disk
<1>1. CASE Open \/ Close \/ ListJson \/ ListStdout
  BY <1>1, <1>d DEF Open, Close, ListJson, ListStdout
<1>2. ASSUME NEW id \in Ids, NEW img \in Images, InsertCall(id, img)
      PROVE  Counts
  <2>1. ASSUME NEW i \in Slots, InsertDone(i, id, img)
        PROVE  Counts
    <3>1. /\ InsertAt(i)
          /\ is_open
          /\ InsertAccepted(i, id, img)
          /\ AppendImage(i, id, img)
          /\ disk_metadata' = [disk_metadata EXCEPT ![i] = Entry(i, id, img)]
          /\ disk_header'.version = Inc(header.version)
      BY <2>1 DEF InsertDone, InsertAccepted, InsertAt, BumpInsert
    <3>2. i \notin Valid(disk_metadata) /\ header = disk_header
      BY <3>1, InsertSlot, OpenAgree
    <3>3. disk_metadata \in [Slots -> Metadata] /\ Entry(i, id, img).is_valid
      BY <3>1, AcceptedEntry DEF Safe, TypeOK
    <3>4. i \in Valid(disk_metadata')
      BY <3>1, <3>3 DEF Valid
    <3>5. DOMAIN Visible(disk_metadata') # DOMAIN Visible(disk_metadata)
      BY <3>2, <3>4 DEF Visible
    <3> QED
      BY <3>1, <3>2, <3>5
  <2>2. ASSUME NEW i \in Slots
        PROVE  /\ ~InsertFailsAtData(i, id, img)
               /\ ~InsertFailsAtMetadata(i, id, img)
               /\ ~InsertFailsAtHeader(i, id, img)
    BY DEF InsertFailsAtData, InsertFailsAtMetadata, InsertFailsAtHeader
  <2>3. CASE \/ InsertFull(id, img) \/ InsertNowhere(id, img)
             \/ \E i \in Slots : InsertUndecodable(i, id, img) \/ InsertRefused(i, id, img)
    <3>1. UNCHANGED disk
      BY <2>3 DEF InsertFull, InsertNowhere, InsertUndecodable, InsertRefused
    <3> QED
      BY <3>1, <1>d
  <2> HIDE DEF Counts
  <2> QED
    BY <1>2, <2>1, <2>2, <2>3 DEF InsertCall
<1>3. ASSUME NEW id \in Ids, DeleteCall(id)
      PROVE  Counts
  <2>1. CASE DeleteMissing(id)
    BY <2>1, <1>d DEF DeleteMissing
  <2>2. CASE DeleteDone(id)
    <3> DEFINE i == First(Named(metadata, id))
    <3>1. /\ is_open
          /\ Named(metadata, id) # {}
          /\ disk_metadata' = [metadata EXCEPT ![i].is_valid = FALSE]
          /\ disk_header'.version = Inc(header.version)
      BY <2>2 DEF DeleteDone, Deleted, BumpDelete
    <3>2. i \in Valid(disk_metadata) /\ i \in Slots /\ header = disk_header
      <4>1. Named(metadata, id) \in SUBSET Slots
        BY DEF Named, Valid
      <4>2. i \in Named(metadata, id)
        BY <3>1, <4>1, FirstIsLeast
      <4> QED
        BY <3>1, <4>1, <4>2, OpenAgree DEF Named
    <3>3. metadata \in [Slots -> Metadata]
      BY DEF Safe, TypeOK
    <3> HIDE DEF i
    <3>4. i \notin Valid(disk_metadata')
      BY <3>1, <3>2, <3>3 DEF Valid, Metadata
    <3>5. DOMAIN Visible(disk_metadata') # DOMAIN Visible(disk_metadata)
      BY <3>2, <3>4 DEF Visible
    <3> QED
      BY <3>1, <3>2, <3>5
  <2>3. ~DeleteFailsAtMetadata(id) /\ ~DeleteFailsAtHeader(id)
    BY DEF DeleteFailsAtMetadata, DeleteFailsAtHeader
  <2> HIDE DEF Counts
  <2> QED
    BY <1>3, <2>1, <2>2, <2>3 DEF DeleteCall
<1>4. ASSUME NEW id \in Ids, NEW res \in Res, ReadCall(id, res)
      PROVE  Counts
  <2>1. ASSUME NEW i \in Slots, ReadResized(i, id, res)
        PROVE  Counts
    <3>1. disk_header' = disk_header
      BY <2>1 DEF ReadResized
    <3>2. Visible(disk_metadata') = Visible(disk_metadata)
      <4>1. Valid(disk_metadata) \in SUBSET Slots
        BY DEF Valid
      <4> QED
        BY <2>1, <4>1, ResizedStands DEF Visible
    <3> QED
      BY <3>1, <3>2
  <2>2. CASE \/ ReadMissing(id, res)
             \/ \E i \in Slots : \/ ReadStored(i, id, res)
                                 \/ ReadOutOfBounds(i, id, res)
                                 \/ ReadUndecodable(i, id, res)
                                 \/ ReadFails(i, id, res)
    <3>1. UNCHANGED disk
      BY <2>2 DEF ReadMissing, ReadStored, ReadOutOfBounds, ReadUndecodable, ReadFails
    <3> QED
      BY <3>1, <1>d
  <2>3. \A i \in Slots : ~ReadFailsAtMetadata(i, id, res)
    BY DEF ReadFailsAtMetadata
  <2> HIDE DEF Counts
  <2> QED
    BY <1>4, <2>1, <2>2, <2>3 DEF ReadCall
<1>5. CASE UNCHANGED vars
  BY <1>5, <1>u DEF vars
<1> HIDE DEF Counts
<1> QED
  BY <1>1, <1>2, <1>3, <1>4, <1>5 DEF Next

\* While no write to the file fails, the version moves by one with every change
\* of the images in the file and with nothing else, the wrap of the counter
\* included.
THEOREM VersionCounts ==
  ASSUME Faults \subseteq {"read"}
  PROVE  Spec => VersionFollowsContent
<1>1. Init => Safe
  BY InitSafe
<1>2. Safe /\ [Next]_vars => Safe'
  BY NextSafe
<1>3. Safe /\ [Next]_vars =>
        [\/ Create
         \/ disk_header'.version = (IF Visible(disk_metadata') = Visible(disk_metadata)
                                    THEN disk_header.version
                                    ELSE Inc(disk_header.version))]_vars
  BY VersionStep
<1> QED
  BY <1>1, <1>2, <1>3, PTL DEF Spec, VersionFollowsContent

=============================================================================
