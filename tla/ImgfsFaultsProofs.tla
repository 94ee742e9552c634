-------------------------- MODULE ImgfsFaultsProofs --------------------------
(***************************************************************************)
(* Proofs about ImgfsFaults, for every file, every set of contents, and    *)
(* any number of failed calls of both libraries, in any access: the types, *)
(* and that the damage stays with the contents the failed calls were about.*)
(***************************************************************************)
EXTENDS ImgfsFaults, ImgfsSafetyProofs

-----------------------------------------------------------------------------
(* The calls of the first library keep the types. *)

LEMMA ResizeReplyType ==
  ASSUME TypeOK, NEW i \in Slots, NEW res \in Res, NEW err \in Errors
  PROVE  Reply(Resize(i, res), err, NoImage)
           \in [call : CallType, err : Errors,
                out : Blobs \union {NoImage}, ids : Listings]
<1>1. metadata[i].img_id \in Ids \union {NoId}
  BY DEF TypeOK, Metadata
<1>2. Resize(i, res) \in CallType
  BY <1>1 DEF Resize, Read, Call, CallType, Calls
<1> QED
  BY <1>2, ReplyType

\* Whatever either library does, and whatever fails in it, keeps the types.
LEMMA BuildType == TypeOK /\ BuildNext => TypeOK'
<1> SUFFICES ASSUME TypeOK, BuildNext
             PROVE  TypeOK'
  OBVIOUS
<1>e. Errors = {"ERR_NONE", "ERR_IO", "ERR_IMGFS_FULL", "ERR_DUPLICATE_ID",
                "ERR_IMAGE_NOT_FOUND", "ERR_INVALID_IMGID", "ERR_IMGLIB",
                "ERR_OUT_OF_MEMORY", "ERR_RUNTIME"}
  BY DEF Errors
<1>t. /\ is_open \in BOOLEAN
      /\ header \in Headers
      /\ metadata \in [Slots -> Metadata]
      /\ disk_header \in Headers
      /\ disk_metadata \in [Slots -> Metadata]
      /\ data \in Seq(Blobs)
  BY DEF TypeOK
<1>1. ASSUME Next
      PROVE  TypeOK'
  BY <1>1, NextType
<1>2. ASSUME HandinCreate \/ HandinOpen \/ HandinClose \/ HandinList
      PROVE  TypeOK'
  <2>1. Next
    BY <1>2 DEF HandinCreate, HandinOpen, HandinClose, HandinList, Next
  <2> QED
    BY <2>1, NextType
<1>3. ASSUME NEW id \in Ids, HandinDelete(id)
      PROVE  TypeOK'
  <2>1. Next
    BY <1>3 DEF HandinDelete, Next
  <2> QED
    BY <2>1, NextType
<1>4. ASSUME NEW i \in Slots, NEW res \in Res,
             \/ ResizeOutOfBounds(i, res)
             \/ ResizeNeedless(i, res)
             \/ ResizeFails(i, res)
      PROVE  TypeOK'
  <2>1. UNCHANGED <<is_open, header, metadata, disk_header, disk_metadata, data>>
    BY <1>4 DEF ResizeOutOfBounds, ResizeNeedless, ResizeFails, memory, disk
  <2>2. \E err \in Errors : reply' = Reply(Resize(i, res), err, NoImage)
    BY <1>4, <1>e DEF ResizeOutOfBounds, ResizeNeedless, ResizeFails, ResizeReturns,
                  ReadErrors
  <2> QED
    BY <2>1, <2>2, ResizeReplyType DEF TypeOK
<1>5. ASSUME NEW i \in Slots, NEW res \in Res, ResizeDone(i, res)
      PROVE  TypeOK'
  <2>1. Resized(i, res) \in Blobs /\ ResizedEntry(i, res) \in Metadata
    BY <1>5, ResizedType DEF ResizeDone
  <2>2. reply' = Reply(Resize(i, res), "ERR_NONE", NoImage)
    BY <1>5 DEF ResizeDone, ResizeReturns
  <2>3. data' \in Seq(Blobs)
    BY <1>5, <2>1, <1>t DEF ResizeDone, ResizeUnwritten, AppendResized
  <2>4. metadata' \in [Slots -> Metadata] /\ disk_metadata' \in [Slots -> Metadata]
    BY <1>5, <2>1, <1>t DEF ResizeDone, ResizeUnwritten
  <2>5. is_open' = is_open /\ header' = header /\ disk_header' = disk_header
    BY <1>5 DEF ResizeDone
  <2> QED
    BY <1>t, <1>e, <2>2, <2>3, <2>4, <2>5, ResizeReplyType DEF TypeOK
<1> QED
  BY <1>1, <1>2, <1>3, <1>4, <1>5 DEF BuildNext, HandinCall

-----------------------------------------------------------------------------
(* The invariant *)

\* What is freed when the file is closed holds no entry.
Freed == ~is_open => Valid(metadata) = {}

\* The inductive invariant.
Contained == TypeOK /\ Freed /\ Confined

\* An entry that is spared whatever else was hurt since.
Spared(m, hurt) == m.is_valid /\ m.SHA \notin hurt

\* What a call does to one slot: nothing; it leaves the same entry in memory and
\* in the file, intact unless its content was hurt; or both are empty or hurt.
SlotKept(j) == metadata'[j] = metadata[j] /\ disk_metadata'[j] = disk_metadata[j]

SlotWritten(j) ==
  /\ metadata'[j] = disk_metadata'[j]
  /\ Spared(disk_metadata'[j], hurt_images') => EntryIntact(disk_metadata'[j], data')

SlotHurt(j) ==
  /\ ~Spared(metadata'[j], hurt_images')
  /\ ~Spared(disk_metadata'[j], hurt_images')

\* What a call does to the region behind the array.
Grows == data' = data \/ \E b \in Blobs : data' = Append(data, b)

\* A call that does one of the three to every slot keeps the damage confined.
LEMMA SlotBySlot ==
  ASSUME Contained, is_open, is_open', hurt_images \subseteq hurt_images', Grows,
         \A j \in Slots : SlotKept(j) \/ SlotWritten(j) \/ SlotHurt(j)
  PROVE  Freed' /\ Confined'
<1>1. /\ metadata \in [Slots -> Metadata]
      /\ disk_metadata \in [Slots -> Metadata]
      /\ data \in Seq(Blobs)
  BY DEF Contained, TypeOK
<1>2. ASSUME NEW j \in Slots, EntryIntact(disk_metadata[j], data)
      PROVE  EntryIntact(disk_metadata[j], data')
  BY <1>1, <1>2, AppendKeepsIntact DEF Grows
<1>3. \A j \in Slots :
        /\ Spared(disk_metadata'[j], hurt_images') =>
             EntryIntact(disk_metadata'[j], data') /\ metadata'[j] = disk_metadata'[j]
        /\ Spared(metadata'[j], hurt_images') => metadata'[j] = disk_metadata'[j]
  <2> SUFFICES ASSUME NEW j \in Slots
               PROVE  /\ Spared(disk_metadata'[j], hurt_images') =>
                           /\ EntryIntact(disk_metadata'[j], data')
                           /\ metadata'[j] = disk_metadata'[j]
                      /\ Spared(metadata'[j], hurt_images')
                           => metadata'[j] = disk_metadata'[j]
    OBVIOUS
  <2>1. CASE SlotKept(j)
    BY <2>1, <1>2 DEF SlotKept, Spared, Contained, Confined, Unhurt
  <2>2. CASE SlotWritten(j)
    BY <2>2 DEF SlotWritten
  <2>3. CASE SlotHurt(j)
    BY <2>3 DEF SlotHurt
  <2> QED
    BY <2>1, <2>2, <2>3
<1> QED
  BY <1>3 DEF Freed, Confined, Unhurt, Spared

\* An entry that is not hurt is the same on both sides, and leads to its image.
LEMMA SparedIsIntact ==
  ASSUME Contained, is_open, NEW j \in Slots,
         Spared(metadata[j], hurt_images) \/ Spared(disk_metadata[j], hurt_images)
  PROVE  /\ metadata[j] = disk_metadata[j]
         /\ metadata[j].is_valid
         /\ EntryIntact(metadata[j], data)
         /\ metadata[j].SHA \in Images
<1>1. metadata[j] = disk_metadata[j] /\ metadata[j].is_valid
  BY DEF Contained, Confined, Unhurt, Spared
<1>2. EntryIntact(metadata[j], data)
  BY <1>1 DEF Contained, Confined, Unhurt, Spared
<1> QED
  BY <1>1, <1>2 DEF EntryIntact

\* What a step remembers of the call it makes.
LEMMA Remembers ==
  ASSUME FNext, reply'.call.call # "create"
  PROVE  /\ hurt_images \subseteq hurt_images'
         /\ Failed => Touched(reply'.call) \subseteq hurt_images'
  BY DEF FNext, history

LEMMA ReplyParts ==
  ASSUME NEW call, NEW err, NEW out
  PROVE  /\ Reply(call, err, out).call = call
         /\ Reply(call, err, out).err = err
  BY DEF Reply

-----------------------------------------------------------------------------
(* do_insert *)

LEMMA InsertEmpty ==
  ASSUME Contained, NEW i \in Slots, InsertAt(i)
  PROVE  /\ is_open
         /\ i \notin Valid(metadata)
         /\ ~Spared(disk_metadata[i], hurt_images)
<1>1. EmptySlots \in SUBSET Slots
  BY DEF EmptySlots
<1>2. i \in EmptySlots /\ is_open
  BY <1>1, FirstIsLeast DEF InsertAt
<1>3. ~metadata[i].is_valid
  BY <1>2 DEF EmptySlots, Valid
<1> QED
  BY <1>2, <1>3, SparedIsIntact DEF EmptySlots

\* The entry that an accepted insertion puts together has the content, and leads
\* to it unless that was hurt before.
LEMMA AcceptedSpared ==
  ASSUME Contained, NEW i \in Slots, NEW id \in Ids, NEW img \in Images,
         InsertAccepted(i, id, img)
  PROVE  LET c == Candidate(i, id, img)
             e == Entry(i, id, img)
         IN  /\ c.SHA = img
             /\ e.SHA = img
             /\ AppendImage(i, id, img) /\ img \notin hurt_images =>
                  EntryIntact(e, data')
<1> DEFINE c == Candidate(i, id, img)
           e == Entry(i, id, img)
<1>1. /\ is_open
      /\ i \in Slots \ Valid(metadata)
      /\ img \in Images \ Broken
      /\ metadata \in [Slots -> Metadata]
      /\ data \in Seq(Blobs)
  BY InsertEmpty DEF InsertAccepted, Contained, TypeOK
<1>2. /\ c \in Metadata
      /\ c.SHA = img
      /\ \/ /\ c.offset[ORIG_RES] = 0
            /\ c.size[ORIG_RES] = SizeOf[<<img, ORIG_RES>>]
         \/ \E j \in Valid(metadata) : /\ metadata[j].SHA = img
                                        /\ c.offset = metadata[j].offset
                                        /\ c.size = metadata[j].size
  <2>1. /\ c = Deduped(WithNew(metadata, i, id, img), header.nb_files, i)
        /\ DedupError(WithNew(metadata, i, id, img), header.nb_files, i) = "ERR_NONE"
    BY DEF InsertAccepted, Candidate, CandidateError, WithEntry, WithNew
  <2> QED
    BY <1>1, <2>1, DedupedEntry
<1> HIDE DEF c
<1>3. e = IF c.offset[ORIG_RES] = 0 THEN Placed(c, Len(data) + 1) ELSE c
  BY DEF Entry, IsNew, c
<1>4. e.SHA = img
  <2>1. Placed(c, Len(data) + 1).SHA = c.SHA
    BY <1>2 DEF Placed, Metadata
  <2> QED
    BY <1>2, <1>3, <2>1
<1>5. ASSUME AppendImage(i, id, img), img \notin hurt_images
      PROVE  EntryIntact(e, data')
  <2>1. CASE c.offset[ORIG_RES] # 0
    <3>1. PICK j \in Valid(metadata) : /\ metadata[j].SHA = img
                                       /\ c.offset = metadata[j].offset
                                       /\ c.size = metadata[j].size
      BY <1>2, <2>1
    <3>2. j \in Slots /\ Spared(metadata[j], hurt_images)
      BY <3>1, <1>5 DEF Valid, Spared
    <3>3. EntryIntact(metadata[j], data)
      BY <1>1, <3>2, SparedIsIntact
    <3>4. EntryIntact(c, data)
      BY <1>2, <3>1, <3>3, SharedIsIntact
    <3>5. e = c /\ data' = data
      BY <1>3, <1>5, <2>1 DEF AppendImage, IsNew, c
    <3> QED
      BY <3>4, <3>5
  <2>2. CASE c.offset[ORIG_RES] = 0
    <3>1. e = Placed(c, Len(data) + 1) /\ data' = Append(data, Blob(img, ORIG_RES))
      BY <1>3, <1>5, <2>2 DEF AppendImage, IsNew, c
    <3>2. c.size[ORIG_RES] = SizeOf[<<img, ORIG_RES>>]
      <4>1. CASE \E j \in Valid(metadata) : /\ metadata[j].SHA = img
                                            /\ c.offset = metadata[j].offset
                                            /\ c.size = metadata[j].size
        <5>1. PICK j \in Valid(metadata) : /\ metadata[j].SHA = img
                                           /\ c.offset = metadata[j].offset
          BY <4>1
        <5>2. j \in Slots /\ Spared(metadata[j], hurt_images)
          BY <5>1, <1>5 DEF Valid, Spared
        <5>3. EntryIntact(metadata[j], data) /\ metadata[j] \in Metadata
          BY <1>1, <5>2, SparedIsIntact
        <5>4. metadata[j].offset[ORIG_RES] # 0
          BY <1>1, <5>3, IntactIsPlaced
        <5> QED
          BY <2>2, <5>1, <5>4
      <4> QED
        BY <1>2, <4>1
    <3>3. Len(data) + 1 \in Nat
      BY <1>1
    <3> HIDE DEF e
    <3>4. /\ e \in Metadata
          /\ e.SHA = img
          /\ e.offset[ORIG_RES] = Len(data) + 1
          /\ e.size[ORIG_RES] = SizeOf[<<img, ORIG_RES>>]
          /\ \A res \in DerivedRes : e.offset[res] = 0 /\ e.size[res] = 0
      BY <1>2, <3>1, <3>2, <3>3, ResAssumption DEF Placed, Metadata, Res
    <3> QED
      BY <1>1, <3>1, <3>4, PlacedIsIntact
  <2> QED
    BY <2>1, <2>2
<1> QED
  BY <1>2, <1>4, <1>5 DEF c

LEMMA InsertGrows ==
  ASSUME NEW i, NEW id, NEW img \in Images, AppendImage(i, id, img)
  PROVE  Grows
<1>1. Blob(img, ORIG_RES) \in Blobs
  BY BlobIsImage DEF Res
<1> QED
  BY <1>1 DEF AppendImage, Grows

\* However an insertion ends, only its content is hurt.
LEMMA InsertContained ==
  ASSUME Contained, FNext, NEW id \in Ids, NEW img \in Images, InsertCall(id, img)
  PROVE  Freed' /\ Confined'
<1>1. /\ metadata \in [Slots -> Metadata]
      /\ disk_metadata \in [Slots -> Metadata]
  BY DEF Contained, TypeOK
<1>2. /\ is_open
      /\ is_open' = is_open
      /\ \E err \in Errors : reply' = Reply(Insert(id, img), err, NoImage)
  <2>1. \A i : CandidateError(i, id, img) \in Errors
    BY DEF CandidateError, DedupError, Errors
  <2> QED
    BY <2>1 DEF InsertCall, InsertFull, InsertNowhere, InsertUndecodable, InsertRefused,
                InsertDone, InsertFailsAtData, InsertFailsAtMetadata,
                InsertFailsAtHeader, InsertAccepted, InsertAt, memory, Errors
<1>3. reply'.call = Insert(id, img)
  BY <1>2, ReplyParts
<1>4. /\ hurt_images \subseteq hurt_images'
      /\ reply'.err = "ERR_IO" => img \in hurt_images'
  <2>1. Insert(id, img).call # "create" /\ Insert(id, img).arg = img
    BY DEF Insert, Call
  <2> QED
    BY <1>3, <2>1, Remembers DEF Failed, Touched
<1>5. CASE InsertFull(id, img) \/ InsertNowhere(id, img)
  <2>1. metadata' = metadata /\ disk_metadata' = disk_metadata /\ data' = data
    BY <1>5 DEF InsertFull, InsertNowhere, memory, disk
  <2> QED
    BY <1>2, <1>4, <2>1, SlotBySlot DEF SlotKept, Grows
<1>6. ASSUME NEW i \in Slots, InsertUndecodable(i, id, img) \/ InsertRefused(i, id, img)
      PROVE  Freed' /\ Confined'
  <2>1. /\ i \notin Valid(metadata)
        /\ ~Spared(disk_metadata[i], hurt_images)
    BY <1>6, InsertEmpty DEF InsertUndecodable, InsertRefused
  <2>2. disk_metadata' = disk_metadata /\ data' = data
    BY <1>6 DEF InsertUndecodable, InsertRefused, disk
  <2>3. /\ \A j \in Slots \ {i} : metadata'[j] = metadata[j]
        /\ ~metadata'[i].is_valid
    <3>1. CASE InsertUndecodable(i, id, img)
      <4>1. ~Filled(metadata[i], id, img).is_valid
        BY <1>1, <2>1 DEF Filled, Metadata, Valid
      <4> QED
        BY <1>1, <3>1, <4>1 DEF InsertUndecodable
    <3>2. CASE InsertRefused(i, id, img)
      <4>1. Candidate(i, id, img) \in Metadata
        BY EntryType DEF Contained
      <4>2. ~[Candidate(i, id, img) EXCEPT !.is_valid = FALSE].is_valid
        BY <4>1 DEF Metadata
      <4> QED
        BY <1>1, <3>2, <4>2 DEF InsertRefused
    <3> QED
      BY <1>6, <3>1, <3>2
  <2>4. SlotHurt(i)
    BY <1>4, <2>1, <2>2, <2>3 DEF SlotHurt, Spared
  <2> QED
    BY <1>2, <1>4, <2>2, <2>3, <2>4, SlotBySlot DEF SlotKept, Grows
<1>7. ASSUME NEW i \in Slots, InsertDone(i, id, img)
      PROVE  Freed' /\ Confined'
  <2> DEFINE e == Entry(i, id, img)
  <2>1. /\ InsertAccepted(i, id, img)
        /\ AppendImage(i, id, img)
        /\ metadata' = [metadata EXCEPT ![i] = e]
        /\ disk_metadata' = [disk_metadata EXCEPT ![i] = e]
    BY <1>7 DEF InsertDone
  <2>2. e.SHA = img /\ (img \notin hurt_images => EntryIntact(e, data'))
    BY <2>1, AcceptedSpared
  <2> HIDE DEF e
  <2>3. /\ metadata'[i] = e /\ disk_metadata'[i] = e
        /\ \A j \in Slots \ {i} : SlotKept(j)
    BY <1>1, <2>1 DEF SlotKept
  <2>4. SlotWritten(i)
    BY <1>4, <2>2, <2>3 DEF SlotWritten, Spared
  <2>5. Grows
    BY <2>1, InsertGrows
  <2> QED
    BY <1>2, <1>4, <2>3, <2>4, <2>5, SlotBySlot
<1>8. ASSUME NEW i \in Slots,
             \/ InsertFailsAtData(i, id, img)
             \/ InsertFailsAtMetadata(i, id, img)
             \/ InsertFailsAtHeader(i, id, img)
      PROVE  Freed' /\ Confined'
  <2>1. InsertAccepted(i, id, img) /\ reply' = Reply(Insert(id, img), "ERR_IO", NoImage)
    BY <1>8 DEF InsertFailsAtData, InsertFailsAtMetadata, InsertFailsAtHeader
  <2>2. img \in hurt_images'
    BY <1>4, <2>1, ReplyParts
  <2>3. /\ Candidate(i, id, img).SHA = img
        /\ Entry(i, id, img).SHA = img
    BY <2>1, AcceptedSpared
  <2>4. \E m : m.SHA = img /\ metadata' = [metadata EXCEPT ![i] = m]
    BY <1>8, <2>3 DEF InsertFailsAtData, InsertFailsAtMetadata, InsertFailsAtHeader
  <2>5. \/ disk_metadata' = disk_metadata
        \/ disk_metadata' = [disk_metadata EXCEPT ![i] = Entry(i, id, img)]
    BY <1>8 DEF InsertFailsAtData, InsertFailsAtMetadata, InsertFailsAtHeader, disk
  <2>6. Grows
    BY <1>8, InsertGrows DEF InsertFailsAtData, InsertFailsAtMetadata,
                             InsertFailsAtHeader, disk, Grows
  <2>7. ~Spared(disk_metadata[i], hurt_images)
    BY <2>1, InsertEmpty DEF InsertAccepted
  <2>8. SlotHurt(i)
    BY <1>1, <1>4, <2>2, <2>3, <2>4, <2>5, <2>7 DEF SlotHurt, Spared
  <2>9. \A j \in Slots \ {i} : SlotKept(j)
    BY <1>1, <2>4, <2>5 DEF SlotKept
  <2> QED
    BY <1>2, <1>4, <2>6, <2>8, <2>9, SlotBySlot
<1> QED
  BY <1>5, <1>6, <1>7, <1>8 DEF InsertCall

-----------------------------------------------------------------------------
(* do_delete *)

\* A deletion hurts the contents found under its id, when it fails.
LEMMA DeleteContained ==
  ASSUME Contained, FNext, NEW id \in Ids, DeleteCall(id)
  PROVE  Freed' /\ Confined'
<1> DEFINE i == First(Named(metadata, id))
<1>1. /\ metadata \in [Slots -> Metadata]
      /\ disk_metadata \in [Slots -> Metadata]
  BY DEF Contained, TypeOK
<1>2. /\ is_open
      /\ is_open' = is_open
      /\ data' = data
      /\ \E err \in Errors : reply' = Reply(Delete(id), err, NoImage)
  BY DEF DeleteCall, DeleteMissing, DeleteDone, DeleteFailsAtMetadata,
         DeleteFailsAtHeader, memory, disk, Errors
<1>3. reply'.call = Delete(id)
  BY <1>2, ReplyParts
<1>4. /\ hurt_images \subseteq hurt_images'
      /\ reply'.err = "ERR_IO" =>
           \A j \in Named(metadata, id) :
             metadata[j].SHA \in Images => metadata[j].SHA \in hurt_images'
  <2>1. Delete(id).call # "create" /\ Delete(id).id = id
    BY DEF Delete, Call
  <2>2. /\ hurt_images \subseteq hurt_images'
        /\ Failed => Touched(Delete(id)) \subseteq hurt_images'
    BY <1>3, <2>1, Remembers
  <2>3. \A j \in Named(metadata, id) :
          metadata[j].SHA \in Images => metadata[j].SHA \in Touched(Delete(id))
    BY <2>1 DEF Touched
  <2> QED
    BY <2>2, <2>3 DEF Failed
<1>5. CASE DeleteMissing(id)
  <2>1. metadata' = metadata /\ disk_metadata' = disk_metadata
    BY <1>5 DEF DeleteMissing, memory, disk
  <2> QED
    BY <1>2, <1>4, <2>1, SlotBySlot DEF SlotKept, Grows
<1>6. ASSUME ~DeleteMissing(id)
      PROVE  Freed' /\ Confined'
  <2>1. /\ Named(metadata, id) # {}
        /\ metadata' = Deleted(id)
    BY <1>6 DEF DeleteCall, DeleteDone, DeleteFailsAtMetadata, DeleteFailsAtHeader
  <2>2. i \in Named(metadata, id) /\ i \in Slots
    <3>1. Named(metadata, id) \in SUBSET Slots
      BY DEF Named, Valid
    <3> QED
      BY <2>1, <3>1, FirstIsLeast
  <2>3. metadata' = [metadata EXCEPT ![i].is_valid = FALSE]
    BY <2>1 DEF Deleted
  <2> HIDE DEF i
  <2>4. /\ ~metadata'[i].is_valid
        /\ \A j \in Slots \ {i} : metadata'[j] = metadata[j]
    BY <1>1, <2>2, <2>3 DEF Metadata
  <2>5. ASSUME NEW j \in Slots, disk_metadata'[j] = Deleted(id)[j]
        PROVE  SlotWritten(j)
    <3>1. metadata'[j] = disk_metadata'[j]
      BY <2>1, <2>5
    <3>2. ASSUME Spared(disk_metadata'[j], hurt_images')
          PROVE  EntryIntact(disk_metadata'[j], data')
      <4>1. j # i /\ metadata'[j] = metadata[j]
        BY <2>4, <3>1, <3>2 DEF Spared
      <4>2. Spared(metadata[j], hurt_images)
        BY <1>4, <3>1, <3>2, <4>1 DEF Spared
      <4> QED
        BY <1>2, <3>1, <4>1, <4>2, SparedIsIntact
    <3> QED
      BY <3>1, <3>2 DEF SlotWritten
  <2>6. ASSUME NEW j \in Slots, disk_metadata'[j] = disk_metadata[j], reply'.err = "ERR_IO"
        PROVE  SlotKept(j) \/ SlotHurt(j)
    <3>1. CASE j # i
      BY <2>4, <2>6, <3>1 DEF SlotKept
    <3>2. CASE j = i
      <4>1. ~Spared(disk_metadata[i], hurt_images')
        <5> SUFFICES ASSUME Spared(disk_metadata[i], hurt_images')
                     PROVE  FALSE
          OBVIOUS
        <5>1. Spared(disk_metadata[i], hurt_images)
          BY <1>4 DEF Spared
        <5>2. metadata[i] = disk_metadata[i] /\ metadata[i].SHA \in Images
          BY <1>2, <2>2, <5>1, SparedIsIntact
        <5> QED
          BY <1>4, <2>2, <2>6, <5>2 DEF Spared
      <4> QED
        BY <2>4, <2>6, <3>2, <4>1 DEF SlotHurt, Spared
    <3> QED
      BY <3>1, <3>2
  <2>7. \/ disk_metadata' = Deleted(id)
        \/ /\ reply'.err = "ERR_IO"
           /\ \E k \in Slots : disk_metadata' = Torn(id, k)
    BY <1>6, ReplyParts DEF DeleteCall, DeleteDone, DeleteFailsAtMetadata,
                            DeleteFailsAtHeader
  <2>8. \A j \in Slots : SlotKept(j) \/ SlotWritten(j) \/ SlotHurt(j)
    <3> SUFFICES ASSUME NEW j \in Slots
                 PROVE  SlotKept(j) \/ SlotWritten(j) \/ SlotHurt(j)
      OBVIOUS
    <3>1. \/ disk_metadata'[j] = Deleted(id)[j]
          \/ reply'.err = "ERR_IO" /\ disk_metadata'[j] = disk_metadata[j]
      BY <2>7 DEF Torn
    <3> QED
      BY <2>5, <2>6, <3>1
  <2> QED
    BY <1>2, <1>4, <2>8, SlotBySlot DEF Grows
<1> QED
  BY <1>5, <1>6

-----------------------------------------------------------------------------
(* do_read and lazily_resize *)

\* The entry of a derived image keeps its content, and leads to it unless that
\* was hurt.
LEMMA ResizedSpared ==
  ASSUME Contained, is_open, NEW i \in Slots, NEW res \in Res, res # ORIG_RES
  PROVE  LET e == ResizedEntry(i, res)
         IN  /\ e.SHA = metadata[i].SHA
             /\ e.is_valid = metadata[i].is_valid
             /\ Spared(metadata[i], hurt_images) =>
                  EntryIntact(e, Append(data, Resized(i, res)))
<1> DEFINE m == metadata[i]
           e == ResizedEntry(i, res)
<1>1. m \in Metadata /\ data \in Seq(Blobs)
  BY DEF Contained, TypeOK
<1>2. e.SHA = m.SHA /\ e.is_valid = m.is_valid
  BY <1>1 DEF ResizedEntry, Metadata
<1>3. ASSUME Spared(m, hurt_images)
      PROVE  EntryIntact(e, Append(data, Resized(i, res)))
  <2>1. EntryIntact(m, data)
    BY <1>3, SparedIsIntact
  <2>2. Resized(i, res) = Blob(m.SHA, res)
    <3>1. Content(m, data, ORIG_RES) = Blob(m.SHA, ORIG_RES)
      BY <2>1 DEF EntryIntact
    <3> QED
      BY <3>1 DEF Resized, Blob
  <2>3. e = [m EXCEPT !.size[res] = BlobSize(Blob(m.SHA, res)),
                      !.offset[res] = Len(data) + 1]
    BY <2>2 DEF ResizedEntry
  <2>4. res \in DerivedRes
    BY DEF Res
  <2> HIDE DEF m, e
  <2> QED
    BY <1>1, <2>1, <2>2, <2>3, <2>4, ResizedIsIntact
<1> QED
  BY <1>2, <1>3

\* A derived image that is made, its entry being written or, in a call that
\* fails or should have, not.
LEMMA ResizeContained ==
  ASSUME Contained, is_open, is_open', hurt_images \subseteq hurt_images',
         NEW i \in Slots, NEW res \in Res, res # ORIG_RES,
         Content(metadata[i], data, ORIG_RES) # NoImage,
         metadata' = [metadata EXCEPT ![i] = ResizedEntry(i, res)],
         \/ /\ AppendResized(i, res)
            /\ disk_metadata' = [disk_metadata EXCEPT ![i] = ResizedEntry(i, res)]
         \/ /\ AppendResized(i, res) \/ UNCHANGED data
            /\ UNCHANGED disk_metadata
            /\ metadata[i].SHA \in Images => metadata[i].SHA \in hurt_images'
  PROVE  Freed' /\ Confined'
<1> DEFINE e == ResizedEntry(i, res)
<1>1. /\ metadata \in [Slots -> Metadata]
      /\ disk_metadata \in [Slots -> Metadata]
  BY DEF Contained, TypeOK
<1>2. /\ e.SHA = metadata[i].SHA
      /\ e.is_valid = metadata[i].is_valid
      /\ Spared(metadata[i], hurt_images) => EntryIntact(e, Append(data, Resized(i, res)))
  BY ResizedSpared
<1>3. Grows
  <2>1. Resized(i, res) \in Blobs
    BY ResizedType DEF Contained
  <2> QED
    BY <2>1 DEF Grows, AppendResized
<1> HIDE DEF e
<1>4. metadata' = [metadata EXCEPT ![i] = e]
  BY DEF e
<1>5. CASE /\ AppendResized(i, res)
           /\ disk_metadata' = [disk_metadata EXCEPT ![i] = e]
  <2>1. /\ metadata'[i] = e /\ disk_metadata'[i] = e
        /\ \A j \in Slots \ {i} : SlotKept(j)
    BY <1>1, <1>4, <1>5 DEF SlotKept
  <2>2. data' = Append(data, Resized(i, res))
    BY <1>5 DEF AppendResized
  <2>3. SlotWritten(i)
    BY <1>2, <2>1, <2>2 DEF SlotWritten, Spared
  <2> QED
    BY <1>3, <2>1, <2>3, SlotBySlot
<1>6. CASE /\ disk_metadata' = disk_metadata
           /\ metadata[i].SHA \in Images => metadata[i].SHA \in hurt_images'
  <2>1. /\ metadata'[i] = e
        /\ \A j \in Slots \ {i} : SlotKept(j)
    BY <1>1, <1>4, <1>6 DEF SlotKept
  <2>2. ~Spared(metadata[i], hurt_images')
    <3>1. Spared(metadata[i], hurt_images') => Spared(metadata[i], hurt_images)
      BY DEF Spared
    <3> QED
      BY <1>6, <3>1, SparedIsIntact DEF Spared
  <2>3. ~Spared(disk_metadata[i], hurt_images')
    <3>1. Spared(disk_metadata[i], hurt_images') => Spared(disk_metadata[i], hurt_images)
      BY DEF Spared
    <3> QED
      BY <2>2, <3>1, SparedIsIntact
  <2>4. SlotHurt(i)
    BY <1>2, <1>6, <2>1, <2>2, <2>3 DEF SlotHurt, Spared
  <2> QED
    BY <1>3, <2>1, <2>4, SlotBySlot
<1> QED
  BY <1>5, <1>6 DEF e

\* A read that makes a derived image hurts the contents under its id, when the
\* entry cannot be written.
LEMMA ReadContained ==
  ASSUME Contained, FNext, NEW id \in Ids, NEW res \in Res, ReadCall(id, res)
  PROVE  Freed' /\ Confined'
<1>1. /\ is_open
      /\ is_open' = is_open
      /\ \E err, out : reply' = Reply(Read(id, res), err, out)
  BY DEF ReadCall, ReadMissing, ReadStored, ReadOutOfBounds, ReadUndecodable,
         ReadResized, ReadFailsAtMetadata, ReadFails, Resizes, ReadAt, memory
<1>2. reply'.call = Read(id, res)
  BY <1>1, ReplyParts
<1>3. /\ hurt_images \subseteq hurt_images'
      /\ reply'.err = "ERR_IO" =>
           \A j \in Named(metadata, id) :
             metadata[j].SHA \in Images => metadata[j].SHA \in hurt_images'
  <2>1. Read(id, res).call # "create" /\ Read(id, res).id = id
    BY DEF Read, Call
  <2>2. /\ hurt_images \subseteq hurt_images'
        /\ Failed => Touched(Read(id, res)) \subseteq hurt_images'
    BY <1>2, <2>1, Remembers
  <2>3. \A j \in Named(metadata, id) :
          metadata[j].SHA \in Images => metadata[j].SHA \in Touched(Read(id, res))
    BY <2>1 DEF Touched
  <2> QED
    BY <2>2, <2>3 DEF Failed
<1>4. CASE UNCHANGED <<memory, disk>>
  <2>1. metadata' = metadata /\ disk_metadata' = disk_metadata /\ data' = data
    BY <1>4 DEF memory, disk
  <2> QED
    BY <1>1, <1>3, <2>1, SlotBySlot DEF SlotKept, Grows
<1>5. ASSUME NEW i \in Slots, Resizes(i, id, res)
      PROVE  /\ res # ORIG_RES
             /\ Content(metadata[i], data, ORIG_RES) # NoImage
             /\ i \in Named(metadata, id)
  <2>1. Named(metadata, id) \in SUBSET Slots
    BY DEF Named, Valid
  <2> QED
    BY <1>5, <2>1, FirstIsLeast DEF Resizes, ReadAt, NeedsResize, CallsResize
<1>6. ASSUME NEW i \in Slots, ReadResized(i, id, res)
      PROVE  Freed' /\ Confined'
  <2>1. /\ Resizes(i, id, res)
        /\ AppendResized(i, res)
        /\ metadata' = [metadata EXCEPT ![i] = ResizedEntry(i, res)]
        /\ disk_metadata' = [disk_metadata EXCEPT ![i] = ResizedEntry(i, res)]
    BY <1>6 DEF ReadResized
  <2> QED
    BY <1>1, <1>3, <1>5, <2>1, ResizeContained
<1>7. ASSUME NEW i \in Slots, ReadFailsAtMetadata(i, id, res)
      PROVE  Freed' /\ Confined'
  <2>1. /\ Resizes(i, id, res)
        /\ AppendResized(i, res) \/ UNCHANGED data
        /\ metadata' = [metadata EXCEPT ![i] = ResizedEntry(i, res)]
        /\ UNCHANGED disk_metadata
        /\ reply'.err = "ERR_IO"
    BY <1>7, ReplyParts DEF ReadFailsAtMetadata
  <2>2. metadata[i].SHA \in Images => metadata[i].SHA \in hurt_images'
    BY <1>3, <1>5, <2>1
  <2> QED
    BY <1>1, <1>3, <1>5, <2>1, <2>2, ResizeContained
<1> QED
  BY <1>4, <1>6, <1>7 DEF ReadCall, ReadMissing, ReadStored, ReadOutOfBounds,
                          ReadUndecodable, ReadFails

-----------------------------------------------------------------------------
(* lazily_resize of the first library *)

LEMMA HandinResizeContained ==
  ASSUME Contained, FNext, NEW i \in Slots, NEW res \in Res,
         \/ ResizeOutOfBounds(i, res)
         \/ ResizeNeedless(i, res)
         \/ ResizeFails(i, res)
         \/ ResizeDone(i, res)
  PROVE  Freed' /\ Confined'
<1>1. /\ is_open
      /\ is_open' = is_open
      /\ \E err : reply' = Reply(Resize(i, res), err, NoImage)
  BY DEF ResizeOutOfBounds, ResizeNeedless, ResizeFails, ResizeDone, ResizeReturns, memory
<1>2. reply'.call = Resize(i, res)
  BY <1>1, ReplyParts
<1>3. /\ Resize(i, res).call = "read"
      /\ Resize(i, res).id = metadata[i].img_id
  BY DEF Resize, Read, Call
<1>4. /\ hurt_images \subseteq hurt_images'
      /\ Failed => Touched(Resize(i, res)) \subseteq hurt_images'
  BY <1>2, <1>3, Remembers
<1>5. CASE UNCHANGED <<memory, disk>>
  <2>1. metadata' = metadata /\ disk_metadata' = disk_metadata /\ data' = data
    BY <1>5 DEF memory, disk
  <2> QED
    BY <1>1, <1>4, <2>1, SlotBySlot DEF SlotKept, Grows
<1>6. CASE ResizeDone(i, res)
  <2>1. /\ res # ORIG_RES
        /\ metadata[i].is_valid
        /\ Content(metadata[i], data, ORIG_RES) # NoImage
        /\ metadata' = [metadata EXCEPT ![i] = ResizedEntry(i, res)]
    BY <1>6 DEF ResizeDone, ResizeDue
  <2>2. CASE /\ AppendResized(i, res)
             /\ disk_metadata' = [disk_metadata EXCEPT ![i] = ResizedEntry(i, res)]
    BY <1>1, <1>4, <2>1, <2>2, ResizeContained
  <2>3. CASE ResizeUnwritten(i, res)
    <3>1. UNCHANGED disk_metadata /\ (AppendResized(i, res) \/ UNCHANGED data)
      BY <2>3 DEF ResizeUnwritten
    <3>2. CASE metadata' = metadata
      <4>1. Grows
        <5>1. Resized(i, res) \in Blobs
          BY <2>1, ResizedType DEF Contained
        <5> QED
          BY <3>1, <5>1 DEF Grows, AppendResized
      <4> QED
        BY <1>1, <1>4, <3>1, <3>2, <4>1, SlotBySlot DEF SlotKept
    <3>3. CASE metadata' # metadata
      <4>1. Failed
        <5>1. Handin /\ reply'.err = "ERR_NONE"
          BY <1>6, ReplyParts DEF ResizeDone, ResizeReturns
        <5> QED
          BY <1>2, <1>3, <3>1, <3>3, <5>1 DEF Failed, Unwritten
      <4>2. i \in Named(metadata, metadata[i].img_id)
        BY <2>1 DEF Named, Valid
      <4>3. metadata[i].SHA \in Images => metadata[i].SHA \in hurt_images'
        BY <1>3, <1>4, <4>1, <4>2 DEF Touched
      <4> QED
        BY <1>1, <1>4, <2>1, <3>1, <4>3, ResizeContained
    <3> QED
      BY <3>2, <3>3
  <2> QED
    BY <1>6, <2>2, <2>3 DEF ResizeDone
<1> QED
  BY <1>5, <1>6 DEF ResizeOutOfBounds, ResizeNeedless, ResizeFails

-----------------------------------------------------------------------------
(* The invariant holds for ever. *)

LEMMA FInitContained == FInit => Contained
<1> SUFFICES ASSUME FInit
             PROVE  Contained
  OBVIOUS
<1>1. TypeOK
  BY InitType DEF FInit
<1>2. metadata = BlankIndex /\ disk_metadata = BlankIndex
  BY DEF FInit, Init
<1>3. \A i \in Slots : ~BlankIndex[i].is_valid
  BY DEF BlankIndex, BlankMetadata
<1> QED
  BY <1>1, <1>2, <1>3 DEF Contained, Freed, Confined, Unhurt, Valid

LEMMA FNextContained == Contained /\ [FNext]_fvars => Contained'
<1>1. ASSUME Contained, UNCHANGED fvars
      PROVE  Contained'
  BY <1>1 DEF fvars, vars, history, Contained, TypeOK, Freed, Confined, Unhurt, Valid
<1>2. ASSUME Contained, FNext
      PROVE  Contained'
  <2>1. TypeOK'
    BY <1>2, BuildType DEF Contained, FNext
  <2>2. ASSUME Create
        PROVE  Freed' /\ Confined'
    <3>1. /\ Valid(metadata) = {} /\ metadata' = metadata
          /\ is_open' = is_open /\ disk_metadata' = BlankIndex
      BY <1>2, <2>2 DEF Create, Contained, Freed, memory
    <3>2. \A i \in Slots : ~BlankIndex[i].is_valid /\ ~metadata'[i].is_valid
      BY <3>1 DEF BlankIndex, BlankMetadata, Valid
    <3> QED
      BY <3>1, <3>2 DEF Freed, Confined, Unhurt
  <2>3. ASSUME reply'.call.call # "create", UNCHANGED disk
        PROVE  \A i \in Slots : Unhurt(disk_metadata[i])' =>
                 EntryIntact(disk_metadata'[i], data') /\ Unhurt(disk_metadata[i])
    <3>1. hurt_images \subseteq hurt_images'
      BY <1>2, <2>3, Remembers
    <3> QED
      BY <1>2, <2>3, <3>1 DEF disk, Contained, Confined, Unhurt
  <2>4. ASSUME Open
        PROVE  Freed' /\ Confined'
    <3>1. /\ reply'.call.call # "create"
          /\ disk_metadata' = disk_metadata /\ data' = data
          /\ is_open' = TRUE /\ metadata' = disk_metadata
      BY <2>4, ReplyParts DEF Open, Call, disk
    <3>2. UNCHANGED disk
      BY <2>4 DEF Open
    <3> QED
      BY <2>3, <3>1, <3>2 DEF Freed, Confined, Unhurt
  <2>5. ASSUME Close
        PROVE  Freed' /\ Confined'
    <3>1. /\ reply'.call.call # "create"
          /\ disk_metadata' = disk_metadata /\ data' = data
          /\ is_open' = FALSE /\ metadata' = BlankIndex
      BY <2>5, ReplyParts DEF Close, Call, disk
    <3>2. UNCHANGED disk
      BY <2>5 DEF Close
    <3>3. \A i \in Slots : ~metadata'[i].is_valid
      BY <3>1 DEF BlankIndex, BlankMetadata
    <3> QED
      BY <2>3, <3>1, <3>2, <3>3 DEF Freed, Confined, Unhurt, Valid
  <2>6. ASSUME ListJson \/ ListStdout
        PROVE  Freed' /\ Confined'
    <3>1. /\ is_open /\ is_open'
          /\ metadata' = metadata /\ disk_metadata' = disk_metadata /\ data' = data
          /\ \/ \E listing : reply' = Shown(listing)
             \/ reply' = Reply(Call("list", NoId, NoImage), "ERR_RUNTIME", NoImage)
      BY <2>6 DEF ListJson, ListStdout, memory, disk
    <3>2. reply'.call.call # "create"
      BY <3>1 DEF Shown, Reply, Call
    <3>3. hurt_images \subseteq hurt_images'
      BY <1>2, <3>2, Remembers
    <3> QED
      BY <1>2, <3>1, <3>3, SlotBySlot DEF SlotKept, Grows
  <2>7. ASSUME Next
        PROVE  Freed' /\ Confined'
    BY <1>2, <2>2, <2>4, <2>5, <2>6, <2>7, InsertContained, DeleteContained,
       ReadContained DEF Next
  <2>8. ASSUME HandinCall
        PROVE  Freed' /\ Confined'
    BY <1>2, <2>2, <2>4, <2>5, <2>6, <2>8, DeleteContained, HandinResizeContained
       DEF HandinCall, HandinCreate, HandinOpen, HandinClose, HandinList, HandinDelete
  <2>9. Freed' /\ Confined'
    BY <1>2, <2>7, <2>8 DEF FNext, BuildNext
  <2> QED
    BY <2>1, <2>9 DEF Contained
<1> QED
  BY <1>1, <1>2

\* However many calls of either library fail, in any access to the file, and
\* whatever calls succeed between them: only the contents that the failed calls
\* were about may be lost or differ between memory and file.
THEOREM DamageIsConfined == FSpec => []Confined
<1>1. FInit => Contained
  BY FInitContained
<1>2. Contained /\ [FNext]_fvars => Contained'
  BY FNextContained
<1>3. Contained => Confined
  BY DEF Contained
<1> QED
  BY <1>1, <1>2, <1>3, PTL DEF FSpec

=============================================================================
