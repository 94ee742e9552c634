------------------------- MODULE ImgfsServiceProofs -------------------------
(***************************************************************************)
(* What ImgfsService promises to those who call the server and the         *)
(* commands, for every value of the constants: that it does nothing to the *)
(* file but by calls of the library, that what was acknowledged is kept,   *)
(* and that an answer is true, whatever the text of the requests: each is  *)
(* handled like some parameters.  And where nothing in the text can be     *)
(* mistaken for a parameter, that these are the ones the client meant: for *)
(* that the text is taken apart, place by place, as strstr goes through it.*)
(***************************************************************************)
EXTENDS HttpRequests, ImgfsSafetyProofs

\* Names that the handlers pass to the library.
LEMMA TailsAreIds ==
  ASSUME NEW id \in Ids
  PROVE  Tails[id] \subseteq Ids /\ id \in Tails[id]
  BY TailsAssumption

\* Each step of the service is one call of the library, or none.
LEMMA StepIsCall ==
  ASSUME [ServiceNext]_svcvars
  PROVE  [Next]_vars
<1>1. CASE UNCHANGED svcvars
  BY <1>1 DEF svcvars
<1>2. CASE Handle
  <2>1. CASE \/ HandlePage
             \/ HandleOther
             \/ \E id \in Parameters(Ids), res \in Parameters(Res \union {Unknown}) :
                  HandleReadRefused(id, res)
             \/ \E id \in Parameters(Ids) : HandleDeleteRefused(id)
             \/ \E id \in Parameters(Ids), img \in Images \union {NoImage} :
                  HandleInsertRefused(id, img)
    BY <2>1 DEF HandlePage, HandleOther, HandleReadRefused, HandleDeleteRefused,
                HandleInsertRefused, Refuses
  <2>2. CASE HandleList
    BY <2>2 DEF HandleList, Next
  <2>3. CASE \E id \in Ids, res \in Res : HandleRead(id, res)
    BY <2>3 DEF HandleRead, Next
  <2>4. CASE \E id \in Ids : HandleDelete(id)
    BY <2>4, TailsAreIds DEF HandleDelete, Next
  <2>5. CASE \E id \in Ids, img \in Images : HandleInsert(id, img)
    BY <2>5, TailsAreIds DEF HandleInsert, Next
  <2> QED
    BY <1>2, <2>1, <2>2, <2>3, <2>4, <2>5 DEF Handle
<1>3. CASE Startup \/ Shutdown \/ CommandCreates \/ CommandOpens \/ CommandCloses
  BY <1>3 DEF Startup, Shutdown, CommandCreates, CommandOpens, CommandCloses, Next
<1>4. CASE CommandCalls
  BY <1>4 DEF CommandCalls, CommandLists, CommandReads, CommandDeletes,
              CommandInserts, Next
<1> QED
  BY <1>1, <1>2, <1>3, <1>4 DEF ServiceNext

\* The server and the commands do to the file what the library allows, and
\* nothing else: whatever is proved of Spec holds of the service.
THEOREM ServiceUsesLibrary == ServiceSpec => Spec
<1>1. ServiceInit => Init
  BY DEF ServiceInit
<1>2. [ServiceNext]_svcvars => [Next]_vars
  BY StepIsCall
<1> QED
  BY <1>1, <1>2, PTL DEF ServiceSpec, Spec

-----------------------------------------------------------------------------
(* Type correctness. *)

Statuses == {"none", "200 OK", "302 Found", "404 Not Found", "500"}
Outs == Blobs \union {NoImage}
AnswerType == [status : Statuses, err : Errors500, out : Outs]

\* What one of the three ways to answer leaves.
LEMMA AnswersType ==
  ASSUME NEW status \in Statuses, NEW err \in Errors500, NEW out \in Outs
  PROVE  /\ Answers(status, err, out) => answer' \in AnswerType /\ user' = "server"
         /\ RepliesError(err) => answer' \in AnswerType /\ user' \in {"server", "failing"}
         /\ Replies(status, out) => answer' \in AnswerType /\ user' \in {"server", "failing"}
<1>1. ASSUME NEW st \in Statuses, NEW e \in Errors500, NEW o \in Outs, Answers(st, e, o)
      PROVE  answer' \in AnswerType /\ user' = "server"
  BY <1>1 DEF Answers, AnswerType
<1>2. ASSUME NobodyIsAnswered
      PROVE  answer' \in AnswerType /\ user' = "failing"
  BY <1>2 DEF NobodyIsAnswered, NoAnswer, AnswerType, Statuses, Outs, Errors500, Errors
<1>3. ASSUME NEW e \in Errors500, RepliesError(e)
      PROVE  answer' \in AnswerType /\ user' \in {"server", "failing"}
  <2>1. "500" \in Statuses /\ NoImage \in Outs
    BY DEF Statuses, Outs
  <2> QED
    BY <1>1, <1>2, <1>3, <2>1 DEF RepliesError
<1>4. {"ERR_NONE", "ERR_OUT_OF_MEMORY", "ERR_IO"} \subseteq Errors500
  BY DEF Errors500, Errors
<1>5. ASSUME Replies(status, out)
      PROVE  answer' \in AnswerType /\ user' \in {"server", "failing"}
  BY <1>1, <1>3, <1>4, <1>5 DEF Replies
<1> QED
  BY <1>1, <1>3, <1>5

\* A handler that has called the library.
LEMMA RepliesForType ==
  ASSUME TypeOK', NEW status \in Statuses, RepliesFor(status)
  PROVE  answer' \in AnswerType /\ user' \in {"server", "failing"}
<1>1. reply'.err \in Errors500 /\ reply'.out \in Outs
  BY DEF TypeOK, Errors500, Outs
<1> QED
  BY <1>1, AnswersType DEF RepliesFor

LEMMA ServiceInitType == ServiceInit => ServiceTypeOK
  BY InitType DEF ServiceInit, ServiceTypeOK, NoAnswer, Errors500, Errors

LEMMA ServiceNextType ==
  ASSUME ServiceTypeOK, [ServiceNext]_svcvars
  PROVE  ServiceTypeOK'
<1> USE DEF Statuses, Outs, AnswerType
<1>0. TypeOK'
  BY StepIsCall, NextType DEF ServiceTypeOK
<1> DEFINE Goal == /\ user' \in {"nobody", "server", "failing", "command", "returning"}
                   /\ answer' \in AnswerType
                   /\ kept' \subseteq Ids \X Images
<1> SUFFICES Goal
  BY <1>0 DEF ServiceTypeOK
<1>t. kept \subseteq Ids \X Images
  BY DEF ServiceTypeOK
<1>k. KeptAfterDelete \subseteq Ids \X Images
  BY <1>t DEF KeptAfterDelete
<1>i. ASSUME NEW id \in Ids, NEW img \in Images,
             kept' = kept \/ kept' = kept \union {<<id, img>>}
      PROVE  kept' \subseteq Ids \X Images
  BY <1>t, <1>i
<1>1. CASE UNCHANGED svcvars
  BY <1>1 DEF svcvars, users, ServiceTypeOK
<1>r. ASSUME NEW err \in Errors500, Refuses(err)
      PROVE  Goal
  BY <1>r, AnswersType DEF Refuses, ServiceTypeOK
<1>2. CASE Handle
  <2>1. CASE HandlePage
    <3>1. "ERR_NONE" \in Errors500 /\ NoImage \in Outs /\ kept' = kept
      BY <2>1 DEF HandlePage, Errors500, Errors
    <3>2. CASE Answers("200 OK", "ERR_NONE", NoImage) \/ Answers("404 Not Found", "ERR_NONE", NoImage)
      BY <3>1, <3>2, AnswersType DEF ServiceTypeOK
    <3>3. CASE NobodyIsAnswered
      BY <3>1, <3>3 DEF NobodyIsAnswered, NoAnswer, ServiceTypeOK
    <3> QED
      BY <2>1, <3>2, <3>3 DEF HandlePage
  <2>2. CASE HandleList
    BY <2>2, <1>0, RepliesForType DEF HandleList, ServiceTypeOK
  <2>3. ASSUME NEW id \in Ids, NEW res \in Res, HandleRead(id, res)
        PROVE  Goal
    BY <2>3, <1>0, RepliesForType DEF HandleRead, ServiceTypeOK
  <2>4. ASSUME NEW id \in Ids, HandleDelete(id)
        PROVE  Goal
    BY <2>4, <1>0, <1>k, RepliesForType DEF HandleDelete
  <2>5. ASSUME NEW id \in Ids, NEW img \in Images, HandleInsert(id, img)
        PROVE  Goal
    <3>1. kept' \subseteq Ids \X Images
      BY <2>5, <1>i DEF HandleInsert
    <3> QED
      BY <2>5, <3>1, <1>0, RepliesForType DEF HandleInsert, InsertReplies
  <2>6. CASE \/ HandleOther
             \/ \E id \in Parameters(Ids), res \in Parameters(Res \union {Unknown}) :
                  HandleReadRefused(id, res)
             \/ \E id \in Parameters(Ids) : HandleDeleteRefused(id)
             \/ \E id \in Parameters(Ids), img \in Images \union {NoImage} :
                  HandleInsertRefused(id, img)
    <3>1. {"ERR_NONE", "ERR_RUNTIME", "ERR_NOT_ENOUGH_ARGUMENTS", "ERR_RESOLUTIONS",
           "ERR_INVALID_ARGUMENT", "ERR_OUT_OF_MEMORY", "ERR_INVALID_COMMAND"}
             \subseteq Errors500
      BY DEF Errors500, Errors
    <3> QED
      BY <2>6, <3>1, <1>r DEF HandleOther, HandleReadRefused, HandleDeleteRefused,
                              HandleInsertRefused
  <2> QED
    BY <1>2, <2>1, <2>2, <2>3, <2>4, <2>5, <2>6 DEF Handle
<1>3. CASE Startup \/ Shutdown \/ CommandOpens \/ CommandCloses
  BY <1>3 DEF Startup, Shutdown, CommandOpens, CommandCloses, ServiceTypeOK
<1>4. CASE CommandCreates
  BY <1>4 DEF CommandCreates, ServiceTypeOK
<1>5. CASE CommandCalls
  <2>1. user' = "returning" /\ answer' = answer
    BY <1>5 DEF CommandCalls
  <2>2. ASSUME NEW id \in Ids, NEW img \in Images, CommandInserts(id, img)
        PROVE  kept' \subseteq Ids \X Images
    BY <2>2, <1>i DEF CommandInserts
  <2>3. kept' \subseteq Ids \X Images
    BY <1>5, <1>k, <2>2 DEF CommandCalls, CommandLists, CommandReads, CommandDeletes,
                            ServiceTypeOK
  <2> QED
    BY <2>1, <2>3 DEF ServiceTypeOK
<1> QED
  BY <1>1, <1>2, <1>3, <1>4, <1>5 DEF ServiceNext

\* The service keeps its types, whatever accesses to the file fail: an answer is
\* one of the five the handlers know, with an error of error.h.
THEOREM ServiceTypeCorrect == ServiceSpec => []ServiceTypeOK
<1>1. ServiceInit => ServiceTypeOK
  BY ServiceInitType
<1>2. ServiceTypeOK /\ [ServiceNext]_svcvars => ServiceTypeOK'
  BY ServiceNextType
<1> QED
  BY <1>1, <1>2, PTL DEF ServiceSpec

-----------------------------------------------------------------------------
(* What a call does to the images in the file. *)

\* The entry keeps its name and its content, and is still valid.
Keeps(i) ==
  /\ i \in Valid(disk_metadata')
  /\ disk_metadata'[i].img_id = disk_metadata[i].img_id
  /\ disk_metadata'[i].SHA = disk_metadata[i].SHA

\* Deduplication does not rename the entry.
LEMMA EntryIsNamed ==
  ASSUME TypeOK, NEW i \in Slots, i \notin Valid(metadata),
         NEW id \in Ids, NEW img \in Images
  PROVE  Entry(i, id, img).img_id = id
<1> DEFINE index == WithEntry(i, id, img)
           c == Candidate(i, id, img)
<1>1. index[i].img_id = id
  <2>1. Filled(metadata[i], id, img) \in Metadata /\ metadata[i] \in Metadata
    BY EntryType DEF TypeOK
  <2>2. Filled(metadata[i], id, img).img_id = id
    BY <2>1 DEF Filled, Metadata
  <2> QED
    BY <2>1, <2>2 DEF WithEntry, TypeOK, Metadata
<1>2. index[i] \in Metadata /\ c \in Metadata
  BY EntryType
<1>3. c.img_id = index[i].img_id
  <2>1. \/ c = index[i]
        \/ \E f, g : c = [index[i] EXCEPT !.offset = f, !.size = g]
        \/ c = [index[i] EXCEPT !.offset[ORIG_RES] = 0]
    BY DEF Candidate, Deduped
  <2> HIDE DEF index, c
  <2> QED
    BY <1>2, <2>1 DEF Metadata
<1> HIDE DEF index, c
<1>4. Placed(c, Len(data) + 1).img_id = c.img_id
  BY <1>2 DEF Placed, Metadata
<1> QED
  BY <1>1, <1>3, <1>4 DEF Entry, c

\* A header that leaves room leaves a slot: do_insert finds one.
LEMMA RoomIsFound ==
  ASSUME Safe, is_open, header.nb_files < MaxFiles
  PROVE  EmptySlots # {}
<1>1. header.nb_files = Cardinality(Valid(metadata))
  BY OpenAgree
<1>2. Cardinality(Slots) = MaxFiles
  BY FS_Interval, MaxFilesAssumption DEF Slots
<1>3. Valid(metadata) # Slots
  BY <1>1, <1>2, MaxFilesAssumption
<1> QED
  BY <1>3, ValidFinite DEF EmptySlots

\* An insertion leaves every image in the file, and when it returns ERR_NONE its
\* own is there too.
LEMMA InsertStoresOne ==
  ASSUME Faults \subseteq {"read"}, Safe,
         NEW id \in Ids, NEW img \in Images, InsertCall(id, img)
  PROVE  /\ \A i \in Valid(disk_metadata) : Keeps(i)
         /\ reply'.err = "ERR_NONE" =>
              \E i \in Valid(disk_metadata') : /\ disk_metadata'[i].img_id = id
                                              /\ disk_metadata'[i].SHA = img
<1>u. ASSUME UNCHANGED disk
      PROVE  \A i \in Valid(disk_metadata) : Keeps(i)
  BY <1>u DEF disk, Keeps
<1>1. CASE InsertFull(id, img)
  BY <1>1, <1>u DEF InsertFull, Reply
<1>2. ~InsertNowhere(id, img)
  BY RoomIsFound DEF InsertNowhere
<1>3. ASSUME NEW i \in Slots, InsertUndecodable(i, id, img)
      PROVE  UNCHANGED disk /\ reply'.err # "ERR_NONE"
  BY <1>3 DEF InsertUndecodable, Reply
<1>4. ASSUME NEW i \in Slots, InsertRefused(i, id, img)
      PROVE  UNCHANGED disk /\ reply'.err # "ERR_NONE"
  BY <1>4 DEF InsertRefused, Reply
<1>5. ASSUME NEW i \in Slots, InsertDone(i, id, img)
      PROVE  /\ \A j \in Valid(disk_metadata) : Keeps(j)
             /\ i \in Valid(disk_metadata')
             /\ disk_metadata'[i].img_id = id
             /\ disk_metadata'[i].SHA = img
  <2>1. /\ InsertAccepted(i, id, img)
        /\ AppendImage(i, id, img)
        /\ disk_metadata' = [disk_metadata EXCEPT ![i] = Entry(i, id, img)]
    BY <1>5 DEF InsertDone
  <2>2. /\ TypeOK
        /\ i \notin Valid(metadata)
        /\ i \notin Valid(disk_metadata)
        /\ disk_metadata \in [Slots -> Metadata]
    BY <2>1, InsertSlot DEF InsertAccepted, Safe, TypeOK
  <2>3. Entry(i, id, img).is_valid /\ Entry(i, id, img).SHA = img
    BY <2>1, AcceptedEntry
  <2>4. Entry(i, id, img).img_id = id
    BY <2>2, EntryIsNamed
  <2>5. disk_metadata'[i] = Entry(i, id, img)
    BY <2>1, <2>2
  <2>6. \A j \in Valid(disk_metadata) : j \in Slots /\ disk_metadata'[j] = disk_metadata[j]
    BY <2>1, <2>2 DEF Valid
  <2> QED
    BY <2>3, <2>4, <2>5, <2>6 DEF Keeps, Valid
<1>6. \A i \in Slots : /\ ~InsertFailsAtData(i, id, img)
                       /\ ~InsertFailsAtMetadata(i, id, img)
                       /\ ~InsertFailsAtHeader(i, id, img)
  BY DEF InsertFailsAtData, InsertFailsAtMetadata, InsertFailsAtHeader
<1> QED
  BY <1>1, <1>2, <1>3, <1>4, <1>5, <1>6, <1>u DEF InsertCall

\* A deletion leaves every image of another id in the file, and every image when
\* it returns an error.
LEMMA DeleteLeavesOthers ==
  ASSUME Faults \subseteq {"read"}, Safe, NEW id \in Ids, DeleteCall(id)
  PROVE  /\ reply'.call.id = id
         /\ \A i \in Valid(disk_metadata) :
              reply'.err # "ERR_NONE" \/ disk_metadata[i].img_id # id => Keeps(i)
<1>1. CASE DeleteMissing(id)
  BY <1>1 DEF DeleteMissing, Reply, Delete, Call, disk, Keeps
<1>2. CASE DeleteDone(id)
  <2> DEFINE k == First(Named(metadata, id))
  <2>1. /\ is_open
        /\ disk_metadata' = [metadata EXCEPT ![k].is_valid = FALSE]
        /\ reply'.err = "ERR_NONE"
        /\ reply'.call.id = id
    BY <1>2 DEF DeleteDone, Deleted, Reply, Delete, Call
  <2>2. k \in Named(metadata, id)
    <3>1. Named(metadata, id) \in SUBSET Slots
      BY DEF Named, Valid
    <3> QED
      BY <1>2, <3>1, FirstIsLeast DEF DeleteDone
  <2>3. metadata \in [Slots -> Metadata]
    BY DEF Safe, TypeOK
  <2>4. ASSUME NEW i \in Valid(disk_metadata), disk_metadata[i].img_id # id
        PROVE  Keeps(i)
    <3>1. i \in Slots /\ i \in Valid(metadata) /\ metadata[i] = disk_metadata[i]
      BY <2>1, OpenAgree DEF Valid
    <3>2. i # k
      BY <2>2, <2>4, <3>1 DEF Named
    <3>3. disk_metadata'[i] = disk_metadata[i]
      BY <2>1, <2>3, <3>1, <3>2
    <3> QED
      BY <3>1, <3>3 DEF Keeps, Valid
  <2> QED
    BY <2>1, <2>4
<1>3. ~DeleteFailsAtMetadata(id) /\ ~DeleteFailsAtHeader(id)
  BY DEF DeleteFailsAtMetadata, DeleteFailsAtHeader
<1> QED
  BY <1>1, <1>2, <1>3 DEF DeleteCall

\* A read leaves every image in the file, and adds none.
LEMMA ReadLeavesAll ==
  ASSUME Faults \subseteq {"read"}, Safe,
         NEW id \in Ids, NEW res \in Res, ReadCall(id, res)
  PROVE  /\ \A i \in Valid(disk_metadata) : Keeps(i)
         /\ Valid(disk_metadata') = Valid(disk_metadata)
<1> DEFINE Goal == /\ \A i \in Valid(disk_metadata) : Keeps(i)
                   /\ Valid(disk_metadata') = Valid(disk_metadata)
<1>1. ASSUME UNCHANGED disk
      PROVE  Goal
  BY <1>1 DEF disk, Keeps
<1>2. CASE ReadMissing(id, res)
  BY <1>1, <1>2 DEF ReadMissing
<1>3. ASSUME NEW i \in Slots,
             \/ ReadStored(i, id, res)
             \/ ReadOutOfBounds(i, id, res)
             \/ ReadUndecodable(i, id, res)
             \/ ReadFails(i, id, res)
      PROVE  UNCHANGED disk
  BY <1>3 DEF ReadStored, ReadOutOfBounds, ReadUndecodable, ReadFails
<1>4. ASSUME NEW i \in Slots, ReadResized(i, id, res)
      PROVE  Goal
  <2>1. /\ ReadAt(i, id)
        /\ disk_metadata' = [disk_metadata EXCEPT ![i] = ResizedEntry(i, res)]
    BY <1>4 DEF ReadResized, Resizes
  <2>2. /\ metadata[i] \in Metadata
        /\ disk_metadata \in [Slots -> Metadata]
    BY DEF Safe, TypeOK
  <2>3. /\ ResizedEntry(i, res).img_id = metadata[i].img_id
        /\ ResizedEntry(i, res).SHA = metadata[i].SHA
        /\ ResizedEntry(i, res).is_valid = metadata[i].is_valid
    BY <2>2 DEF ResizedEntry, Metadata
  <2>4. i \in Valid(metadata) /\ metadata[i] = disk_metadata[i]
    <3>1. Named(metadata, id) \in SUBSET Slots
      BY DEF Named, Valid
    <3>2. i \in Valid(metadata) /\ is_open
      BY <2>1, <3>1, FirstIsLeast DEF ReadAt, Named
    <3> QED
      BY <3>2, OpenAgree
  <2>5. ASSUME NEW j \in Valid(disk_metadata)
        PROVE  Keeps(j)
    <3>1. j \in Slots /\ disk_metadata[j].is_valid
      BY DEF Valid
    <3>2. CASE j = i
      BY <2>1, <2>2, <2>3, <2>4, <3>1, <3>2 DEF Keeps, Valid
    <3>3. CASE j # i
      BY <2>1, <2>2, <3>1, <3>3 DEF Keeps, Valid
    <3> QED
      BY <3>2, <3>3
  <2>6. Valid(disk_metadata') = Valid(disk_metadata)
    BY <2>1, <2>2, <2>3, <2>4 DEF Valid
  <2> QED
    BY <2>5, <2>6
<1>5. \A i \in Slots : ~ReadFailsAtMetadata(i, id, res)
  BY DEF ReadFailsAtMetadata
<1> QED
  BY <1>1, <1>2, <1>3, <1>4, <1>5 DEF ReadCall

-----------------------------------------------------------------------------
(* What a handler answers. *)

\* An error is not answered as a success.
LEMMA ErrorAnswer ==
  ASSUME NEW err, RepliesError(err)
  PROVE  /\ answer'.status \notin {"200 OK", "302 Found"}
         /\ answer'.err \in {"ERR_NONE", err}
<1>1. CASE Answers("500", err, NoImage)
  BY <1>1 DEF Answers
<1>2. CASE NobodyIsAnswered
  BY <1>2 DEF NobodyIsAnswered, NoAnswer
<1> QED
  BY <1>1, <1>2 DEF RepliesError

\* The answers that a handler gives after a call.
LEMMA AnswerFacts ==
  ASSUME NEW status \in {"200 OK", "302 Found"}, RepliesFor(status)
  PROVE  /\ answer'.err \notin {"ERR_NONE", "ERR_IO", "ERR_OUT_OF_MEMORY"} =>
              reply'.err # "ERR_NONE"
         /\ answer'.status \in {"200 OK", "302 Found"} =>
              /\ answer'.status = status
              /\ reply'.err = "ERR_NONE"
              /\ answer'.out = reply'.out
<1>1. ASSUME NEW out, Answers(status, "ERR_NONE", out)
      PROVE  answer'.status = status /\ answer'.err = "ERR_NONE" /\ answer'.out = out
  BY <1>1 DEF Answers
<1>2. CASE reply'.err = "ERR_NONE"
  <2>1. Replies(status, reply'.out)
    BY <1>2 DEF RepliesFor
  <2> QED
    BY <1>1, <1>2, <2>1, ErrorAnswer DEF Replies
<1>3. CASE reply'.err # "ERR_NONE"
  <2>1. RepliesError(reply'.err)
    BY <1>3 DEF RepliesFor
  <2> QED
    BY <1>3, <2>1, ErrorAnswer
<1> QED
  BY <1>2, <1>3

-----------------------------------------------------------------------------
(* What was acknowledged is kept. *)

\* The inductive invariant of the service.
ServiceSafe == Safe /\ kept \subseteq Ids \X Images /\ KeptIsStored

\* An acknowledged image is in the file after a step that keeps its entry.
LEMMA KeptAfterCall ==
  ASSUME ServiceSafe, NEW p \in kept,
         \A i \in Valid(disk_metadata) :
           disk_metadata[i].img_id \in Tails[p[1]] => Keeps(i)
  PROVE  \E i \in Valid(disk_metadata') :
           disk_metadata'[i].img_id \in Tails[p[1]] /\ disk_metadata'[i].SHA = p[2]
<1>1. PICK i \in Valid(disk_metadata) :
        disk_metadata[i].img_id \in Tails[p[1]] /\ disk_metadata[i].SHA = p[2]
  BY DEF ServiceSafe, KeptIsStored
<1> QED
  BY <1>1 DEF Keeps

\* An insertion by the server or a command adds at most what it acknowledges.
LEMMA InsertKept ==
  ASSUME Faults \subseteq {"read"}, ServiceSafe,
         NEW id \in Ids, NEW name \in Tails[id], NEW img \in Images,
         InsertCall(name, img),
         \/ kept' = kept
         \/ kept' = kept \union {<<id, img>>} /\ reply'.err = "ERR_NONE"
  PROVE  kept' \subseteq Ids \X Images /\ KeptIsStored'
<1>1. kept' \subseteq Ids \X Images
  BY DEF ServiceSafe
<1>2. name \in Ids
  BY TailsAreIds
<1>3. /\ \A i \in Valid(disk_metadata) : Keeps(i)
      /\ reply'.err = "ERR_NONE" =>
           \E i \in Valid(disk_metadata') : /\ disk_metadata'[i].img_id = name
                                           /\ disk_metadata'[i].SHA = img
  BY <1>2, InsertStoresOne DEF ServiceSafe
<1>4. ASSUME NEW p \in kept
      PROVE  \E i \in Valid(disk_metadata') :
               disk_metadata'[i].img_id \in Tails[p[1]] /\ disk_metadata'[i].SHA = p[2]
  BY <1>3, KeptAfterCall
<1> QED
  BY <1>1, <1>3, <1>4 DEF KeptIsStored

\* A deletion takes away only what is no longer claimed to be there.
LEMMA DeleteKept ==
  ASSUME Faults \subseteq {"read"}, ServiceSafe, NEW name \in Ids,
         DeleteCall(name), kept' = KeptAfterDelete
  PROVE  kept' \subseteq Ids \X Images /\ KeptIsStored'
<1>1. kept' \subseteq kept
  BY DEF KeptAfterDelete
<1>2. /\ reply'.call.id = name
      /\ \A i \in Valid(disk_metadata) :
           reply'.err # "ERR_NONE" \/ disk_metadata[i].img_id # name => Keeps(i)
  BY DeleteLeavesOthers DEF ServiceSafe
<1>3. ASSUME NEW p \in kept'
      PROVE  \E i \in Valid(disk_metadata') :
               disk_metadata'[i].img_id \in Tails[p[1]] /\ disk_metadata'[i].SHA = p[2]
  <2>1. reply'.err = "ERR_NONE" => name \notin Tails[p[1]]
    BY <1>2 DEF KeptAfterDelete
  <2>2. \A i \in Valid(disk_metadata) :
          disk_metadata[i].img_id \in Tails[p[1]] => Keeps(i)
    BY <1>2, <2>1
  <2> QED
    BY <1>1, <2>2, KeptAfterCall
<1> QED
  BY <1>1, <1>3 DEF KeptIsStored, ServiceSafe

\* A step that keeps every entry and acknowledges nothing.
LEMMA NothingLost ==
  ASSUME ServiceSafe, kept' = kept,
         \A i \in Valid(disk_metadata) : Keeps(i)
  PROVE  kept' \subseteq Ids \X Images /\ KeptIsStored'
<1>1. ASSUME NEW p \in kept
      PROVE  \E i \in Valid(disk_metadata') :
               disk_metadata'[i].img_id \in Tails[p[1]] /\ disk_metadata'[i].SHA = p[2]
  BY KeptAfterCall
<1> QED
  BY <1>1 DEF KeptIsStored, ServiceSafe

LEMMA ServiceInitSafe == ServiceInit => ServiceSafe
  BY InitSafe DEF ServiceInit, ServiceSafe, KeptIsStored

LEMMA ServiceNextSafe ==
  ASSUME Faults \subseteq {"read"}, ServiceSafe, [ServiceNext]_svcvars
  PROVE  ServiceSafe'
<1>0. Safe'
  BY StepIsCall, NextSafe DEF ServiceSafe
<1> DEFINE Goal == kept' \subseteq Ids \X Images /\ KeptIsStored'
<1> SUFFICES Goal
  BY <1>0 DEF ServiceSafe
<1>u. ASSUME UNCHANGED disk, kept' = kept
      PROVE  Goal
  <2>1. \A i \in Valid(disk_metadata) : Keeps(i)
    BY <1>u DEF disk, Keeps
  <2> QED
    BY <1>u, <2>1, NothingLost
<1>1. CASE UNCHANGED svcvars
  BY <1>1, <1>u DEF svcvars, vars, users, disk
<1>2. ASSUME UNCHANGED <<vars, kept>>
      PROVE  Goal
  BY <1>2, <1>u DEF vars, disk
<1>3. CASE Handle
  <2>1. CASE \/ HandlePage
             \/ HandleOther
             \/ \E id \in Parameters(Ids), res \in Parameters(Res \union {Unknown}) :
                  HandleReadRefused(id, res)
             \/ \E id \in Parameters(Ids) : HandleDeleteRefused(id)
             \/ \E id \in Parameters(Ids), img \in Images \union {NoImage} :
                  HandleInsertRefused(id, img)
    <3>1. UNCHANGED <<vars, kept>>
      BY <2>1 DEF HandlePage, HandleOther, HandleReadRefused, HandleDeleteRefused,
                  HandleInsertRefused, Refuses
    <3> QED
      BY <3>1, <1>2
  <2>2. CASE HandleList
    BY <2>2, <1>u DEF HandleList, ListJson
  <2>3. ASSUME NEW id \in Ids, NEW res \in Res, HandleRead(id, res)
        PROVE  Goal
    BY <2>3, ReadLeavesAll, NothingLost DEF HandleRead, ServiceSafe
  <2>4. ASSUME NEW id \in Ids, HandleDelete(id)
        PROVE  Goal
    BY <2>4, TailsAreIds, DeleteKept DEF HandleDelete
  <2>5. ASSUME NEW id \in Ids, NEW img \in Images, HandleInsert(id, img)
        PROVE  Goal
    <3>1. PICK name \in Tails[id] : InsertCall(name, img)
      BY <2>5 DEF HandleInsert
    <3>2. \/ kept' = kept
          \/ kept' = kept \union {<<id, img>>} /\ reply'.err = "ERR_NONE"
      BY <2>5, AnswerFacts DEF HandleInsert, InsertReplies
    <3> QED
      BY <3>1, <3>2, InsertKept
  <2> QED
    BY <1>3, <2>1, <2>2, <2>3, <2>4, <2>5 DEF Handle
<1>4. CASE Startup \/ Shutdown \/ CommandOpens \/ CommandCloses
  BY <1>4, <1>u DEF Startup, Shutdown, CommandOpens, CommandCloses, Open, Close
<1>5. CASE CommandCreates
  BY <1>5 DEF CommandCreates, KeptIsStored
<1>6. CASE CommandCalls
  <2>1. CASE CommandLists
    BY <2>1, <1>u DEF CommandLists, ListStdout
  <2>2. ASSUME NEW id \in Ids, NEW res \in Res, CommandReads(id, res)
        PROVE  Goal
    BY <2>2, ReadLeavesAll, NothingLost DEF CommandReads, ServiceSafe
  <2>3. ASSUME NEW id \in Ids, CommandDeletes(id)
        PROVE  Goal
    BY <2>3, DeleteKept DEF CommandDeletes
  <2>4. ASSUME NEW id \in Ids, NEW img \in Images, CommandInserts(id, img)
        PROVE  Goal
    BY <2>4, TailsAreIds, InsertKept DEF CommandInserts
  <2> QED
    BY <1>6, <2>1, <2>2, <2>3, <2>4 DEF CommandCalls
<1> QED
  BY <1>1, <1>3, <1>4, <1>5, <1>6 DEF ServiceNext

\* While every write to the file works, what was acknowledged as inserted, by the
\* server or by a command, is in the file until its id is deleted: lost answers,
\* refused requests, deduplication, restarts and commands take nothing away.
THEOREM AcknowledgedIsKept ==
  ASSUME Faults \subseteq {"read"}
  PROVE  ServiceSpec => []KeptIsStored
<1>1. ServiceInit => ServiceSafe
  BY ServiceInitSafe
<1>2. ServiceSafe /\ [ServiceNext]_svcvars => ServiceSafe'
  BY ServiceNextSafe
<1>3. ServiceSafe => KeptIsStored
  BY DEF ServiceSafe
<1> QED
  BY <1>1, <1>2, <1>3, PTL DEF ServiceSpec

-----------------------------------------------------------------------------
(* The answers are true. *)

\* An insertion that returns ERR_NONE has filled one slot of the file, and one
\* that returns an error none.
LEMMA InsertIsTrue ==
  ASSUME Faults \subseteq {"read"}, Safe,
         NEW id \in Ids, NEW img \in Images, InsertCall(id, img)
  PROVE  IF reply'.err = "ERR_NONE" THEN OneImageChanged ELSE UNCHANGED disk
<1>1. CASE InsertFull(id, img)
  BY <1>1 DEF InsertFull, Reply
<1>2. ~InsertNowhere(id, img)
  BY RoomIsFound DEF InsertNowhere
<1>3. ASSUME NEW i \in Slots,
             InsertUndecodable(i, id, img) \/ InsertRefused(i, id, img)
      PROVE  UNCHANGED disk /\ reply'.err # "ERR_NONE"
  BY <1>3 DEF InsertUndecodable, InsertRefused, Reply
<1>4. ASSUME NEW i \in Slots, InsertDone(i, id, img)
      PROVE  reply'.err = "ERR_NONE" /\ OneImageChanged
  <2>1. /\ InsertAccepted(i, id, img)
        /\ AppendImage(i, id, img)
        /\ disk_metadata' = [disk_metadata EXCEPT ![i] = Entry(i, id, img)]
        /\ reply'.err = "ERR_NONE"
    BY <1>4 DEF InsertDone, Reply
  <2>2. i \notin Valid(disk_metadata) /\ disk_metadata \in [Slots -> Metadata]
    BY <2>1, InsertSlot DEF InsertAccepted, Safe, TypeOK
  <2>3. Entry(i, id, img).is_valid
    BY <2>1, AcceptedEntry
  <2> QED
    BY <2>1, <2>2, <2>3 DEF OneImageChanged, SameSlot, Valid
<1>5. \A i \in Slots : /\ ~InsertFailsAtData(i, id, img)
                       /\ ~InsertFailsAtMetadata(i, id, img)
                       /\ ~InsertFailsAtHeader(i, id, img)
  BY DEF InsertFailsAtData, InsertFailsAtMetadata, InsertFailsAtHeader
<1> QED
  BY <1>1, <1>2, <1>3, <1>4, <1>5 DEF InsertCall

\* A deletion that returns ERR_NONE has emptied one slot of the file.
LEMMA DeleteIsTrue ==
  ASSUME Faults \subseteq {"read"}, Safe, NEW id \in Ids, DeleteCall(id)
  PROVE  IF reply'.err = "ERR_NONE" THEN OneImageChanged ELSE UNCHANGED disk
<1>1. CASE DeleteMissing(id)
  BY <1>1 DEF DeleteMissing, Reply
<1>2. CASE DeleteDone(id)
  <2> DEFINE k == First(Named(metadata, id))
  <2>1. /\ is_open
        /\ disk_metadata' = [metadata EXCEPT ![k].is_valid = FALSE]
        /\ reply'.err = "ERR_NONE"
    BY <1>2 DEF DeleteDone, Deleted, Reply
  <2>2. k \in Valid(metadata) /\ k \in Slots
    <3>1. Named(metadata, id) \in SUBSET Slots
      BY DEF Named, Valid
    <3> QED
      BY <1>2, <3>1, FirstIsLeast DEF DeleteDone, Named
  <2>3. /\ metadata \in [Slots -> Metadata]
        /\ disk_metadata[k].is_valid
        /\ \A j \in Slots : SameSlot(metadata[j], disk_metadata[j])
    BY <2>1, <2>2, OpenAgree DEF Safe, TypeOK, FileInSync, Valid
  <2> HIDE DEF k
  <2>4. ~disk_metadata'[k].is_valid
    BY <2>1, <2>2, <2>3 DEF Metadata
  <2>5. \A j \in Slots \ {k} : SameSlot(disk_metadata'[j], disk_metadata[j])
    BY <2>1, <2>3
  <2> QED
    BY <2>1, <2>2, <2>3, <2>4, <2>5 DEF OneImageChanged
<1>3. ~DeleteFailsAtMetadata(id) /\ ~DeleteFailsAtHeader(id)
  BY DEF DeleteFailsAtMetadata, DeleteFailsAtHeader
<1> QED
  BY <1>1, <1>2, <1>3 DEF DeleteCall

\* What a read hands out is the image stored under the id, at the resolution.
LEMMA ReadIsTrue ==
  ASSUME Safe, NEW id \in Ids, NEW res \in Res, ReadCall(id, res),
         reply'.err = "ERR_NONE"
  PROVE  \E i \in Valid(disk_metadata) :
           /\ disk_metadata[i].img_id = reply'.call.id
           /\ reply'.out = Blob(disk_metadata[i].SHA, reply'.call.arg)
<1>1. ASSUME NEW i \in Slots, ReadAt(i, id)
      PROVE  /\ i \in Valid(disk_metadata)
             /\ disk_metadata[i].img_id = id
             /\ metadata[i] = disk_metadata[i]
             /\ EntryIntact(metadata[i], data)
  <2>1. Named(metadata, id) \in SUBSET Slots
    BY DEF Named, Valid
  <2>2. i \in Valid(metadata) /\ metadata[i].img_id = id /\ is_open
    BY <1>1, <2>1, FirstIsLeast DEF ReadAt, Named
  <2> QED
    BY <2>2, OpenAgree DEF Safe, Intact
<1>2. ASSUME NEW i \in Slots, ReadStored(i, id, res)
      PROVE  /\ ReadAt(i, id)
             /\ reply'.call.id = id
             /\ reply'.call.arg = res
             /\ reply'.out = Blob(metadata[i].SHA, res)
  <2>1. ReadAt(i, id) /\ EntryIntact(metadata[i], data)
    BY <1>1, <1>2 DEF ReadStored
  <2>2. reply'.out = Content(metadata[i], data, res)
    BY <1>2 DEF ReadStored, Reply
  <2>3. Content(metadata[i], data, res) = Blob(metadata[i].SHA, res)
    <3>1. CASE res = ORIG_RES
      BY <2>1, <3>1 DEF EntryIntact
    <3>2. CASE res # ORIG_RES
      <4>1. res \in DerivedRes
        BY <3>2 DEF Res
      <4>2. metadata[i].size[res] # 0
        BY <1>2, <3>2 DEF ReadStored, CallsResize
      <4> QED
        BY <2>1, <4>1, <4>2 DEF EntryIntact, DerivedIntact
    <3> QED
      BY <3>1, <3>2
  <2> QED
    BY <1>2, <2>1, <2>2, <2>3 DEF ReadStored, Reply, Read, Call
<1>3. ASSUME NEW i \in Slots, ReadResized(i, id, res)
      PROVE  /\ ReadAt(i, id)
             /\ reply'.call.id = id
             /\ reply'.call.arg = res
             /\ reply'.out = Blob(metadata[i].SHA, res)
  <2>1. ReadAt(i, id) /\ EntryIntact(metadata[i], data)
    BY <1>1, <1>3 DEF ReadResized, Resizes
  <2>2. reply' = Reply(Read(id, res), "ERR_NONE", Resized(i, res))
    BY <1>3 DEF ReadResized, Reply
  <2>3. Resized(i, res) = Blob(metadata[i].SHA, res)
    BY <2>1 DEF EntryIntact, Resized, Blob
  <2> QED
    BY <2>1, <2>2, <2>3 DEF Reply, Read, Call
<1>4. ~ReadMissing(id, res)
  BY DEF ReadMissing, Reply
<1>5. \A i \in Slots : /\ ~ReadOutOfBounds(i, id, res)
                       /\ ~ReadUndecodable(i, id, res)
                       /\ ~ReadFailsAtMetadata(i, id, res)
                       /\ ~ReadFails(i, id, res)
  BY DEF ReadOutOfBounds, ReadUndecodable, ReadFailsAtMetadata, ReadFails, ReadErrors, Reply
<1>6. PICK i \in Slots : ReadStored(i, id, res) \/ ReadResized(i, id, res)
  BY <1>4, <1>5 DEF ReadCall
<1> QED
  BY <1>1, <1>2, <1>3, <1>6

\* What AnswerIsTrue says of a step.
AnswerHolds == FoundIsDone /\ RefusedIsUndone /\ ReadIsAnImage

\* A request that never reached the library.
LEMMA RefusedIsTrue ==
  ASSUME UNCHANGED vars,
         \/ answer'.status \notin {"200 OK", "302 Found"}
         \/ answer'.status = "200 OK" /\ answer'.out = NoImage
  PROVE  AnswerHolds
<1>1. disk_metadata' = disk_metadata
  BY DEF vars
<1>2. Visible(disk_metadata') = Visible(disk_metadata)
  BY <1>1
<1> QED
  BY <1>2 DEF AnswerHolds, FoundIsDone, RefusedIsUndone, ReadIsAnImage

\* A list brings no image and changes none.
LEMMA ListAnswer ==
  ASSUME HandleList
  PROVE  /\ disk_metadata' = disk_metadata
         /\ answer'.err \in {"ERR_NONE", "ERR_OUT_OF_MEMORY", "ERR_IO", "ERR_RUNTIME"}
         /\ \/ answer'.status \notin {"200 OK", "302 Found"}
            \/ answer'.status = "200 OK" /\ answer'.out = NoImage
<1>r. RepliesFor("200 OK")
  BY DEF HandleList
<1>1. /\ disk_metadata' = disk_metadata
      /\ reply'.err \in {"ERR_NONE", "ERR_RUNTIME"} /\ reply'.out = NoImage
  <2>1. /\ UNCHANGED disk
        /\ \/ reply' = Shown(Listing(metadata))
           \/ reply' = Reply(Call("list", NoId, NoImage), "ERR_RUNTIME", NoImage)
    BY DEF HandleList, ListJson
  <2>2. ASSUME NEW listing
        PROVE  Shown(listing).err = "ERR_NONE" /\ Shown(listing).out = NoImage
    <3> DEFINE call == Call("list", NoId, NoImage)
    <3>1. Shown(listing) = [Reply(call, "ERR_NONE", NoImage) EXCEPT !.ids = listing]
      BY DEF Shown
    <3> HIDE DEF call
    <3> QED
      BY <3>1 DEF Reply
  <2>3. ASSUME NEW call, NEW err
        PROVE  Reply(call, err, NoImage).err = err /\ Reply(call, err, NoImage).out = NoImage
    BY DEF Reply
  <2>4. disk_metadata' = disk_metadata
    BY <2>1 DEF disk
  <2>5. CASE reply' = Shown(Listing(metadata))
    BY <2>1, <2>2, <2>4, <2>5
  <2>6. CASE reply' = Reply(Call("list", NoId, NoImage), "ERR_RUNTIME", NoImage)
    BY <2>1, <2>3, <2>4, <2>6
  <2> QED
    BY <2>1, <2>5, <2>6
<1>2. CASE reply'.err = "ERR_NONE"
  <2>1. Replies("200 OK", NoImage)
    BY <1>r, <1>1, <1>2 DEF RepliesFor
  <2>2. CASE Answers("200 OK", "ERR_NONE", NoImage)
    BY <1>1, <2>2 DEF Answers
  <2>3. ASSUME NEW err \in {"ERR_OUT_OF_MEMORY", "ERR_IO"}, RepliesError(err)
        PROVE  /\ answer'.err \in {"ERR_NONE", "ERR_OUT_OF_MEMORY", "ERR_IO"}
               /\ answer'.status \notin {"200 OK", "302 Found"}
    BY <2>3, ErrorAnswer
  <2> QED
    BY <1>1, <2>1, <2>2, <2>3 DEF Replies
<1>3. CASE reply'.err = "ERR_RUNTIME"
  <2>1. RepliesError("ERR_RUNTIME")
    BY <1>r, <1>3 DEF RepliesFor
  <2> QED
    BY <1>1, <2>1, ErrorAnswer
<1> QED
  BY <1>1, <1>2, <1>3

\* Each request is answered with the truth.
LEMMA HandleIsTrue ==
  ASSUME Faults \subseteq {"read"}, Safe, Handle
  PROVE  AnswerHolds
<1>r. ASSUME NEW err, Refuses(err)
      PROVE  AnswerHolds
  BY <1>r, ErrorAnswer, RefusedIsTrue DEF Refuses
<1>1. CASE HandlePage
  <2>1. /\ UNCHANGED vars
        /\ \/ Answers("200 OK", "ERR_NONE", NoImage)
           \/ Answers("404 Not Found", "ERR_NONE", NoImage)
           \/ NobodyIsAnswered
    BY <1>1 DEF HandlePage
  <2>2. CASE Answers("200 OK", "ERR_NONE", NoImage)
    BY <2>1, <2>2, RefusedIsTrue DEF Answers
  <2>3. CASE Answers("404 Not Found", "ERR_NONE", NoImage)
    BY <2>1, <2>3, RefusedIsTrue DEF Answers
  <2>4. CASE NobodyIsAnswered
    BY <2>1, <2>4, RefusedIsTrue DEF NobodyIsAnswered, NoAnswer
  <2> QED
    BY <2>1, <2>2, <2>3, <2>4
<1>2. CASE HandleList
  <2>1. Visible(disk_metadata') = Visible(disk_metadata)
    BY <1>2, ListAnswer
  <2> QED
    BY <1>2, <2>1, ListAnswer DEF AnswerHolds, FoundIsDone, RefusedIsUndone, ReadIsAnImage
<1>3. ASSUME NEW id \in Ids, NEW res \in Res, HandleRead(id, res)
      PROVE  AnswerHolds
  <2>1. ReadCall(id, res) /\ RepliesFor("200 OK")
    BY <1>3 DEF HandleRead
  <2>2. Visible(disk_metadata') = Visible(disk_metadata)
    BY <2>1, ReadLeavesAll DEF Visible, Keeps
  <2>3. answer'.status # "302 Found"
    BY <2>1, AnswerFacts
  <2>4. ReadIsAnImage
    BY <2>1, AnswerFacts, ReadIsTrue DEF ReadIsAnImage
  <2> QED
    BY <2>2, <2>3, <2>4 DEF AnswerHolds, FoundIsDone, RefusedIsUndone
<1>w. ASSUME RepliesFor("302 Found"),
             IF reply'.err = "ERR_NONE" THEN OneImageChanged ELSE UNCHANGED disk
      PROVE  AnswerHolds
  <2>1. FoundIsDone
    BY <1>w, AnswerFacts DEF FoundIsDone
  <2>2. RefusedIsUndone
    <3>1. ASSUME UNCHANGED disk
          PROVE  Visible(disk_metadata') = Visible(disk_metadata)
      BY <3>1 DEF disk
    <3> QED
      BY <1>w, <3>1, AnswerFacts DEF RefusedIsUndone
  <2>3. answer'.status # "200 OK"
    BY <1>w, AnswerFacts
  <2> QED
    BY <2>1, <2>2, <2>3 DEF AnswerHolds, ReadIsAnImage
<1>4. ASSUME NEW id \in Ids, HandleDelete(id)
      PROVE  AnswerHolds
  BY <1>4, <1>w, TailsAreIds, DeleteIsTrue DEF HandleDelete
<1>5. ASSUME NEW id \in Ids, NEW img \in Images, HandleInsert(id, img)
      PROVE  AnswerHolds
  BY <1>5, <1>w, TailsAreIds, InsertIsTrue DEF HandleInsert, InsertReplies
<1>6. CASE \/ HandleOther
           \/ \E id \in Parameters(Ids), res \in Parameters(Res \union {Unknown}) :
                HandleReadRefused(id, res)
           \/ \E id \in Parameters(Ids) : HandleDeleteRefused(id)
           \/ \E id \in Parameters(Ids), img \in Images \union {NoImage} :
                HandleInsertRefused(id, img)
  BY <1>6, <1>r DEF HandleOther, HandleReadRefused, HandleDeleteRefused,
                    HandleInsertRefused
<1> QED
  BY <1>1, <1>2, <1>3, <1>4, <1>5, <1>6 DEF Handle

\* While every write to the file works: 302 Found tells that one image was added
\* or taken away, an error of the library that none was, and 200 OK to a read
\* brings the image stored under the id.
THEOREM AnswersAreTrue ==
  ASSUME Faults \subseteq {"read"}
  PROVE  ServiceSpec => AnswerIsTrue
<1>1. ServiceInit => ServiceSafe
  BY ServiceInitSafe
<1>2. ServiceSafe /\ [ServiceNext]_svcvars => ServiceSafe'
  BY ServiceNextSafe
<1>3. ASSUME ServiceSafe, [ServiceNext]_svcvars
      PROVE  [Handled => FoundIsDone /\ RefusedIsUndone /\ ReadIsAnImage]_svcvars
  <2>1. CASE UNCHANGED svcvars
    BY <2>1
  <2>2. CASE Handle
    BY <1>3, <2>2, HandleIsTrue DEF ServiceSafe, AnswerHolds
  <2>3. CASE \/ Startup \/ Shutdown \/ CommandCreates \/ CommandOpens
             \/ CommandCalls \/ CommandCloses
    BY <2>3 DEF Startup, Shutdown, CommandCreates, CommandOpens, CommandCalls,
                CommandCloses, Handled
  <2> QED
    BY <1>3, <2>1, <2>2, <2>3 DEF ServiceNext
<1> QED
  BY <1>1, <1>2, <1>3, PTL DEF ServiceSpec, AnswerIsTrue

-----------------------------------------------------------------------------
(* The text of the requests. *)

\* What http_get_var finds is a parameter of the service.
LEMMA GotIsParameter ==
  ASSUME NEW r \in Requests
  PROVE  /\ r.body \in Images \union {NoImage}
         /\ IdGot[r] \in Parameters(Ids)
         /\ NameGot[r] \in Parameters(Ids)
         /\ ResGot[r] \in Parameters(Res \union {Unknown})
  BY RequestsAssumption

\* A request is handled like one of the service's.
LEMMA AskedIsHandled ==
  ASSUME NEW r \in Requests, Asks(r)
  PROVE  Handle
<1> USE GotIsParameter
<1>1. CASE AsksPage(r)
  BY <1>1 DEF AsksPage, Handle
<1>2. CASE AsksList(r)
  BY <1>2 DEF AsksList, Handle
<1>3. CASE AsksInsert(r)
  <2>1. CASE HandleInsertRefused(NameGot[r], r.body)
    BY <2>1 DEF Handle
  <2>2. CASE NameGot[r] \in Ids /\ r.body \in Images /\ HandleInsert(NameGot[r], r.body)
    BY <2>2 DEF Handle
  <2> QED
    BY <1>3, <2>1, <2>2 DEF AsksInsert
<1>4. CASE AsksRead(r)
  <2>1. CASE HandleReadRefused(IdGot[r], ResGot[r])
    BY <2>1 DEF Handle
  <2>2. CASE IdGot[r] \in Ids /\ ResGot[r] \in Res /\ HandleRead(IdGot[r], ResGot[r])
    BY <2>2 DEF Handle
  <2> QED
    BY <1>4, <2>1, <2>2 DEF AsksRead
<1>5. CASE AsksDelete(r)
  <2>1. CASE HandleDeleteRefused(IdGot[r])
    BY <2>1 DEF Handle
  <2>2. CASE IdGot[r] \in Ids /\ HandleDelete(IdGot[r])
    BY <2>2 DEF Handle
  <2> QED
    BY <1>5, <2>1, <2>2 DEF AsksDelete
<1>6. CASE AsksOther(r)
  BY <1>6 DEF AsksOther, Handle
<1> QED
  BY <1>1, <1>2, <1>3, <1>4, <1>5, <1>6 DEF Asks

LEMMA RequestStepIsServiceStep ==
  ASSUME [RequestNext]_reqvars
  PROVE  [ServiceNext]_svcvars
<1>1. CASE UNCHANGED reqvars
  BY <1>1 DEF reqvars
<1>2. ASSUME NEW r \in Requests, Asks(r)
      PROVE  ServiceNext
  BY <1>2, AskedIsHandled DEF ServiceNext
<1>3. CASE Turns
  BY <1>3 DEF Turns, ServiceNext
<1> QED
  BY <1>1, <1>2, <1>3 DEF RequestNext

\* What holds of ImgfsService holds of the server with its texts: every handler is
\* called with parameters the service allows.
LEMMA TextIsServed == RequestSpec => ServiceSpec
<1>1. RequestInit => ServiceInit
  BY DEF RequestInit
<1>2. [RequestNext]_reqvars => [ServiceNext]_svcvars
  BY RequestStepIsServiceStep
<1> QED
  BY <1>1, <1>2, PTL DEF RequestSpec, ServiceSpec

(***************************************************************************)
(* What the server acknowledged to a request, whatever its text, is in the *)
(* file until its id is deleted.                                           *)
(***************************************************************************)
THEOREM AcknowledgedRequestIsKept ==
  ASSUME Faults \subseteq {"read"}
  PROVE  RequestSpec => []KeptIsStored
  BY TextIsServed, AcknowledgedIsKept

\* What the server answers a request, whatever its text, is what happened.
THEOREM AnswersToTextAreTrue ==
  ASSUME Faults \subseteq {"read"}
  PROVE  RequestSpec => AnswerIsTrue
  BY TextIsServed, AnswersAreTrue

-----------------------------------------------------------------------------
(* Where the parameters stand in the text. *)

\* The first place is found, or none.
LEMMA StrstrFacts ==
  ASSUME NEW s, Len(s) \in Nat, NEW i \in Nat, i >= 1, NEW tokens, Len(tokens) \in Nat
  PROVE  /\ Places(s, i, tokens) = {} => Strstr(s, i, tokens) = 0
         /\ Strstr(s, i, tokens) = 0 => Places(s, i, tokens) = {}
         /\ \A p \in Places(s, i, tokens) :
              (\A k \in Places(s, i, tokens) : p <= k) => Strstr(s, i, tokens) = p
<1> DEFINE places == Places(s, i, tokens)
           first == CHOOSE k \in places : \A j \in places : k <= j
<1>1. Strstr(s, i, tokens) = IF places = {} THEN 0 ELSE first
  BY DEF Strstr
<1>2. places \in SUBSET Nat /\ \A k \in places : k >= 1
  <2>1. \A k \in places : k \in i .. Len(s) - Len(tokens) + 1
    BY DEF Places
  <2> HIDE DEF places
  <2> QED
    BY <2>1
<1> HIDE DEF places
<1>3. ASSUME places # {}
      PROVE  first \in places /\ \A j \in places : first <= j
  <2>1. \E k \in places : \A j \in places : k <= j
    <3> HIDE DEF first
    <3> QED
      BY <1>2, <1>3, Least
  <2> QED
    BY <2>1
<1>4. ASSUME NEW p \in places, \A k \in places : p <= k
      PROVE  first = p
  <2>1. first \in places /\ first <= p /\ p <= first
    BY <1>3, <1>4
  <2> HIDE DEF first
  <2>2. first \in Nat /\ p \in Nat
    BY <1>2, <2>1
  <2> QED
    BY <2>1, <2>2
<1>5. places # {} => first >= 1
  BY <1>2, <1>3
<1> HIDE DEF first
<1>6. /\ places = {} => Strstr(s, i, tokens) = 0
      /\ Strstr(s, i, tokens) = 0 => places = {}
      /\ \A p \in places : (\A k \in places : p <= k) => Strstr(s, i, tokens) = p
  <2>1. ASSUME NEW p \in places, \A k \in places : p <= k
        PROVE  Strstr(s, i, tokens) = p
    BY <1>1, <1>4, <2>1
  <2> QED
    BY <1>1, <1>5, <2>1
<1> QED
  BY <1>6 DEF places

\* The parameters from the k-th on, as the recursion of Query has them.
QueryFrom(query, text, k) ==
  IF k > Len(query) THEN <<>>
  ELSE <<IF k = 1 THEN "?" ELSE "&">> \o Parameter(query[k]) \o text[k + 1]

\* Query unfolds its recursion once for every parameter.
LEMMA QueryRuns ==
  ASSUME NEW query, Len(query) \in Nat
  PROVE  \E text : /\ Query(query) = text[1]
                   /\ \A k \in 1 .. Len(query) + 1 : text[k] = QueryFrom(query, text, k)
<1> DEFINE n == Len(query)
           Unfolds(f, j) == f = [k \in j .. n + 1 |-> QueryFrom(query, f, k)]
           T == {m \in Nat : m <= n => \E f : Unfolds(f, n + 1 - m)}
<1>2. ASSUME NEW k \in 1 .. n + 1, NEW f, NEW g, \A j \in k + 1 .. n + 1 : f[j] = g[j]
      PROVE  QueryFrom(query, f, k) = QueryFrom(query, g, k)
  <2>1. CASE k = n + 1
    BY <2>1 DEF QueryFrom
  <2>2. CASE k # n + 1
    <3>1. k + 1 \in k + 1 .. n + 1
      BY <2>2
    <3>2. f[k + 1] = g[k + 1]
      BY <1>2, <3>1
    <3> QED
      BY <3>2 DEF QueryFrom
  <2> QED
    BY <2>1, <2>2
<1>3. ASSUME NEW m \in Nat, 0 .. m - 1 \subseteq T
      PROVE  m \in T
  <2> SUFFICES ASSUME m <= n
               PROVE  \E f : Unfolds(f, n + 1 - m)
    OBVIOUS
  <2> DEFINE j == n + 1 - m
  <2>1. j \in 1 .. n + 1
    OBVIOUS
  <2>2. \E g : \A k \in j + 1 .. n + 1 : g[k] = QueryFrom(query, g, k)
    <3>1. CASE m = 0
      BY <3>1
    <3>2. CASE m # 0
      <4>1. m - 1 \in T
        <5>1. m - 1 \in 0 .. m - 1
          BY <3>2
        <5> HIDE DEF T
        <5> QED
          BY <1>3, <5>1
      <4>2. PICK g : Unfolds(g, n + 1 - (m - 1))
        <5> HIDE DEF Unfolds
        <5> QED
          BY <4>1
      <4>3. n + 1 - (m - 1) = j + 1
        OBVIOUS
      <4> HIDE DEF j
      <4>4. g = [k \in j + 1 .. n + 1 |-> QueryFrom(query, g, k)]
        BY <4>2, <4>3
      <4>5. \A k \in j + 1 .. n + 1 : g[k] = QueryFrom(query, g, k)
        BY <4>4
      <4> QED
        BY <4>5
    <3> QED
      BY <3>1, <3>2
  <2>3. PICK g : \A k \in j + 1 .. n + 1 : g[k] = QueryFrom(query, g, k)
    BY <2>2
  <2> DEFINE h == [k \in j .. n + 1 |-> QueryFrom(query, g, k)]
  <2>4. ASSUME NEW k \in j .. n + 1
        PROVE  h[k] = QueryFrom(query, h, k)
    <3>1. h[k] = QueryFrom(query, g, k)
      OBVIOUS
    <3>2. \A i \in k + 1 .. n + 1 : h[i] = g[i]
      <4> SUFFICES ASSUME NEW i \in k + 1 .. n + 1
                   PROVE  h[i] = g[i]
        OBVIOUS
      <4>1. i \in j .. n + 1 /\ i \in j + 1 .. n + 1
        BY <2>1
      <4> HIDE DEF j
      <4> QED
        BY <2>3, <4>1
    <3>3. k \in 1 .. n + 1
      BY <2>1
    <3> HIDE DEF h, n
    <3>4. QueryFrom(query, h, k) = QueryFrom(query, g, k)
      BY <1>2, <3>2, <3>3
    <3> QED
      BY <3>1, <3>4
  <2>5. Unfolds(h, j)
    <3>1. h = [k \in j .. n + 1 |-> h[k]]
      OBVIOUS
    <3> HIDE DEF h, j, n
    <3> QED
      BY <2>4, <3>1
  <2> HIDE DEF Unfolds, h
  <2> QED
    BY <2>5
<1>4. T = Nat
  <2> HIDE DEF T
  <2>1. T \in SUBSET Nat
    BY DEF T
  <2> QED
    BY <1>3, <2>1, Induction
<1>5. \E f : Unfolds(f, 1)
  <2>1. n \in T /\ n + 1 - n = 1
    BY <1>4
  <2> HIDE DEF Unfolds
  <2> QED
    BY <2>1
<1> DEFINE text == CHOOSE f : Unfolds(f, 1)
<1>6. Unfolds(text, 1)
  <2> HIDE DEF Unfolds
  <2> QED
    BY <1>5
<1>7. Query(query) = text[1]
  BY DEF Query, QueryFrom
<1> HIDE DEF text
<1>8. \A k \in 1 .. n + 1 : text[k] = QueryFrom(query, text, k)
  BY <1>6
<1> QED
  BY <1>7, <1>8

\* A separator, a name, "=", a value, and what follows, token by token.
Joins(t, sep, a, e, v, rest) ==
  /\ Len(t) = 2 + Len(a) + Len(v) + Len(rest)
  /\ t[1] = sep /\ t[2 + Len(a)] = e
  /\ \A i \in 1 .. Len(a) : t[1 + i] = a[i]
  /\ \A i \in 1 .. Len(v) : t[2 + Len(a) + i] = v[i]
  /\ \A i \in 1 .. Len(rest) : t[2 + Len(a) + Len(v) + i] = rest[i]

\* A parameter put before what follows it, as one text.
LEMMA Pieces ==
  ASSUME NEW S, NEW sep \in S, NEW e \in S, NEW a \in Seq(S), NEW v \in Seq(S),
         NEW rest \in Seq(S), NEW t, t = <<sep>> \o (a \o <<e>> \o v) \o rest
  PROVE  t \in Seq(S) /\ Joins(t, sep, a, e, v, rest)
<1> DEFINE x == a \o <<e>>
           y == x \o v
           z == <<sep>> \o y
<1>t. t = z \o rest
  OBVIOUS
<1>0. <<e>> \in Seq(S) /\ Len(<<e>>) = 1 /\ <<e>>[1] = e
      /\ <<sep>> \in Seq(S) /\ Len(<<sep>>) = 1 /\ <<sep>>[1] = sep
  OBVIOUS
<1>c. ASSUME NEW b \in Seq(S), NEW c \in Seq(S)
      PROVE  /\ b \o c \in Seq(S) /\ Len(b \o c) = Len(b) + Len(c)
             /\ \A i \in 1 .. Len(b) : (b \o c)[i] = b[i]
             /\ \A i \in 1 .. Len(c) : (b \o c)[Len(b) + i] = c[i]
  OBVIOUS
<1>1. /\ x \in Seq(S) /\ Len(x) = Len(a) + 1 /\ x[Len(a) + 1] = e
      /\ \A i \in 1 .. Len(a) : x[i] = a[i]
  BY <1>0, <1>c
<1>n. Len(a) \in Nat /\ Len(v) \in Nat /\ Len(rest) \in Nat
  OBVIOUS
<1> HIDE DEF x
<1>2. /\ y \in Seq(S) /\ Len(y) = Len(x) + Len(v)
      /\ \A i \in 1 .. Len(x) : y[i] = x[i]
      /\ \A i \in 1 .. Len(v) : y[Len(x) + i] = v[i]
  BY <1>1, <1>c
<1> HIDE DEF y
<1>3. /\ z \in Seq(S) /\ Len(z) = 1 + Len(y) /\ z[1] = sep
      /\ \A i \in 1 .. Len(y) : z[1 + i] = y[i]
  BY <1>0, <1>2, <1>c
<1> HIDE DEF z
<1>4. /\ t \in Seq(S) /\ Len(t) = Len(z) + Len(rest)
      /\ \A i \in 1 .. Len(z) : t[i] = z[i]
      /\ \A i \in 1 .. Len(rest) : t[Len(z) + i] = rest[i]
  <2>1. /\ z \o rest \in Seq(S) /\ Len(z \o rest) = Len(z) + Len(rest)
        /\ \A i \in 1 .. Len(z) : (z \o rest)[i] = z[i]
        /\ \A i \in 1 .. Len(rest) : (z \o rest)[Len(z) + i] = rest[i]
    BY <1>3, <1>c
  <2> QED
    BY <1>t, <2>1
<1>5. Len(z) = 2 + Len(a) + Len(v)
  BY <1>1, <1>2, <1>3, <1>n
<1>6. t[1] = sep
  BY <1>3, <1>4, <1>5, <1>n
<1>d. /\ Len(a) \in Nat /\ Len(v) \in Nat /\ Len(rest) \in Nat
      /\ Len(x) = Len(a) + 1 /\ Len(y) = Len(x) + Len(v) /\ Len(z) = 1 + Len(y)
  BY <1>1, <1>2, <1>3, <1>n
<1>7. ASSUME NEW i \in 1 .. Len(y)
      PROVE  t[1 + i] = y[i]
  <2>1. 1 + i \in 1 .. Len(z)
    BY <1>d
  <2> QED
    BY <1>3, <1>4, <2>1
<1>8. ASSUME NEW i \in 1 .. Len(x)
      PROVE  t[1 + i] = x[i]
  <2>1. i \in 1 .. Len(y)
    BY <1>d
  <2> QED
    BY <1>2, <1>7, <2>1
<1>9. t[2 + Len(a)] = e
  <2>1. Len(a) + 1 \in 1 .. Len(x) /\ 1 + (Len(a) + 1) = 2 + Len(a)
    BY <1>1, <1>n
  <2> QED
    BY <2>1, <1>8, <1>1
<1>10. \A i \in 1 .. Len(a) : t[1 + i] = a[i]
  BY <1>8, <1>1, <1>n
<1>11. ASSUME NEW i \in 1 .. Len(v)
       PROVE  t[2 + Len(a) + i] = v[i]
  <2>1. Len(x) + i \in 1 .. Len(y) /\ 1 + (Len(x) + i) = 2 + Len(a) + i
    BY <1>1, <1>2, <1>n
  <2> QED
    BY <2>1, <1>7, <1>2
<1>12. \A i \in 1 .. Len(rest) : t[2 + Len(a) + Len(v) + i] = rest[i]
  BY <1>4, <1>5
<1> QED
  BY <1>4, <1>5, <1>6, <1>9, <1>10, <1>11, <1>12 DEF Joins

\* A parameter in the URI: its separator stands behind the first place tokens.
Written(s, place, sep, p) ==
  /\ s[place + 1] = sep
  /\ \A i \in 1 .. Len(p.name) : s[place + 1 + i] = p.name[i]
  /\ s[place + 2 + Len(p.name)] = "="
  /\ \A i \in 1 .. Len(p.value) : s[place + 2 + Len(p.name) + i] = p.value[i]

Moves(U, p, sep, par, rest) ==
  /\ Written(U, p, sep, par)
  /\ \A i \in 1 .. Len(rest) : U[p + 2 + Len(par.name) + Len(par.value) + i] = rest[i]

\* What stands at the beginning of a text stands p tokens further on in one that
\* has p tokens before it.
LEMMA TextMoves ==
  ASSUME NEW U, NEW p \in Nat, NEW t, NEW par, NEW rest, NEW sep, Written(t, 0, sep, par),
         Len(par.name) \in Nat, Len(par.value) \in Nat, Len(rest) \in Nat,
         Len(t) = 2 + Len(par.name) + Len(par.value) + Len(rest),
         \A i \in 1 .. Len(rest) : t[2 + Len(par.name) + Len(par.value) + i] = rest[i],
         \A i \in 1 .. Len(t) : U[p + i] = t[i]
  PROVE  Moves(U, p, sep, par, rest)
<1> DEFINE la == Len(par.name)
           lv == Len(par.value)
           lr == Len(rest)
           lt == Len(t)
<1>1. /\ la \in Nat /\ lv \in Nat /\ lr \in Nat /\ lt = 2 + la + lv + lr /\ p \in Nat
      /\ \A i \in 1 .. lt : U[p + i] = t[i]
      /\ t[0 + 1] = sep /\ t[0 + 2 + la] = "="
      /\ \A i \in 1 .. la : t[0 + 1 + i] = par.name[i]
      /\ \A i \in 1 .. lv : t[0 + 2 + la + i] = par.value[i]
      /\ \A i \in 1 .. lr : t[2 + la + lv + i] = rest[i]
  BY DEF Written
<1> HIDE DEF la, lv, lr, lt
<1>2. U[p + 1] = sep
  <2>1. 1 \in 1 .. lt /\ 0 + 1 = 1
    BY <1>1
  <2>2. t[0 + 1] = sep /\ U[p + 1] = t[1]
    BY <1>1, <2>1
  <2> QED
    BY <2>1, <2>2, Zenon
<1>3. U[p + 2 + la] = "="
  <2>1. 2 + la \in 1 .. lt /\ p + (2 + la) = p + 2 + la /\ 0 + 2 + la = 2 + la
    BY <1>1
  <2> QED
    BY <1>1, <2>1
<1>4. ASSUME NEW i \in 1 .. la
      PROVE  U[p + 1 + i] = par.name[i]
  <2>1. 1 + i \in 1 .. lt /\ p + (1 + i) = p + 1 + i /\ 0 + 1 + i = 1 + i
    BY <1>1
  <2> QED
    BY <1>1, <2>1
<1>5. ASSUME NEW i \in 1 .. lv
      PROVE  U[p + 2 + la + i] = par.value[i]
  <2>1. /\ 2 + la + i \in 1 .. lt /\ p + (2 + la + i) = p + 2 + la + i
        /\ 0 + 2 + la + i = 2 + la + i
    BY <1>1
  <2> QED
    BY <1>1, <2>1
<1>6. ASSUME NEW i \in 1 .. lr
      PROVE  U[p + 2 + la + lv + i] = rest[i]
  <2>1. 2 + la + lv + i \in 1 .. lt /\ p + (2 + la + lv + i) = p + 2 + la + lv + i
    BY <1>1
  <2> QED
    BY <1>1, <2>1
<1> QED
  BY <1>2, <1>3, <1>4, <1>5, <1>6 DEF Moves, Written, la, lv, lr

\* The parts of a request are texts; no name has a "=" in it, no value an "&".
LEMMA TextOfRequest ==
  ASSUME NEW r \in Requests
  PROVE  /\ Len(r.query) \in Nat /\ DOMAIN r.query = 1 .. Len(r.query)
         /\ r.path \in Seq(Tokens(r.path)) /\ r.behind \in Seq(Tokens(r.behind))
         /\ \A k \in 1 .. Len(r.query) :
              /\ r.query[k].name \in Seq(Tokens(r.query[k].name))
              /\ r.query[k].value \in Seq(Tokens(r.query[k].value))
              /\ Len(r.query[k].name) \in Nat /\ Len(r.query[k].value) \in Nat
              /\ \A i \in 1 .. Len(r.query[k].name) : r.query[k].name[i] # "="
              /\ \A i \in 1 .. Len(r.query[k].value) : r.query[k].value[i] # "&"
<1>1. Len(r.query) \in Nat /\ DOMAIN r.query = 1 .. Len(r.query)
  BY TextAssumption
<1>2. r.path \in Seq(Tokens(r.path)) /\ r.behind \in Seq(Tokens(r.behind))
  BY TextAssumption DEF IsText
<1>3. ASSUME NEW k \in 1 .. Len(r.query)
      PROVE  /\ r.query[k].name \in Seq(Tokens(r.query[k].name))
             /\ r.query[k].value \in Seq(Tokens(r.query[k].value))
             /\ Len(r.query[k].name) \in Nat /\ Len(r.query[k].value) \in Nat
             /\ \A i \in 1 .. Len(r.query[k].name) : r.query[k].name[i] # "="
             /\ \A i \in 1 .. Len(r.query[k].value) : r.query[k].value[i] # "&"
  <2>1. /\ r.query[k].name \in Seq(Tokens(r.query[k].name))
        /\ r.query[k].value \in Seq(Tokens(r.query[k].value))
        /\ "=" \notin Tokens(r.query[k].name)
        /\ "&" \notin Tokens(r.query[k].value)
    BY <1>1, TextAssumption DEF IsText
  <2>2. \A S : \A s \in Seq(S) : Len(s) \in Nat /\ DOMAIN s = 1 .. Len(s)
    OBVIOUS
  <2>3. \A i \in 1 .. Len(r.query[k].name) : r.query[k].name[i] \in Tokens(r.query[k].name)
    BY <2>1, <2>2 DEF Tokens
  <2>4. \A i \in 1 .. Len(r.query[k].value) : r.query[k].value[i] \in Tokens(r.query[k].value)
    BY <2>1, <2>2 DEF Tokens
  <2> QED
    BY <2>1, <2>2, <2>3, <2>4
<1> QED
  BY <1>1, <1>2, <1>3

Separator(k) == IF k = 1 THEN "?" ELSE "&"

\* The URI is its path and one parameter behind the other: the k-th stands behind
\* the first at[k] tokens.
LaidOut(r, at) ==
  /\ \A k \in 1 .. Len(r.query) + 1 : at[k] \in Nat
  /\ at[1] = Len(r.path) /\ at[Len(r.query) + 1] = Len(Uri(r))
  /\ \A k \in 1 .. Len(r.query) :
       /\ at[k + 1] = at[k] + 2 + Len(r.query[k].name) + Len(r.query[k].value)
       /\ Written(Uri(r), at[k], Separator(k), r.query[k])
  /\ \E S : Uri(r) \in Seq(S)
  /\ \A i \in 1 .. Len(r.path) : Uri(r)[i] = r.path[i]

\* Every URI is laid out so.
LEMMA Layout ==
  ASSUME NEW r \in Requests
  PROVE  \E at : LaidOut(r, at)
<1> DEFINE n == Len(r.query)
           U == Uri(r)
           S == {"?", "&", "="} \union Tokens(r.path)
                  \union UNION {Tokens(r.query[k].name) \union Tokens(r.query[k].value) : k \in 1 .. n}
<1>1. n \in Nat
  BY TextOfRequest
<1>2. \A A, B : A \subseteq B => Seq(A) \subseteq Seq(B)
  OBVIOUS
<1>3. /\ r.path \in Seq(S)
      /\ \A k \in 1 .. n : r.query[k].name \in Seq(S) /\ r.query[k].value \in Seq(S)
  <2>1. Tokens(r.path) \subseteq S
    OBVIOUS
  <2>2. \A k \in 1 .. n : Tokens(r.query[k].name) \subseteq S /\ Tokens(r.query[k].value) \subseteq S
    OBVIOUS
  <2> HIDE DEF S
  <2> QED
    <3>1. r.path \in Seq(S)
      BY <1>2, <2>1, TextOfRequest
    <3>2. ASSUME NEW k \in 1 .. n
          PROVE  r.query[k].name \in Seq(S) /\ r.query[k].value \in Seq(S)
      <4>1. /\ r.query[k].name \in Seq(Tokens(r.query[k].name))
            /\ r.query[k].value \in Seq(Tokens(r.query[k].value))
        BY TextOfRequest
      <4> QED
        BY <1>2, <2>2, <4>1
    <3> QED
      BY <3>1, <3>2
<1>4. \A k : Separator(k) \in S /\ "=" \in S
  BY DEF Separator
<1> HIDE DEF S
<1>5. PICK text : /\ Query(r.query) = text[1]
                  /\ \A k \in 1 .. n + 1 : text[k] = QueryFrom(r.query, text, k)
  BY <1>1, QueryRuns
<1>6. text[n + 1] = <<>>
  <2>1. n + 1 \in 1 .. n + 1 /\ n + 1 > n
    BY <1>1
  <2> QED
    BY <1>5, <2>1 DEF QueryFrom
<1>7. ASSUME NEW k \in 1 .. n
      PROVE  text[k] = <<Separator(k)>> \o (r.query[k].name \o <<"=">> \o r.query[k].value)
                         \o text[k + 1]
  <2>1. k \in 1 .. n + 1 /\ ~(k > n)
    BY <1>1
  <2> QED
    BY <1>5, <2>1 DEF QueryFrom, Parameter, Separator
<1> DEFINE Rest(k) ==
      LET name == r.query[k].name
          value == r.query[k].value
      IN  /\ Len(text[k]) = 2 + Len(name) + Len(value) + Len(text[k + 1])
          /\ Written(text[k], 0, Separator(k), r.query[k])
          /\ \A i \in 1 .. Len(text[k + 1]) :
               text[k][2 + Len(name) + Len(value) + i] = text[k + 1][i]
<1>8. ASSUME NEW k \in 1 .. n, text[k + 1] \in Seq(S)
      PROVE  text[k] \in Seq(S) /\ Rest(k)
  <2> DEFINE a == r.query[k].name
             v == r.query[k].value
  <2>1. a \in Seq(S) /\ v \in Seq(S) /\ Len(a) \in Nat /\ Len(v) \in Nat
    BY <1>3, TextOfRequest
  <2>2. text[k] = <<Separator(k)>> \o (a \o <<"=">> \o v) \o text[k + 1]
    BY <1>7
  <2>3. /\ text[k] \in Seq(S) /\ Len(text[k]) = 2 + Len(a) + Len(v) + Len(text[k + 1])
        /\ text[k][1] = Separator(k) /\ text[k][2 + Len(a)] = "="
        /\ \A i \in 1 .. Len(a) : text[k][1 + i] = a[i]
        /\ \A i \in 1 .. Len(v) : text[k][2 + Len(a) + i] = v[i]
        /\ \A i \in 1 .. Len(text[k + 1]) : text[k][2 + Len(a) + Len(v) + i] = text[k + 1][i]
    <3> DEFINE sep == Separator(k)
               t == text[k]
               rest == text[k + 1]
    <3>1. sep \in S /\ "=" \in S /\ rest \in Seq(S)
      BY <1>4, <1>8
    <3>2. t = <<sep>> \o (a \o <<"=">> \o v) \o rest
      BY <2>2
    <3> HIDE DEF a, v, sep, t, rest
    <3>3. t \in Seq(S) /\ Joins(t, sep, a, "=", v, rest)
      BY <2>1, <3>1, <3>2, Pieces
    <3> QED
      BY <3>3 DEF sep, t, rest, Joins
  <2>4. 0 + 1 = 1 /\ 0 + 2 + Len(a) = 2 + Len(a)
    BY <2>1
  <2>5. \A i \in Nat : 0 + 1 + i = 1 + i /\ 0 + 2 + Len(a) + i = 2 + Len(a) + i
    BY <2>1
  <2>6. Written(text[k], 0, Separator(k), r.query[k])
    <3>1. \A i \in 1 .. Len(a) : text[k][0 + 1 + i] = a[i]
      BY <2>1, <2>3, <2>5
    <3>2. \A i \in 1 .. Len(v) : text[k][0 + 2 + Len(a) + i] = v[i]
      BY <2>1, <2>3, <2>5
    <3> QED
      BY <2>3, <2>4, <3>1, <3>2 DEF Written
  <2> QED
    BY <2>3, <2>6
<1>9. ASSUME NEW k \in 1 .. n + 1
      PROVE  text[k] \in Seq(S)
  <2> DEFINE T == {m \in Nat : m <= n => text[n + 1 - m] \in Seq(S)}
  <2>1. ASSUME NEW m \in Nat, 0 .. m - 1 \subseteq T, m <= n
        PROVE  text[n + 1 - m] \in Seq(S)
    <3>1. CASE m = 0
      <4>1. n + 1 - m = n + 1 /\ <<>> \in Seq(S)
        BY <1>1, <3>1
      <4> HIDE DEF T, Rest, n
      <4> QED
        BY <1>6, <4>1
    <3>2. CASE m # 0
      <4>1. m - 1 \in 0 .. m - 1 /\ m - 1 <= n
        BY <1>1, <2>1, <3>2
      <4>2. n + 1 - (m - 1) = (n + 1 - m) + 1 /\ n + 1 - m \in 1 .. n
        BY <1>1, <2>1, <3>2
      <4>3. text[n + 1 - (m - 1)] \in Seq(S)
        BY <2>1, <4>1
      <4> HIDE DEF Rest
      <4> QED
        BY <1>8, <4>2, <4>3
    <3> QED
      BY <3>1, <3>2
  <2>2. \A m \in Nat : 0 .. m - 1 \subseteq T => m \in T
    BY <2>1
  <2>3. T \in SUBSET Nat
    OBVIOUS
  <2>4. n + 1 - k \in T
    <3>1. T = Nat
      <4> HIDE DEF T
      <4> QED
        BY <2>2, <2>3, Induction
    <3> HIDE DEF T
    <3> QED
      BY <1>1, <3>1
  <2>5. n + 1 - (n + 1 - k) = k /\ n + 1 - k <= n
    BY <1>1
  <2> QED
    BY <2>4, <2>5
<1>10. \A k \in 1 .. n : Rest(k)
  <2> HIDE DEF Rest
  <2> QED
    BY <1>1, <1>8, <1>9
<1>11. \A k \in 1 .. n + 1 : Len(text[k]) \in Nat
  BY <1>9
<1>12. U = r.path \o text[1] /\ 1 \in 1 .. n + 1
  BY <1>1, <1>5 DEF Uri
<1>13. /\ U \in Seq(S) /\ Len(U) = Len(r.path) + Len(text[1])
       /\ Len(r.path) \in Nat /\ Len(U) \in Nat
       /\ \A i \in 1 .. Len(r.path) : U[i] = r.path[i]
       /\ \A i \in 1 .. Len(text[1]) : U[Len(r.path) + i] = text[1][i]
  <2>1. ASSUME NEW b \in Seq(S), NEW c \in Seq(S)
        PROVE  /\ b \o c \in Seq(S) /\ Len(b \o c) = Len(b) + Len(c)
               /\ Len(b) \in Nat /\ Len(b \o c) \in Nat
               /\ \A i \in 1 .. Len(b) : (b \o c)[i] = b[i]
               /\ \A i \in 1 .. Len(c) : (b \o c)[Len(b) + i] = c[i]
    OBVIOUS
  <2>2. text[1] \in Seq(S)
    BY <1>9, <1>12
  <2> HIDE DEF Rest, U
  <2> QED
    BY <1>3, <1>12, <2>1, <2>2
<1> HIDE DEF U
<1> DEFINE place == [k \in 1 .. n + 1 |-> Len(U) - Len(text[k])]
           Behind(k) == /\ place[k] \in Nat
                        /\ \A i \in 1 .. Len(text[k]) : U[place[k] + i] = text[k][i]
<1>14. ASSUME NEW k \in 1 .. n, Behind(k)
       PROVE  /\ Behind(k + 1)
              /\ place[k + 1] = place[k] + 2 + Len(r.query[k].name) + Len(r.query[k].value)
              /\ Written(U, place[k], Separator(k), r.query[k])
  <2> DEFINE a == r.query[k].name
             v == r.query[k].value
             p == place[k]
  <2>1. Len(a) \in Nat /\ Len(v) \in Nat
    BY TextOfRequest
  <2>2. /\ Len(text[k]) = 2 + Len(a) + Len(v) + Len(text[k + 1])
        /\ text[k][0 + 1] = Separator(k)
        /\ \A i \in 1 .. Len(a) : text[k][0 + 1 + i] = a[i]
        /\ text[k][0 + 2 + Len(a)] = "="
        /\ \A i \in 1 .. Len(v) : text[k][0 + 2 + Len(a) + i] = v[i]
        /\ \A i \in 1 .. Len(text[k + 1]) : text[k][2 + Len(a) + Len(v) + i] = text[k + 1][i]
    BY <1>10 DEF Written
  <2>3. k \in 1 .. n + 1 /\ k + 1 \in 1 .. n + 1
    BY <1>1
  <2>4. /\ Len(text[k]) \in Nat /\ Len(text[k + 1]) \in Nat /\ Len(U) \in Nat
        /\ place[k] = Len(U) - Len(text[k]) /\ place[k + 1] = Len(U) - Len(text[k + 1])
    BY <1>11, <1>13, <2>3
  <2>5. p \in Nat /\ \A i \in 1 .. Len(text[k]) : U[p + i] = text[k][i]
    BY <1>14
  <2> HIDE DEF place, Rest, Behind
  <2>6. place[k + 1] = p + 2 + Len(a) + Len(v)
    BY <2>1, <2>2, <2>4
  <2> HIDE DEF a, v, p, Behind, Rest
  <2>7. /\ Written(U, p, Separator(k), r.query[k])
        /\ \A i \in 1 .. Len(text[k + 1]) :
             U[p + 2 + Len(r.query[k].name) + Len(r.query[k].value) + i] = text[k + 1][i]
    <3> DEFINE t == text[k]
               rest == text[k + 1]
               par == r.query[k]
               sep == Separator(k)
    <3>1. /\ Written(t, 0, sep, par)
          /\ Len(par.name) \in Nat /\ Len(par.value) \in Nat /\ Len(rest) \in Nat
          /\ Len(t) = 2 + Len(par.name) + Len(par.value) + Len(rest)
          /\ \A i \in 1 .. Len(rest) : t[2 + Len(par.name) + Len(par.value) + i] = rest[i]
      BY <1>10, <2>1, <2>2, <2>4 DEF a, v, Rest
    <3>2. p \in Nat /\ \A i \in 1 .. Len(t) : U[p + i] = t[i]
      BY <2>5
    <3> HIDE DEF t, rest, par, sep
    <3>3. Moves(U, p, sep, par, rest)
      BY <3>1, <3>2, TextMoves
    <3> QED
      BY <3>3 DEF t, rest, par, sep, Moves
  <2>12. place[k + 1] \in Nat
    BY <2>1, <2>5, <2>6
  <2>13. \A i \in 1 .. Len(text[k + 1]) : U[place[k + 1] + i] = text[k + 1][i]
    BY <2>6, <2>7 DEF a, v
  <2> QED
    BY <2>6, <2>7, <2>12, <2>13 DEF a, v, p, Behind
<1>15. ASSUME NEW k \in 1 .. n + 1
       PROVE  Behind(k)
  <2> DEFINE T == {m \in Nat : m <= n => Behind(m + 1)}
  <2>1. Behind(1)
    <3>1. place[1] = Len(r.path)
      BY <1>11, <1>12, <1>13
    <3> HIDE DEF place
    <3> QED
      BY <1>13, <3>1
  <2>2. ASSUME NEW m \in Nat, 0 .. m - 1 \subseteq T, m <= n
        PROVE  Behind(m + 1)
    <3>1. CASE m = 0
      <4>1. m + 1 = 1
        BY <3>1
      <4> HIDE DEF Behind
      <4> QED
        BY <2>1, <4>1
    <3>2. CASE m # 0
      <4>1. m - 1 \in 0 .. m - 1 /\ m - 1 <= n /\ (m - 1) + 1 = m /\ m \in 1 .. n
        BY <1>1, <2>2, <3>2
      <4> HIDE DEF Behind
      <4>2. Behind(m)
        BY <2>2, <4>1
      <4> QED
        BY <1>14, <4>1, <4>2
    <3> QED
      BY <3>1, <3>2
  <2> HIDE DEF Behind
  <2>3. \A m \in Nat : 0 .. m - 1 \subseteq T => m \in T
    BY <2>2
  <2>4. T \in SUBSET Nat
    OBVIOUS
  <2>5. k - 1 \in T
    <3>1. T = Nat
      <4> HIDE DEF T
      <4> QED
        BY <2>3, <2>4, Induction
    <3> HIDE DEF T
    <3> QED
      BY <1>1, <3>1
  <2>6. (k - 1) + 1 = k /\ k - 1 <= n
    BY <1>1
  <2> QED
    BY <2>5, <2>6
<1>16. place[1] = Len(r.path) /\ place[n + 1] = Len(U)
  <2>1. n + 1 \in 1 .. n + 1
    BY <1>1
  <2>2. place[n + 1] = Len(U) - Len(text[n + 1]) /\ place[1] = Len(U) - Len(text[1])
    BY <1>12, <2>1
  <2>3. Len(text[n + 1]) = 0 /\ Len(text[1]) \in Nat
    BY <1>6, <1>11, <1>12
  <2> HIDE DEF place
  <2> QED
    BY <1>13, <2>2, <2>3
<1>17. \A k \in 1 .. n :
         /\ place[k + 1] = place[k] + 2 + Len(r.query[k].name) + Len(r.query[k].value)
         /\ Written(U, place[k], Separator(k), r.query[k])
  <2> SUFFICES ASSUME NEW k \in 1 .. n
               PROVE  /\ place[k + 1] = place[k] + 2 + Len(r.query[k].name) + Len(r.query[k].value)
                      /\ Written(U, place[k], Separator(k), r.query[k])
    OBVIOUS
  <2> HIDE DEF Behind, place, Rest
  <2>1. k \in 1 .. n + 1
    BY <1>1
  <2>2. Behind(k)
    BY <1>15, <2>1
  <2> QED
    BY <1>14, <2>2
<1>18. \A k \in 1 .. n + 1 : place[k] \in Nat
  BY <1>15
<1> HIDE DEF place
<1>19. \E S2 : U \in Seq(S2)
  BY <1>13
<1>20. LaidOut(r, place)
  BY <1>13, <1>16, <1>17, <1>18, <1>19 DEF U, LaidOut
<1> QED
  BY <1>20

\* The parameters fill the text from the end of the path to the end of the URI.
LEMMA Covered ==
  ASSUME NEW n \in Nat, NEW place,
         \A k \in 1 .. n + 1 : place[k] \in Nat,
         NEW i \in Nat, place[1] < i, i <= place[n + 1]
  PROVE  \E k \in 1 .. n : place[k] < i /\ i <= place[k + 1]
<1> DEFINE T == {k \in Nat : k \in 1 .. n + 1 /\ i <= place[k]}
<1>1. n + 1 \in T /\ T \in SUBSET Nat
  OBVIOUS
<1>2. PICK k \in T : \A j \in T : k <= j
  BY <1>1, Least
<1>3. k \in 1 .. n + 1 /\ i <= place[k] /\ k # 1
  BY <1>2
<1>4. k - 1 \in 1 .. n /\ k - 1 \in 1 .. n + 1 /\ (k - 1) + 1 = k
  BY <1>3
<1>5. k - 1 \notin T
  <2> HIDE DEF T
  <2> QED
    BY <1>2, <1>3
<1>6. place[k - 1] < i
  BY <1>4, <1>5
<1> QED
  BY <1>3, <1>4, <1>6

\* What lies behind the URI follows it.
LEMMA StreamFacts ==
  ASSUME NEW r \in Requests, NEW S, Uri(r) \in Seq(S)
  PROVE  /\ Stream(r) \in Seq(S \union Tokens(r.behind))
         /\ Len(Stream(r)) = Len(Uri(r)) + Len(r.behind)
         /\ \A i \in 1 .. Len(Uri(r)) : Stream(r)[i] = Uri(r)[i]
         /\ \A i \in 1 .. Len(r.behind) : Stream(r)[Len(Uri(r)) + i] = r.behind[i]
<1>1. \A A, B : \A a \in Seq(A), b \in Seq(B) :
        /\ a \o b \in Seq(A \union B) /\ Len(a \o b) = Len(a) + Len(b)
        /\ \A i \in 1 .. Len(a) : (a \o b)[i] = a[i]
        /\ \A i \in 1 .. Len(b) : (a \o b)[Len(a) + i] = b[i]
  <2> SUFFICES ASSUME NEW A, NEW B, NEW a \in Seq(A), NEW b \in Seq(B)
               PROVE  /\ a \o b \in Seq(A \union B) /\ Len(a \o b) = Len(a) + Len(b)
                      /\ \A i \in 1 .. Len(a) : (a \o b)[i] = a[i]
                      /\ \A i \in 1 .. Len(b) : (a \o b)[Len(a) + i] = b[i]
    OBVIOUS
  <2>1. a \in Seq(A \union B) /\ b \in Seq(A \union B)
    OBVIOUS
  <2> QED
    BY <2>1
<1>2. r.behind \in Seq(Tokens(r.behind))
  BY TextOfRequest
<1> QED
  BY <1>1, <1>2 DEF Stream

\* A search that finds nothing has no place to stop at.
LEMMA NowhereFound ==
  ASSUME NEW t, Len(t) \in Nat, NEW name, Strstr(t, 1, <<name, "=">>) = 0,
         NEW p \in Nat, p >= 1, p + 1 <= Len(t), t[p] = name, t[p + 1] = "="
  PROVE  FALSE
<1> DEFINE tokens == <<name, "=">>
           found == Places(t, 1, tokens)
<1>1. Len(tokens) = 2 /\ DOMAIN tokens = {1, 2} /\ tokens[1] = name /\ tokens[2] = "="
  OBVIOUS
<1>2. p \in 1 .. Len(t) - Len(tokens) + 1 /\ p + 1 - 1 = p /\ p + 2 - 1 = p + 1
  BY <1>1
<1>3. Strstr(t, 1, tokens) = 0
  OBVIOUS
<1> HIDE DEF tokens
<1>4. p \in found
  BY <1>1, <1>2 DEF Places
<1> HIDE DEF found
<1>5. found = {}
  BY <1>1, <1>3, StrstrFacts DEF found
<1> QED
  BY <1>4, <1>5

\* A parameter stands behind those before it.
LEMMA Monotone ==
  ASSUME NEW n \in Nat, NEW at,
         \A k \in 1 .. n + 1 : at[k] \in Nat,
         \A k \in 1 .. n : at[k] <= at[k + 1],
         NEW i \in 1 .. n + 1, NEW j \in i .. n + 1
  PROVE  at[i] <= at[j]
<1> DEFINE T == {k \in Nat : i + k <= n + 1 => at[i] <= at[i + k]}
<1>1. ASSUME NEW k \in Nat, 0 .. k - 1 \subseteq T, i + k <= n + 1
      PROVE  at[i] <= at[i + k]
  <2>1. CASE k = 0
    BY <2>1
  <2>2. CASE k # 0
    <3>1. /\ k - 1 \in 0 .. k - 1 /\ i + (k - 1) <= n + 1 /\ i + (k - 1) \in 1 .. n
          /\ (i + (k - 1)) + 1 = i + k
          /\ i + (k - 1) \in 1 .. n + 1 /\ i \in 1 .. n + 1 /\ i + k \in 1 .. n + 1
      BY <1>1, <2>2
    <3>2. at[i] <= at[i + (k - 1)]
      BY <1>1, <3>1
    <3>3. at[i + (k - 1)] <= at[i + k]
      BY <3>1
    <3>4. at[i + (k - 1)] \in Nat /\ at[i + k] \in Nat /\ at[i] \in Nat
      BY <3>1
    <3> QED
      BY <3>2, <3>3, <3>4
  <2> QED
    BY <2>1, <2>2
<1>2. T \in SUBSET Nat /\ \A k \in Nat : 0 .. k - 1 \subseteq T => k \in T
  BY <1>1
<1>3. j - i \in T
  <2>1. j - i \in Nat
    OBVIOUS
  <2>2. T = Nat
    <3> HIDE DEF T
    <3> QED
      BY <1>2, Induction
  <2> HIDE DEF T
  <2> QED
    BY <2>1, <2>2
<1>4. i + (j - i) = j /\ j <= n + 1
  OBVIOUS
<1> QED
  BY <1>3, <1>4

\* Where the next "&" is.
LEMMA NextSeparator ==
  ASSUME NEW s, Len(s) \in Nat, NEW start \in Nat, start >= 1
  PROVE  /\ (\A i \in start .. Len(s) : s[i] # "&") => Strstr(s, start, <<"&">>) = 0
         /\ \A e \in start .. Len(s) :
              (s[e] = "&" /\ \A i \in start .. e - 1 : s[i] # "&") =>
                Strstr(s, start, <<"&">>) = e
<1> DEFINE tokens == <<"&">>
           found == Places(s, start, tokens)
<1>1. Len(tokens) = 1 /\ DOMAIN tokens = {1} /\ tokens[1] = "&"
  OBVIOUS
<1>2. ASSUME NEW k
      PROVE  k \in found <=> k \in start .. Len(s) /\ s[k] = "&"
  <2> HIDE DEF tokens
  <2>1. Len(s) - Len(tokens) + 1 = Len(s)
    BY <1>1
  <2>2. k \in found <=> k \in start .. Len(s) /\ s[k + 1 - 1] = "&"
    BY <1>1, <2>1 DEF Places
  <2>3. k \in start .. Len(s) => k + 1 - 1 = k
    OBVIOUS
  <2> HIDE DEF found
  <2> QED
    BY <2>2, <2>3
<1> HIDE DEF tokens
<1>3. /\ found = {} => Strstr(s, start, tokens) = 0
      /\ \A e \in found : (\A k \in found : e <= k) => Strstr(s, start, tokens) = e
  BY <1>1, StrstrFacts
<1> HIDE DEF found
<1>5. ASSUME NEW e \in start .. Len(s), s[e] = "&", \A i \in start .. e - 1 : s[i] # "&"
      PROVE  Strstr(s, start, tokens) = e
  <2>1. e \in Nat /\ e \in found
    BY <1>2, <1>5
  <2>2. \A k \in found : e <= k
    BY <1>2, <1>5
  <2> QED
    BY <1>3, <2>1, <2>2
<1>6. ASSUME \A i \in start .. Len(s) : s[i] # "&"
      PROVE  Strstr(s, start, tokens) = 0
  <2>1. \A k : k \notin found
    BY <1>2, <1>6
  <2> QED
    BY <1>3, <2>1
<1> QED
  BY <1>5, <1>6 DEF tokens

\* Tokens of a text are those of a part of it.
LEMMA PartIs ==
  ASSUME NEW S, NEW s \in Seq(S), NEW V, NEW v \in Seq(V), NEW start \in Nat, start >= 1,
         start + Len(v) - 1 <= Len(s),
         \A i \in 1 .. Len(v) : s[start - 1 + i] = v[i]
  PROVE  SubSeq(s, start, start + Len(v) - 1) = v
<1> DEFINE lv == Len(v)
           part == SubSeq(s, start, start + lv - 1)
<1>1. lv \in Nat /\ v = [i \in 1 .. lv |-> v[i]]
  OBVIOUS
<1>2. part = [i \in 1 .. lv |-> s[start - 1 + i]]
  <2>1. /\ part \in Seq(S) /\ Len(part) = lv
        /\ \A i \in 1 .. lv : part[i] = s[start - 1 + i]
    <3> HIDE DEF lv
    <3>1. start + lv - 1 <= Len(s) /\ lv \in Nat
      BY <1>1 DEF lv
    <3>2. CASE lv = 0
      <4>1. start + lv - 1 < start
        BY <3>2
      <4> QED
        BY <3>2, <4>1
    <3>3. CASE lv # 0
      BY <3>1, <3>3
    <3> QED
      BY <3>2, <3>3
  <2>2. part = [i \in 1 .. lv |-> part[i]]
    BY <2>1
  <2> HIDE DEF part, lv
  <2> QED
    BY <2>1, <2>2
<1> HIDE DEF part, lv
<1>3. \A i \in 1 .. lv : s[start - 1 + i] = v[i]
  BY DEF lv
<1>4. part = v
  BY <1>1, <1>2, <1>3
<1> QED
  BY <1>4 DEF part, lv

Searched == {"img_id", "name", "res"}

\* Where "name=" stands in the text: in the path, at a parameter whose name ends
\* in this one, or behind the URI.
LEMMA WhereFound ==
  ASSUME NEW r \in Requests, NEW name \in Searched, NEW place,
         LaidOut(r, place),
         \A k \in DOMAIN r.query : "=" \notin Tokens(r.query[k].value),
         NEW p \in Nat, p >= 1, Stream(r)[p] = name, Stream(r)[p + 1] = "=",
         p + 1 <= Len(Stream(r))
  PROVE  \/ p + 1 <= Len(r.path)
         \/ p > Len(Uri(r))
         \/ \E k \in 1 .. Len(r.query) :
              /\ p + 1 = place[k] + 2 + Len(r.query[k].name)
              /\ r.query[k].name[Len(r.query[k].name)] = name
              /\ Len(r.query[k].name) >= 1
<1> DEFINE n == Len(r.query)
           U == Uri(r)
<1>l. /\ \A k \in 1 .. n + 1 : place[k] \in Nat
      /\ place[1] = Len(r.path) /\ place[n + 1] = Len(U)
      /\ \A k \in 1 .. n :
           /\ place[k + 1] = place[k] + 2 + Len(r.query[k].name) + Len(r.query[k].value)
           /\ Written(U, place[k], Separator(k), r.query[k])
  BY DEF LaidOut
<1>s. PICK S : U \in Seq(S)
  BY DEF LaidOut
<1>q. \A k \in 1 .. n : k \in 1 .. Len(r.query)
  OBVIOUS
<1>1. n \in Nat /\ Len(U) \in Nat /\ Len(r.path) \in Nat /\ Len(r.behind) \in Nat
  <2>1. \A A : \A s \in Seq(A) : Len(s) \in Nat
    OBVIOUS
  <2>2. n \in Nat /\ r.path \in Seq(Tokens(r.path)) /\ r.behind \in Seq(Tokens(r.behind))
    BY TextOfRequest
  <2> QED
    BY <1>s, <2>1, <2>2
<1>2. /\ Len(Stream(r)) = Len(U) + Len(r.behind)
      /\ \A i \in 1 .. Len(U) : Stream(r)[i] = U[i]
      /\ \A i \in 1 .. Len(r.behind) : Stream(r)[Len(U) + i] = r.behind[i]
  BY <1>s, StreamFacts
<1>3. CASE p = Len(U)
  <2>1. 1 \in 1 .. Len(r.behind) /\ p + 1 = Len(U) + 1
    BY <1>1, <1>2, <1>3
  <2>2. r.behind[1] = "="
    BY <1>2, <2>1
  <2>3. r.behind # <<>>
    BY <2>1
  <2> QED
    BY <2>2, <2>3, TextAssumption
<1>4. CASE p < Len(U) /\ p + 1 > Len(r.path)
  <2>0. p \in 1 .. Len(U) /\ p + 1 \in 1 .. Len(U)
    BY <1>1, <1>4
  <2>1. U[p] = name /\ U[p + 1] = "="
    <3> DEFINE q == p + 1
               s == Stream(r)
    <3>1. s[q] = "=" /\ s[p] = name /\ q \in 1 .. Len(U)
      BY <2>0
    <3>2. \A i \in 1 .. Len(U) : s[i] = U[i]
      BY <1>2
    <3> HIDE DEF q, s
    <3>3. U[q] = "=" /\ U[p] = name
      BY <2>0, <3>1, <3>2
    <3> QED
      BY <3>3 DEF q
  <2>2. PICK k \in 1 .. n : place[k] < p + 1 /\ p + 1 <= place[k + 1]
    <3> DEFINE i == p + 1
    <3>1. i \in Nat /\ place[1] < i /\ i <= place[n + 1]
      BY <1>l, <1>1, <1>4
    <3> HIDE DEF i, n
    <3>2. \E k \in 1 .. n : place[k] < i /\ i <= place[k + 1]
      BY <1>l, <1>1, <3>1, Covered
    <3> QED
      BY <3>2 DEF i
  <2> DEFINE a == r.query[k].name
             v == r.query[k].value
             i == p + 1 - place[k]
  <2>3. /\ Len(a) \in Nat /\ Len(v) \in Nat /\ place[k] \in Nat
        /\ \A j \in 1 .. Len(a) : a[j] # "="
        /\ \A j \in 1 .. Len(v) : v[j] # "="
    <3>1. k \in 1 .. Len(r.query) /\ k \in 1 .. n + 1
      BY <1>1
    <3>2. /\ Len(a) \in Nat /\ Len(v) \in Nat /\ place[k] \in Nat
          /\ \A j \in 1 .. Len(a) : a[j] # "=" /\ v \in Seq(Tokens(v))
      BY <1>l, <3>1, TextOfRequest
    <3>3. "=" \notin Tokens(v) /\ v \in Seq(Tokens(v))
      BY <3>1, TextOfRequest
    <3>4. \A j \in 1 .. Len(v) : v[j] \in Tokens(v)
      BY <3>3 DEF Tokens
    <3> QED
      BY <3>2, <3>3, <3>4
  <2>4. /\ place[k + 1] = place[k] + 2 + Len(a) + Len(v)
        /\ Written(U, place[k], Separator(k), r.query[k])
    BY <1>l
  <2> DEFINE la == Len(a)
             lv == Len(v)
             q == place[k]
             sep == Separator(k)
  <2>5. /\ la \in Nat /\ lv \in Nat /\ q \in Nat
        /\ q < p + 1 /\ p + 1 <= q + 2 + la + lv
        /\ U[q + 1] = sep /\ U[q + 2 + la] = "="
        /\ \A j \in 1 .. la : U[q + 1 + j] = a[j] /\ a[j] # "="
        /\ \A j \in 1 .. lv : U[q + 2 + la + j] = v[j] /\ v[j] # "="
    BY <2>2, <2>3, <2>4 DEF Written
  <2>6. sep # "=" /\ sep # name
    BY DEF Separator, Searched
  <2> HIDE DEF a, v, la, lv, q, sep
  <2>7. p + 1 = q + 2 + la
    <3>1. p + 1 # q + 1
      BY <2>1, <2>5, <2>6
    <3>2. ASSUME p + 1 \in q + 2 .. q + 1 + la
          PROVE  FALSE
      <4> DEFINE j == p - q
      <4>1. j \in 1 .. la /\ q + 1 + j = p + 1
        BY <2>5, <3>2
      <4> HIDE DEF j
      <4> QED
        BY <2>1, <2>5, <4>1
    <3>3. ASSUME p + 1 > q + 2 + la
          PROVE  FALSE
      <4> DEFINE j == p - q - 1 - la
      <4>1. j \in 1 .. lv /\ q + 2 + la + j = p + 1
        BY <2>5, <3>3
      <4> HIDE DEF j
      <4> QED
        BY <2>1, <2>5, <4>1
    <3>4. p + 1 = q + 1 \/ p + 1 \in q + 2 .. q + 1 + la \/ p + 1 = q + 2 + la \/ p + 1 > q + 2 + la
      BY <2>5
    <3> QED
      BY <3>1, <3>2, <3>3, <3>4
  <2>8. la >= 1
    <3> SUFFICES ASSUME la = 0
                 PROVE  FALSE
      BY <2>5
    <3>1. p = q + 1
      BY <2>5, <2>7
    <3> QED
      BY <2>1, <2>5, <2>6, <3>1
  <2>9. a[la] = name
    <3>1. la \in 1 .. la /\ q + 1 + la = p
      BY <2>5, <2>7, <2>8
    <3> QED
      BY <2>1, <2>5, <3>1
  <2> QED
    BY <2>7, <2>8, <2>9 DEF a, la, q
<1> QED
  BY <1>1, <1>3, <1>4

\* In a request that is clear http_get_var finds what the client means.
LEMMA GotIsMeant ==
  ASSUME NEW r \in Requests, NEW name \in Searched, NEW max \in Nat, Clear(r, name)
  PROVE  GetVar(r, name, max) = Meant(r, name, max)
<1> DEFINE n == Len(r.query)
           U == Uri(r)
           s == Stream(r)
           tokens == <<name, "=">>
           found == Places(s, 1, tokens)
           place == Strstr(s, 1, tokens)
<1>l. PICK at : LaidOut(r, at)
  BY Layout
<1>1. /\ \A k \in 1 .. n + 1 : at[k] \in Nat
      /\ at[1] = Len(r.path) /\ at[n + 1] = Len(U)
      /\ \A k \in 1 .. n :
           /\ at[k + 1] = at[k] + 2 + Len(r.query[k].name) + Len(r.query[k].value)
           /\ Written(U, at[k], Separator(k), r.query[k])
      /\ \E S : U \in Seq(S)
      /\ \A i \in 1 .. Len(r.path) : U[i] = r.path[i]
  BY <1>l DEF LaidOut
<1>2. PICK S : U \in Seq(S)
  BY <1>1
<1>3. /\ n \in Nat /\ DOMAIN r.query = 1 .. n
      /\ Len(U) \in Nat /\ Len(r.path) \in Nat /\ Len(r.behind) \in Nat
  <2>1. \A A : \A t \in Seq(A) : Len(t) \in Nat
    OBVIOUS
  <2>2. /\ n \in Nat /\ DOMAIN r.query = 1 .. n
        /\ r.path \in Seq(Tokens(r.path)) /\ r.behind \in Seq(Tokens(r.behind))
    BY TextOfRequest
  <2> QED
    BY <1>2, <2>1, <2>2
<1>4. /\ Len(s) = Len(U) + Len(r.behind)
      /\ \A i \in 1 .. Len(U) : s[i] = U[i]
      /\ \A i \in 1 .. Len(r.behind) : s[Len(U) + i] = r.behind[i]
  BY <1>2, StreamFacts
<1>5. /\ Len(tokens) = 2 /\ DOMAIN tokens = {1, 2} /\ tokens[1] = name /\ tokens[2] = "="
      /\ Len(s) \in Nat
  BY <1>3, <1>4
<1>m. /\ \A k \in 1 .. n : at[k] <= at[k + 1]
      /\ 1 \in 1 .. n + 1 /\ n + 1 \in 1 .. n + 1
  <2> SUFFICES ASSUME NEW k \in 1 .. n
               PROVE  at[k] <= at[k + 1]
    BY <1>3
  <2> DEFINE la == Len(r.query[k].name)
             lv == Len(r.query[k].value)
             from == at[k]
             to == at[k + 1]
  <2>1. la \in Nat /\ lv \in Nat /\ from \in Nat /\ to = from + 2 + la + lv
    <3>1. k \in 1 .. n + 1
      BY <1>3
    <3> QED
      BY <1>1, <3>1, TextOfRequest
  <2> HIDE DEF la, lv, from, to
  <2>2. from <= to
    BY <2>1
  <2> QED
    BY <2>2 DEF from, to
<1>u. place = Strstr(s, 1, tokens)
  BY DEF s, tokens
<1> HIDE DEF s, tokens
<1> DEFINE start == place + 2
           amp   == Strstr(s, start, <<"&">>)
           end   == IF amp = 0 THEN Len(U) + 1 ELSE amp
           size  == end - start
<1>g. GetVar(r, name, max) =
        IF place = 0 THEN Absent
        ELSE IF size < 0 \/ size > max THEN Overlong
        ELSE IF size = 0 THEN Absent
        ELSE SubSeq(s, start, end - 1)
  BY DEF GetVar, s, tokens
<1>p. /\ found = {} => place = 0
      /\ \A q \in found : (\A k \in found : q <= k) => place = q
  BY <1>5, StrstrFacts
<1> HIDE DEF place
\* A place where "name=" stands.
<1>6. ASSUME NEW p
      PROVE  p \in found <=> p \in 1 .. Len(s) - 1 /\ s[p] = name /\ s[p + 1] = "="
  <2>1. p \in found <=> /\ p \in 1 .. Len(s) - 1
                        /\ s[p + 1 - 1] = tokens[1] /\ s[p + 2 - 1] = tokens[2]
    <3>1. Len(s) - Len(tokens) + 1 = Len(s) - 1
      BY <1>5
    <3> QED
      BY <1>5, <3>1 DEF Places
  <2>2. p \in 1 .. Len(s) - 1 => p + 1 - 1 = p /\ p + 2 - 1 = p + 1
    BY <1>5
  <2> HIDE DEF found
  <2> QED
    BY <1>5, <2>1, <2>2
<1> HIDE DEF found
<1>7. ASSUME NEW p \in found
      PROVE  \/ p > Len(U)
             \/ \E k \in 1 .. n :
                  /\ p + 1 = at[k] + 2 + Len(r.query[k].name)
                  /\ r.query[k].name[Len(r.query[k].name)] = name
                  /\ Len(r.query[k].name) >= 1
  <2>1. /\ p \in Nat /\ p >= 1 /\ p + 1 <= Len(s)
        /\ s[p] = name /\ s[p + 1] = "="
    BY <1>5, <1>6
  <2>2. ~(p + 1 <= Len(r.path))
    <3> SUFFICES ASSUME p + 1 <= Len(r.path)
                 PROVE  FALSE
      OBVIOUS
    <3>1. p \in 1 .. Len(r.path) /\ p + 1 \in 1 .. Len(r.path) /\ Len(r.path) <= Len(U)
      <4>1. at[1] <= at[n + 1]
        BY <1>1, <1>3, <1>m, Monotone
      <4> QED
        BY <1>1, <1>3, <2>1, <4>1
    <3>2. r.path[p] = name /\ r.path[p + 1] = "="
      <4> DEFINE q == p + 1
      <4>1. s[q] = "=" /\ s[p] = name /\ q \in 1 .. Len(r.path)
        BY <2>1, <3>1
      <4>2. q \in 1 .. Len(U) /\ p \in 1 .. Len(U)
        BY <1>3, <3>1
      <4> HIDE DEF q
      <4>3. r.path[q] = "=" /\ r.path[p] = name
        BY <1>1, <1>4, <3>1, <4>1, <4>2
      <4> QED
        BY <4>3 DEF q
    <3>3. Strstr(r.path, 1, <<name, "=">>) = 0
      BY DEF Clear
    <3> QED
      BY <1>3, <2>1, <3>1, <3>2, <3>3, NowhereFound
  <2>3. \A k \in DOMAIN r.query : "=" \notin Tokens(r.query[k].value)
    BY DEF Clear
  <2> QED
    BY <1>l, <2>1, <2>2, <2>3, WhereFound DEF s
<1>8. CASE Given(r, name) = {}
  <2>1. ASSUME NEW p \in found
        PROVE  FALSE
    <3>1. /\ p \in Nat /\ p >= 1 /\ p + 1 <= Len(s)
          /\ s[p] = name /\ s[p + 1] = "="
      BY <1>5, <1>6
    <3>2. /\ \A k \in 1 .. n : r.query[k].name[Len(r.query[k].name)] # name
          /\ Strstr(r.behind, 1, <<name, "=">>) = 0
      BY <1>3, <1>8 DEF Clear
    <3>3. p > Len(U)
      BY <1>7, <3>2
    <3> DEFINE m == p - Len(U)
    <3>4. /\ m \in Nat /\ m >= 1 /\ m + 1 <= Len(r.behind)
          /\ Len(U) + m = p /\ Len(U) + (m + 1) = p + 1
      BY <1>3, <1>4, <3>1, <3>3
    <3> HIDE DEF m
    <3>5. m \in 1 .. Len(r.behind) /\ m + 1 \in 1 .. Len(r.behind)
      BY <1>3, <3>4
    <3>6. r.behind[m] = name
      BY <1>4, <3>1, <3>4, <3>5
    <3>7. r.behind[m + 1] = "="
      BY <1>4, <3>1, <3>4, <3>5
    <3> QED
      BY <1>3, <3>2, <3>4, <3>6, <3>7, NowhereFound
  <2>2. place = 0
    BY <1>p, <2>1
  <2> QED
    BY <1>8, <1>g, <2>2 DEF Meant
<1>9. CASE Given(r, name) # {}
  <2> DEFINE f == FirstGiven(r, name)
             v == r.query[f].value
             lv == Len(v)
  <2>1. f \in Given(r, name) /\ \A k \in Given(r, name) : f <= k
    <3>1. Given(r, name) \in SUBSET Nat
      BY <1>3 DEF Given
    <3>2. \E k \in Given(r, name) : \A j \in Given(r, name) : k <= j
      BY <1>9, <3>1, Least
    <3> QED
      BY <3>2 DEF FirstGiven
  <2>2. /\ f \in 1 .. n /\ r.query[f].name = <<name>>
        /\ v \in Seq(Tokens(v)) /\ lv \in Nat
        /\ \A i \in 1 .. lv : v[i] # "&"
    <3>1. f \in 1 .. n /\ r.query[f].name = <<name>>
      BY <1>3, <2>1 DEF Given
    <3> HIDE DEF f
    <3> QED
      BY <3>1, TextOfRequest
  <2>3. \A k \in 1 .. n : r.query[k].name[Len(r.query[k].name)] = name => f <= k
    <3>1. \A k \in 1 .. f - 1 : r.query[k].name[Len(r.query[k].name)] # name
      BY <1>9 DEF Clear
    <3> SUFFICES ASSUME NEW k \in 1 .. n,
                        r.query[k].name[Len(r.query[k].name)] = name, ~(f <= k)
                 PROVE  FALSE
      OBVIOUS
    <3>2. f \in 1 .. n /\ n \in Nat /\ k \in 1 .. n /\ ~(f <= k)
      BY <1>3, <2>2
    <3> HIDE DEF f, n
    <3>3. k \in 1 .. f - 1
      BY <3>2
    <3> QED
      BY <3>1, <3>3
  <2>4. f = n => \A i \in 1 .. Len(r.behind) : r.behind[i] # "&"
    <3>1. f = n => "&" \notin Tokens(r.behind)
      BY <1>9 DEF Clear
    <3>2. \A i \in 1 .. Len(r.behind) : r.behind[i] \in Tokens(r.behind)
      <4>1. r.behind \in Seq(Tokens(r.behind))
        BY TextOfRequest
      <4> QED
        BY <4>1 DEF Tokens
    <3> QED
      BY <3>1, <3>2
  <2>5. Meant(r, name, max) =
          IF lv = 0 THEN Absent ELSE IF lv > max THEN Overlong ELSE v
    <3>1. v = <<>> <=> lv = 0
      <4>1. \A V : \A w \in Seq(V) : w = <<>> <=> Len(w) = 0
        OBVIOUS
      <4>2. v \in Seq(Tokens(v))
        BY <2>2
      <4> HIDE DEF f, v
      <4> QED
        BY <4>1, <4>2
    <3> QED
      BY <1>9, <3>1 DEF Meant
  <2> HIDE DEF f
  <2>n. /\ f \in 1 .. n + 1 /\ f + 1 \in 1 .. n + 1 /\ n + 1 \in f + 1 .. n + 1
        /\ \A k \in 1 .. n : f <= k => k \in f .. n + 1 /\ k \in 1 .. n + 1
        /\ f # n => /\ f + 1 \in 1 .. n /\ f + 1 # 1
                    /\ (f + 1) + 1 \in 1 .. n + 1 /\ n + 1 \in (f + 1) + 1 .. n + 1
    <3>1. f \in 1 .. n /\ n \in Nat
      BY <1>3, <2>2
    <3> HIDE DEF n
    <3> QED
      BY <3>1
  <2>6. /\ at[f] \in Nat /\ at[f + 1] = at[f] + 3 + lv /\ at[f + 1] <= Len(U)
        /\ U[at[f] + 2] = name /\ U[at[f] + 3] = "="
        /\ \A i \in 1 .. lv : U[at[f] + 3 + i] = v[i]
    <3>1. f \in 1 .. n + 1 /\ f + 1 \in 1 .. n + 1 /\ n + 1 \in f + 1 .. n + 1
      BY <2>n
    <3>2. Len(r.query[f].name) = 1 /\ r.query[f].name[1] = name
      <4>1. r.query[f].name = <<name>>
        BY <2>2
      <4>2. Len(<<name>>) = 1 /\ <<name>>[1] = name
        OBVIOUS
      <4> QED
        BY <4>1, <4>2
    <3>3. at[f] \in Nat /\ at[f + 1] = at[f] + 2 + 1 + lv
      BY <1>1, <2>2, <3>1, <3>2
    <3>4. /\ \A i \in 1 .. 1 : U[at[f] + 1 + i] = r.query[f].name[i]
          /\ U[at[f] + 2 + 1] = "="
          /\ \A i \in 1 .. lv : U[at[f] + 2 + 1 + i] = v[i]
      BY <1>1, <2>2, <3>2 DEF Written
    <3>5. at[f + 1] <= at[n + 1]
      BY <1>1, <1>3, <1>m, <3>1, Monotone
    <3> DEFINE from == at[f]
    <3>6. from \in Nat /\ from + 2 + 1 = from + 3 /\ from + 1 + 1 = from + 2
      BY <3>3
    <3>7. U[from + 1 + 1] = name
      BY <3>2, <3>4
    <3> HIDE DEF v, lv
    <3>a. at[f + 1] = from + 2 + 1 + lv /\ lv \in Nat
      BY <2>2, <3>3
    <3> HIDE DEF from
    <3>8. at[f + 1] = from + 3 + lv
      BY <3>6, <3>a
    <3>9. /\ U[from + 2] = name /\ U[from + 3] = "="
          /\ \A i \in 1 .. lv : U[from + 3 + i] = v[i]
      BY <3>4, <3>6, <3>7 DEF from
    <3> QED
      BY <1>1, <3>3, <3>5, <3>8, <3>9 DEF from
  <2> DEFINE q == at[f] + 2
  <2>v. v \in Seq(Tokens(v))
    BY <2>2
  <2> DEFINE V == Tokens(v)
  <2>w. v \in Seq(V) /\ lv \in Nat /\ lv = Len(v)
    BY <2>2, <2>v
  <2> HIDE DEF V, lv, v
  <2>7. /\ q \in Nat /\ q >= 2 /\ q + 1 + lv <= Len(U) /\ s[q] = name /\ s[q + 1] = "="
        /\ \A i \in 1 .. lv : s[q + 1 + i] = v[i]
    <3> DEFINE from == at[f]
               b == q + 1
    <3>1. /\ from \in Nat /\ from + 3 + lv <= Len(U) /\ U[from + 2] = name /\ U[from + 3] = "="
          /\ \A i \in 1 .. lv : U[from + 3 + i] = v[i]
          /\ q = from + 2 /\ Len(U) \in Nat /\ lv \in Nat /\ b = q + 1
          /\ \A i \in 1 .. Len(U) : s[i] = U[i]
      BY <1>3, <1>4, <2>6, <2>w
    <3> HIDE DEF from, q, U, b
    <3>2. q \in 1 .. Len(U) /\ b \in 1 .. Len(U) /\ b = from + 3
      BY <3>1
    <3>3. s[q] = name /\ s[b] = "="
      BY <3>1, <3>2
    <3>4. ASSUME NEW i \in 1 .. lv
          PROVE  s[b + i] = v[i]
      <4> DEFINE c == b + i
      <4>1. c \in 1 .. Len(U) /\ c = from + 3 + i
        BY <3>1, <3>2
      <4>2. U[c] = v[i]
        BY <3>1, <4>1
      <4> HIDE DEF c
      <4>3. s[c] = v[i]
        BY <3>1, <4>1, <4>2
      <4> QED
        BY <4>3 DEF c
    <3>5. q \in Nat /\ q >= 2 /\ q + 1 + lv <= Len(U)
      BY <3>1, <3>2
    <3> QED
      BY <3>3, <3>4, <3>5 DEF b
  <2>8. q \in found
    <3>1. q \in 1 .. Len(s) - 1
      BY <1>3, <1>4, <2>7, <2>w
    <3> HIDE DEF q
    <3> QED
      BY <1>6, <2>7, <3>1
  <2>9. ASSUME NEW p \in found
        PROVE  q <= p
    <3>0. p \in Nat
      BY <1>5, <1>6
    <3>1. CASE p > Len(U)
      <4> HIDE DEF q
      <4> QED
        BY <1>3, <2>7, <2>w, <3>0, <3>1
    <3>2. ASSUME NEW k \in 1 .. n, p + 1 = at[k] + 2 + Len(r.query[k].name),
                 r.query[k].name[Len(r.query[k].name)] = name,
                 Len(r.query[k].name) >= 1
          PROVE  q <= p
      <4>1. f <= k
        BY <2>3, <3>2
      <4>2. f \in 1 .. n + 1 /\ k \in f .. n + 1 /\ k \in 1 .. n + 1
        BY <2>n, <4>1
      <4>3. at[f] <= at[k]
        BY <1>1, <1>3, <1>m, <4>2, Monotone
      <4>4. at[f] \in Nat /\ at[k] \in Nat /\ Len(r.query[k].name) \in Nat
        BY <1>1, <4>2, TextOfRequest
      <4> DEFINE from == at[f]
                 to == at[k]
                 la == Len(r.query[k].name)
      <4>5. /\ from \in Nat /\ to \in Nat /\ la \in Nat /\ la >= 1 /\ from <= to
            /\ p + 1 = to + 2 + la /\ q = from + 2
        BY <3>2, <4>3, <4>4
      <4> HIDE DEF from, to, la, q
      <4> QED
        BY <3>0, <4>5
    <3> QED
      BY <1>7, <3>1, <3>2
  <2>10. place = q
    <3> HIDE DEF q
    <3> QED
      BY <1>p, <2>8, <2>9
  <2> DEFINE e == start + lv
  <2>c. \A i \in 1 .. lv : s[start - 1 + i] = v[i]
    <3>1. q \in Nat /\ start = q + 2
      BY <2>7, <2>10
    <3> HIDE DEF q, start
    <3>2. start - 1 = q + 1
      BY <3>1
    <3> QED
      BY <2>7, <3>2
  <2>11. start \in Nat /\ start >= 4 /\ e - 1 <= Len(U) /\ e = start + lv /\ place # 0
    <3>1. /\ q \in Nat /\ q >= 2 /\ start = q + 2 /\ q + 1 + lv <= Len(U) /\ lv \in Nat
          /\ place = q
      BY <2>7, <2>10, <2>w
    <3> HIDE DEF q, start
    <3> QED
      BY <1>3, <3>1
  <2>12. \A i \in start .. e - 1 : s[i] # "&"
    <3> SUFFICES ASSUME NEW i \in start .. e - 1
                 PROVE  s[i] # "&"
      OBVIOUS
    <3> HIDE DEF start, e
    <3> DEFINE j == i - (start - 1)
    <3>1. j \in 1 .. lv /\ start - 1 + j = i
      BY <2>11, <2>w
    <3> HIDE DEF j
    <3>2. s[i] = v[j]
      BY <2>c, <3>1
    <3>3. v[j] # "&"
      BY <2>2, <3>1 DEF v, lv
    <3> QED
      BY <3>2, <3>3
  <2>13. end = e
    <3>1. CASE f = n
      <4>1. e = Len(U) + 1
        <5>1. at[f + 1] = Len(U) /\ at[f + 1] = at[f] + 3 + lv /\ start = at[f] + 4
          <6>1. start = q + 2 /\ at[f] \in Nat
            BY <2>6, <2>10
          <6> QED
            BY <1>1, <2>6, <3>1, <6>1 DEF lv, v
        <5> QED
          BY <1>3, <2>6, <2>w, <5>1
      <4> HIDE DEF e
      <4>2. \A i \in start .. Len(s) : s[i] # "&"
        <5> SUFFICES ASSUME NEW i \in start .. Len(s), i > Len(U)
                     PROVE  s[i] # "&"
          BY <1>3, <2>11, <2>12, <4>1
        <5> DEFINE j == i - Len(U)
        <5>1. j \in 1 .. Len(r.behind) /\ Len(U) + j = i
          BY <1>3, <1>4, <2>11
        <5> HIDE DEF j
        <5>2. s[i] = r.behind[j]
          BY <1>4, <5>1
        <5> QED
          BY <2>4, <3>1, <5>1, <5>2
      <4>3. amp = 0
        <5> HIDE DEF start
        <5> QED
          BY <1>5, <2>11, <4>2, NextSeparator
      <4> QED
        BY <4>1, <4>3
    <3>2. CASE f # n
      <4>1. /\ f + 1 \in 1 .. n /\ f + 1 \in 1 .. n + 1 /\ (f + 1) + 1 \in 1 .. n + 1
            /\ n + 1 \in (f + 1) + 1 .. n + 1 /\ f + 1 # 1
        BY <2>n, <3>2
      <4>2. U[at[f + 1] + 1] = "&"
        BY <1>1, <4>1 DEF Written, Separator
      <4>3. at[f + 1] + 1 <= Len(U) /\ at[f + 1] \in Nat
        <5>1. at[(f + 1) + 1] <= at[n + 1]
          BY <1>1, <1>3, <1>m, <4>1, Monotone
        <5> DEFINE g == f + 1
                   la == Len(r.query[g].name)
                   lw == Len(r.query[g].value)
        <5>2. la \in Nat /\ lw \in Nat /\ at[g + 1] = at[g] + 2 + la + lw /\ at[g] \in Nat
          BY <1>1, <4>1, TextOfRequest
        <5> HIDE DEF la, lw
        <5> QED
          BY <1>1, <5>1, <5>2
      <4>4. e = at[f + 1] + 1
        <5>1. at[f + 1] = at[f] + 3 + lv /\ start = at[f] + 4
          <6>1. start = q + 2 /\ at[f] \in Nat
            BY <2>6, <2>10
          <6> QED
            BY <2>6, <6>1 DEF lv, v
        <5> QED
          BY <2>6, <2>w, <5>1
      <4> HIDE DEF e
      <4>5. e \in start .. Len(s) /\ s[e] = "&"
        <5>1. e \in start .. Len(U)
          BY <1>3, <2>11, <2>w, <4>3, <4>4
        <5>2. U[e] = "&"
          BY <4>2, <4>4
        <5> HIDE DEF start
        <5>3. e \in 1 .. Len(U)
          BY <2>11, <5>1
        <5> QED
          BY <1>3, <1>4, <5>1, <5>2, <5>3
      <4>6. amp = e
        <5> HIDE DEF start
        <5> QED
          BY <1>5, <2>11, <2>12, <4>5, NextSeparator
      <4> QED
        BY <2>11, <4>5, <4>6
    <3> QED
      BY <3>1, <3>2
  <2>14. SubSeq(s, start, end - 1) = v
    <3>1. PICK S2 : s \in Seq(S2)
      BY <1>2, StreamFacts DEF s
    <3>2. start + Len(v) - 1 <= Len(s) /\ \A i \in 1 .. Len(v) : s[start - 1 + i] = v[i]
      BY <1>3, <1>4, <2>11, <2>c, <2>w
    <3>4. end = start + lv /\ start \in Nat
      BY <2>11, <2>13
    <3> HIDE DEF start, end, e
    <3>3. SubSeq(s, start, start + Len(v) - 1) = v
      BY <2>11, <2>w, <3>1, <3>2, PartIs
    <3>5. end - 1 = start + Len(v) - 1
      BY <2>w, <3>4
    <3> QED
      BY <3>3, <3>5
  <2>15. size = lv /\ lv >= 0
    <3>1. end = start + lv /\ start \in Nat /\ lv \in Nat
      BY <2>11, <2>13, <2>w
    <3> HIDE DEF start, end
    <3> QED
      BY <3>1
  <2>16. GetVar(r, name, max) =
           IF size < 0 \/ size > max THEN Overlong ELSE IF size = 0 THEN Absent ELSE v
    <3> HIDE DEF size, start, end
    <3> QED
      BY <1>g, <2>11, <2>14
  <2>17. /\ ~(size < 0) /\ size = lv
         /\ Meant(r, name, max) =
              IF lv = 0 THEN Absent ELSE IF lv > max THEN Overlong ELSE v
    <3>1. Meant(r, name, max) =
              IF lv = 0 THEN Absent ELSE IF lv > max THEN Overlong ELSE v
      BY <2>5 DEF v, lv
    <3> HIDE DEF size
    <3> QED
      BY <2>15, <2>w, <3>1
  <2> HIDE DEF size
  <2> QED
    BY <2>16, <2>17
<1> QED
  BY <1>8, <1>9

-----------------------------------------------------------------------------
(* A request does what its URI says. *)

\* An insertion touches its own slot only, which was empty.
LEMMA InsertTouches ==
  ASSUME Faults \subseteq {"read"}, Safe, NEW id \in Ids, NEW name \in Tails[id],
         NEW img \in Images, InsertCall(name, img)
  PROVE  OnlyIdTouched(id)
<1>1. CASE UNCHANGED disk
  BY <1>1 DEF disk, OnlyIdTouched
<1>2. \/ InsertFull(name, img) \/ InsertNowhere(name, img)
      \/ \E i \in Slots : InsertUndecodable(i, name, img) \/ InsertRefused(i, name, img)
      => UNCHANGED disk
  BY DEF InsertFull, InsertNowhere, InsertUndecodable, InsertRefused
<1>3. ASSUME NEW i \in Slots, InsertDone(i, name, img)
      PROVE  OnlyIdTouched(id)
  <2>1. /\ InsertAccepted(i, name, img)
        /\ disk_metadata' = [disk_metadata EXCEPT ![i] = Entry(i, name, img)]
    BY <1>3 DEF InsertDone
  <2>2. /\ i \notin Valid(metadata) /\ i \notin Valid(disk_metadata)
        /\ TypeOK /\ disk_metadata \in [Slots -> Metadata]
    BY <2>1, InsertSlot DEF InsertAccepted, Safe, TypeOK
  <2>3. name \in Ids
    BY TailsAreIds
  <2>4. Entry(i, name, img).img_id = name
    BY <2>2, <2>3, EntryIsNamed
  <2>5. ~disk_metadata[i].is_valid
    BY <2>2 DEF Valid
  <2>6. /\ disk_metadata'[i] = Entry(i, name, img)
        /\ \A j \in Slots \ {i} : disk_metadata'[j] = disk_metadata[j]
    BY <2>1, <2>2
  <2> QED
    BY <2>4, <2>5, <2>6 DEF OnlyIdTouched
<1>4. \A i \in Slots : /\ ~InsertFailsAtData(i, name, img)
                       /\ ~InsertFailsAtMetadata(i, name, img)
                       /\ ~InsertFailsAtHeader(i, name, img)
  BY DEF InsertFailsAtData, InsertFailsAtMetadata, InsertFailsAtHeader
<1> QED
  BY <1>1, <1>2, <1>3, <1>4 DEF InsertCall

\* A deletion writes the whole array, of which only the entry found differs from
\* the file, or what was no image.
LEMMA DeleteTouches ==
  ASSUME Faults \subseteq {"read"}, Safe, NEW id \in Ids, NEW name \in Tails[id],
         DeleteCall(name)
  PROVE  OnlyIdTouched(id)
<1>1. CASE DeleteMissing(name)
  BY <1>1 DEF DeleteMissing, disk, OnlyIdTouched
<1>2. CASE DeleteDone(name)
  <2> DEFINE k == First(Named(metadata, name))
  <2>1. is_open /\ disk_metadata' = [metadata EXCEPT ![k].is_valid = FALSE]
    BY <1>2 DEF DeleteDone, Deleted
  <2>2. k \in Slots /\ k \in Valid(metadata) /\ metadata[k].img_id = name
    <3>1. Named(metadata, name) \in SUBSET Slots
      BY DEF Named, Valid
    <3> QED
      BY <1>2, <3>1, FirstIsLeast DEF DeleteDone, Named
  <2>3. /\ metadata \in [Slots -> Metadata]
        /\ disk_metadata[k] = metadata[k]
        /\ \A j \in Slots : SameSlot(metadata[j], disk_metadata[j])
    BY <2>1, <2>2, OpenAgree DEF Safe, TypeOK, FileInSync
  <2> HIDE DEF k
  <2>4. ~disk_metadata'[k].is_valid /\ disk_metadata[k].img_id = name
    BY <2>1, <2>2, <2>3 DEF Metadata
  <2>5. \A j \in Slots \ {k} : SameSlot(disk_metadata'[j], disk_metadata[j])
    BY <2>1, <2>3
  <2> QED
    BY <2>4, <2>5 DEF OnlyIdTouched, SameSlot
<1>3. ~DeleteFailsAtMetadata(name) /\ ~DeleteFailsAtHeader(name)
  BY DEF DeleteFailsAtMetadata, DeleteFailsAtHeader
<1> QED
  BY <1>1, <1>2, <1>3 DEF DeleteCall

\* A read writes the entry it has found, and replies to its own call.
LEMMA ReadTouches ==
  ASSUME Faults \subseteq {"read"}, Safe, NEW id \in Ids, NEW res \in Res,
         ReadCall(id, res)
  PROVE  /\ OnlyIdTouched(id)
         /\ reply'.call.id = id /\ reply'.call.arg = res
<1>1. ASSUME UNCHANGED disk
      PROVE  OnlyIdTouched(id)
  BY <1>1 DEF disk, OnlyIdTouched
<1>2. CASE ReadMissing(id, res)
  BY <1>1, <1>2 DEF ReadMissing, Reply, Read, Call
<1>3. ASSUME NEW i \in Slots,
             \/ ReadStored(i, id, res)
             \/ ReadOutOfBounds(i, id, res)
             \/ ReadUndecodable(i, id, res)
             \/ ReadFails(i, id, res)
      PROVE  UNCHANGED disk /\ reply'.call.id = id /\ reply'.call.arg = res
  BY <1>3 DEF ReadStored, ReadOutOfBounds, ReadUndecodable, ReadFails, Reply, Read, Call
<1>4. ASSUME NEW i \in Slots, ReadResized(i, id, res)
      PROVE  OnlyIdTouched(id) /\ reply'.call.id = id /\ reply'.call.arg = res
  <2>1. /\ ReadAt(i, id)
        /\ disk_metadata' = [disk_metadata EXCEPT ![i] = ResizedEntry(i, res)]
        /\ reply'.call.id = id /\ reply'.call.arg = res
    BY <1>4 DEF ReadResized, Resizes, Reply, Read, Call
  <2>2. /\ metadata[i] \in Metadata
        /\ disk_metadata \in [Slots -> Metadata]
    BY DEF Safe, TypeOK
  <2>3. ResizedEntry(i, res).img_id = metadata[i].img_id
    BY <2>2 DEF ResizedEntry, Metadata
  <2>4. metadata[i].img_id = id /\ metadata[i] = disk_metadata[i]
    <3>1. Named(metadata, id) \in SUBSET Slots
      BY DEF Named, Valid
    <3>2. i \in Valid(metadata) /\ metadata[i].img_id = id /\ is_open
      BY <2>1, <3>1, FirstIsLeast DEF ReadAt, Named
    <3> QED
      BY <3>2, OpenAgree
  <2>5. /\ disk_metadata'[i] = ResizedEntry(i, res)
        /\ \A j \in Slots \ {i} : disk_metadata'[j] = disk_metadata[j]
    BY <2>1, <2>2
  <2> QED
    BY <2>1, <2>3, <2>4, <2>5, TailsAreIds DEF OnlyIdTouched
<1>5. \A i \in Slots : ~ReadFailsAtMetadata(i, id, res)
  BY DEF ReadFailsAtMetadata
<1> QED
  BY <1>1, <1>2, <1>3, <1>4, <1>5 DEF ReadCall

\* The library blames the parameters in no answer but a list that cannot be made,
\* and no failure of a reply does.
Blame == {"ERR_RUNTIME", "ERR_NOT_ENOUGH_ARGUMENTS", "ERR_RESOLUTIONS"}

\* Whatever else the library returns, and whether the reply gets through or not.
LEMMA LibraryBlamesNothing ==
  ASSUME TypeOK', NEW status, RepliesFor(status), reply'.err # "ERR_RUNTIME"
  PROVE  answer'.err \notin Blame
<1>1. reply'.err \in Errors
  BY DEF TypeOK
<1>2. ASSUME NEW out, Replies(status, out)
      PROVE  answer'.err \in {"ERR_NONE", "ERR_OUT_OF_MEMORY", "ERR_IO"}
  <2>1. CASE Answers(status, "ERR_NONE", out)
    BY <2>1 DEF Answers
  <2> QED
    BY <1>2, <2>1, ErrorAnswer DEF Replies
<1>3. answer'.err \in Errors \ {"ERR_RUNTIME"}
  <2>1. CASE reply'.err = "ERR_NONE"
    BY <1>2, <2>1 DEF RepliesFor, Errors
  <2>2. CASE reply'.err # "ERR_NONE"
    <3>1. RepliesError(reply'.err)
      BY <2>2 DEF RepliesFor
    <3>2. answer'.err \in {"ERR_NONE", reply'.err}
      BY <3>1, ErrorAnswer
    <3> QED
      BY <1>1, <3>2 DEF Errors
  <2> QED
    BY <2>1, <2>2
<1> QED
  BY <1>3 DEF Errors, Blame

\* Only a list returns ERR_RUNTIME.
LEMMA CallErrors ==
  /\ \A id, img : InsertCall(id, img) => reply'.err # "ERR_RUNTIME"
  /\ \A id : DeleteCall(id) => reply'.err # "ERR_RUNTIME"
  /\ \A id, res : ReadCall(id, res) => reply'.err # "ERR_RUNTIME"
<1>1. ASSUME NEW id, NEW img, InsertCall(id, img)
      PROVE  reply'.err # "ERR_RUNTIME"
  <2>1. ASSUME NEW i
        PROVE  CandidateError(i, id, img) # "ERR_RUNTIME"
    BY DEF CandidateError, DedupError
  <2> QED
    BY <1>1, <2>1 DEF InsertCall, InsertFull, InsertNowhere, InsertUndecodable, InsertRefused,
                      InsertDone, InsertFailsAtData, InsertFailsAtMetadata,
                      InsertFailsAtHeader, Reply
<1>2. ASSUME NEW id, DeleteCall(id)
      PROVE  reply'.err # "ERR_RUNTIME"
  BY <1>2 DEF DeleteCall, DeleteMissing, DeleteDone, DeleteFailsAtMetadata,
              DeleteFailsAtHeader, Reply
<1>3. ASSUME NEW id, NEW res, ReadCall(id, res)
      PROVE  reply'.err # "ERR_RUNTIME"
  BY <1>3 DEF ReadCall, ReadMissing, ReadStored, ReadOutOfBounds, ReadUndecodable,
              ReadResized, ReadFailsAtMetadata, ReadFails, ReadErrors, Reply
<1> QED
  BY <1>1, <1>2, <1>3

\* What UriIsObeyed says of the handling of a request.
Obeys(r) ==
  /\ OnlyIdTouched(IdMeant(r))
  /\ RefusalIsDeserved(r)
  /\ answer'.status = "200 OK" /\ answer'.out # NoImage =>
       reply'.call.id = IdMeant(r) /\ reply'.call.arg = ResMeant(r)

\* A request that was refused before the library was called.
LEMMA RefusedObeys ==
  ASSUME NEW r, NEW err, Refuses(err),
         err = "ERR_RUNTIME" => Overlong \in {IdMeant(r), ResMeant(r)},
         err = "ERR_NOT_ENOUGH_ARGUMENTS" => Absent \in {IdMeant(r), ResMeant(r)},
         err = "ERR_RESOLUTIONS" => ResMeant(r) = Unknown
  PROVE  Obeys(r)
<1>1. /\ disk_metadata' = disk_metadata
      /\ answer'.status \notin {"200 OK", "302 Found"}
      /\ answer'.err \in {"ERR_NONE", err}
  BY ErrorAnswer DEF Refuses, vars
<1>2. OnlyIdTouched(IdMeant(r))
  BY <1>1 DEF OnlyIdTouched
<1>3. RefusalIsDeserved(r)
  BY <1>1 DEF RefusalIsDeserved
<1> QED
  BY <1>1, <1>2, <1>3 DEF Obeys

\* In a request that is clear the server finds what the client means.
LEMMA ClearIsFound ==
  ASSUME NEW r \in Requests, IsClear(r)
  PROVE  /\ IsInsert(r) => IdMeant(r) = NameGot[r] /\ ResMeant(r) = Absent
         /\ IsRead(r) => IdMeant(r) = IdGot[r] /\ ResMeant(r) = ResGot[r]
         /\ IsDelete(r) => IdMeant(r) = IdGot[r] /\ ResMeant(r) = Absent
<1>1. MAX_IMG_ID \in Nat /\ MAX_RES \in Nat
  BY RequestsAssumption
<1>2. /\ Clear(r, "name") => GetVar(r, "name", MAX_IMG_ID) = Meant(r, "name", MAX_IMG_ID)
      /\ Clear(r, "img_id") => GetVar(r, "img_id", MAX_IMG_ID) = Meant(r, "img_id", MAX_IMG_ID)
      /\ Clear(r, "res") => GetVar(r, "res", MAX_RES) = Meant(r, "res", MAX_RES)
  BY <1>1, GotIsMeant DEF Searched
<1>3. /\ NameGot[r] = Id(GetVar(r, "name", MAX_IMG_ID))
      /\ IdGot[r] = Id(GetVar(r, "img_id", MAX_IMG_ID))
      /\ ResGot[r] = Resolution(GetVar(r, "res", MAX_RES))
  BY DEF NameGot, IdGot, ResGot
<1>4. /\ IsInsert(r) => ~IsRead(r) /\ ~IsDelete(r)
      /\ IsRead(r) => ~IsInsert(r)
      /\ IsDelete(r) => ~IsInsert(r) /\ ~IsRead(r)
  BY DEF IsInsert, IsRead, IsDelete, MatchUri
<1> QED
  BY <1>2, <1>3, <1>4 DEF IsClear, IdMeant, ResMeant

\* Each handler in turn.
LEMMA ClearObeys ==
  ASSUME Faults \subseteq {"read"}, Safe, TypeOK', NEW r \in Requests, Asks(r), IsClear(r)
  PROVE  Obeys(r)
<1>n. ASSUME disk_metadata' = disk_metadata, answer'.err \notin Blame,
             answer'.status # "200 OK" \/ answer'.out = NoImage
      PROVE  Obeys(r)
  BY <1>n DEF Obeys, OnlyIdTouched, RefusalIsDeserved, Blame
<1>1. CASE AsksPage(r)
  <2>1. /\ disk_metadata' = disk_metadata
        /\ \/ Answers("200 OK", "ERR_NONE", NoImage)
           \/ Answers("404 Not Found", "ERR_NONE", NoImage)
           \/ NobodyIsAnswered
    BY <1>1 DEF AsksPage, HandlePage, vars
  <2>2. answer'.err = "ERR_NONE" /\ answer'.out = NoImage
    <3>1. CASE Answers("200 OK", "ERR_NONE", NoImage)
      BY <3>1 DEF Answers
    <3>2. CASE Answers("404 Not Found", "ERR_NONE", NoImage)
      BY <3>2 DEF Answers
    <3>3. CASE NobodyIsAnswered
      BY <3>3 DEF NobodyIsAnswered, NoAnswer
    <3> QED
      BY <2>1, <3>1, <3>2, <3>3
  <2> QED
    BY <1>n, <2>1, <2>2 DEF Blame
<1>2. CASE AsksList(r)
  <2>1. /\ IsList(r) /\ disk_metadata' = disk_metadata
        /\ answer'.err \in {"ERR_NONE", "ERR_OUT_OF_MEMORY", "ERR_IO", "ERR_RUNTIME"}
        /\ answer'.status # "200 OK" \/ answer'.out = NoImage
    BY <1>2, ListAnswer DEF AsksList
  <2> QED
    BY <2>1 DEF Obeys, OnlyIdTouched, RefusalIsDeserved
<1>c. ASSUME NEW status, RepliesFor(status), reply'.err # "ERR_RUNTIME",
             OnlyIdTouched(IdMeant(r)),
             answer'.status = "200 OK" =>
               reply'.call.id = IdMeant(r) /\ reply'.call.arg = ResMeant(r)
      PROVE  Obeys(r)
  BY <1>c, LibraryBlamesNothing DEF Obeys, RefusalIsDeserved, Blame
<1>3. CASE AsksInsert(r)
  <2>1. IsInsert(r) /\ IdMeant(r) = NameGot[r]
    BY <1>3, ClearIsFound DEF AsksInsert
  <2>2. CASE HandleInsertRefused(NameGot[r], r.body)
    BY <2>1, <2>2, RefusedObeys DEF HandleInsertRefused
  <2>3. CASE NameGot[r] \in Ids /\ r.body \in Images /\ HandleInsert(NameGot[r], r.body)
    <3>1. /\ \E name \in Tails[NameGot[r]] : InsertCall(name, r.body)
          /\ RepliesFor("302 Found")
      BY <2>3 DEF HandleInsert, InsertReplies
    <3>2. OnlyIdTouched(NameGot[r])
      BY <2>3, <3>1, InsertTouches
    <3>3. answer'.status # "200 OK"
      BY <3>1, AnswerFacts
    <3> QED
      BY <1>c, <2>1, <3>1, <3>2, <3>3, CallErrors
  <2> QED
    BY <1>3, <2>2, <2>3 DEF AsksInsert
<1>4. CASE AsksRead(r)
  <2>1. IdMeant(r) = IdGot[r] /\ ResMeant(r) = ResGot[r]
    BY <1>4, ClearIsFound DEF AsksRead
  <2>2. CASE HandleReadRefused(IdGot[r], ResGot[r])
    BY <2>1, <2>2, RefusedObeys DEF HandleReadRefused
  <2>3. CASE IdGot[r] \in Ids /\ ResGot[r] \in Res /\ HandleRead(IdGot[r], ResGot[r])
    <3>1. ReadCall(IdGot[r], ResGot[r]) /\ RepliesFor("200 OK")
      BY <2>3 DEF HandleRead
    <3>2. /\ OnlyIdTouched(IdGot[r])
          /\ reply'.call.id = IdGot[r] /\ reply'.call.arg = ResGot[r]
      BY <2>3, <3>1, ReadTouches
    <3> QED
      BY <1>c, <2>1, <3>1, <3>2, CallErrors
  <2> QED
    BY <1>4, <2>2, <2>3 DEF AsksRead
<1>5. CASE AsksDelete(r)
  <2>1. IdMeant(r) = IdGot[r]
    BY <1>5, ClearIsFound DEF AsksDelete
  <2>2. CASE HandleDeleteRefused(IdGot[r])
    BY <2>1, <2>2, RefusedObeys DEF HandleDeleteRefused
  <2>3. CASE IdGot[r] \in Ids /\ HandleDelete(IdGot[r])
    <3>1. /\ \E name \in Tails[IdGot[r]] : DeleteCall(name)
          /\ RepliesFor("302 Found")
      BY <2>3 DEF HandleDelete
    <3>2. OnlyIdTouched(IdGot[r])
      BY <2>3, <3>1, DeleteTouches
    <3>3. answer'.status # "200 OK"
      BY <3>1, AnswerFacts
    <3> QED
      BY <1>c, <2>1, <3>1, <3>2, <3>3, CallErrors
  <2> QED
    BY <1>5, <2>2, <2>3 DEF AsksDelete
<1>6. CASE AsksOther(r)
  BY <1>6, RefusedObeys DEF AsksOther, HandleOther
<1> QED
  BY <1>1, <1>2, <1>3, <1>4, <1>5, <1>6 DEF Asks

(***************************************************************************)
(* A request in which nothing can be mistaken for a parameter or for its   *)
(* end does what its URI says, for any texts and any number of parameters: *)
(* http_get_var finds the value its client gave first, and the handler     *)
(* touches no image of another id, reads at the resolution asked for and   *)
(* refuses the parameters only for what they lack.                         *)
(***************************************************************************)
THEOREM ClearRequestsAreObeyed ==
  ASSUME Faults \subseteq {"read"}
  PROVE  RequestSpec => UriIsObeyed
<1>1. RequestInit => ServiceSafe
  BY ServiceInitSafe DEF RequestInit
<1>2. ServiceSafe /\ [RequestNext]_reqvars => ServiceSafe'
  BY RequestStepIsServiceStep, ServiceNextSafe
<1> DEFINE Obeyed ==
             Handled /\ IsClear(asked') =>
               /\ OnlyIdTouched(IdMeant(asked'))
               /\ RefusalIsDeserved(asked')
               /\ answer'.status = "200 OK" /\ answer'.out # NoImage =>
                    /\ reply'.call.id = IdMeant(asked')
                    /\ reply'.call.arg = ResMeant(asked')
<1>3. ServiceSafe /\ [RequestNext]_reqvars => [Obeyed]_reqvars
  <2> SUFFICES ASSUME ServiceSafe, [RequestNext]_reqvars
               PROVE  [Obeyed]_reqvars
    OBVIOUS
  <2>1. CASE UNCHANGED reqvars
    BY <2>1
  <2>2. ASSUME NEW r \in Requests, Asks(r)
        PROVE  Obeyed
    <3>1. Safe /\ TypeOK' /\ asked' = r
      <4>1. ServiceSafe'
        BY <1>2
      <4> QED
        BY <2>2, <4>1 DEF ServiceSafe, Safe, Asks
    <3>2. IsClear(r) => Obeys(r)
      BY <2>2, <3>1, ClearObeys
    <3> QED
      BY <3>1, <3>2 DEF Obeys
  <2>3. CASE Turns
    BY <2>3 DEF Turns, Startup, Shutdown, CommandCreates, CommandOpens, CommandCalls,
                CommandCloses, Handled
  <2> QED
    BY <2>1, <2>2, <2>3 DEF RequestNext
<1> QED
  BY <1>1, <1>2, <1>3, PTL DEF RequestSpec, UriIsObeyed

=============================================================================
