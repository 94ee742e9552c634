----------------------------- MODULE ImgfsService -----------------------------
(***************************************************************************)
(* Who calls the library of Imgfs: the server, which opens the file at its *)
(* start and answers requests with it (imgfs_server_service.c, called by   *)
(* handle_connection for every message), and commands, each of which opens *)
(* the file, makes one call and closes it (imgfscmd_functions.c).  They    *)
(* take turns: a command is run while no server has the file open.         *)
(*                                                                         *)
(* A request is a message the parser found whole.  What http_get_var makes *)
(* of a parameter is its value, Absent or Overlong; it does not end the    *)
(* string it copies, and where the handler has not cleared its array the   *)
(* id goes on with what the stack held: Tails.  (An id that fills its      *)
(* array to the last byte has no end at all and is left out.)              *)
(***************************************************************************)
EXTENDS ImgfsSafety

CONSTANTS
  Tails,     \* the ids that an id may become when its end is not marked
  Absent,    \* a parameter that is not there, or empty
  Overlong,  \* a parameter that does not fit into the handler's array
  Unknown    \* a parameter res that names no resolution

ASSUME TailsAssumption ==
  Tails \in [Ids -> SUBSET Ids] /\ \A id \in Ids : id \in Tails[id]
ASSUME ParametersAssumption ==
  {Absent, Overlong, Unknown} \intersect (Ids \union Res) = {}

VARIABLES
  user,    \* who has the file open
  answer,  \* what the last request was answered
  kept     \* history: what was acknowledged as inserted, and not deleted since

users == <<user, answer, kept>>
svcvars == <<vars, users>>

Parameters(S) == S \union {Absent, Overlong}

Errors500 == Errors \union {"ERR_NOT_ENOUGH_ARGUMENTS", "ERR_INVALID_ARGUMENT",
               "ERR_INVALID_COMMAND", "ERR_RESOLUTIONS"}

ServiceTypeOK ==
  /\ TypeOK
  /\ user \in {"nobody", "server", "failing", "command", "returning"}
  /\ answer \in [status : {"none", "200 OK", "302 Found", "404 Not Found", "500"},
                 err : Errors500, out : Blobs \union {NoImage}]
  /\ kept \subseteq Ids \X Images

NoAnswer == [status |-> "none", err |-> "ERR_NONE", out |-> NoImage]

ServiceInit ==
  /\ Init
  /\ user = "nobody"
  /\ answer = NoAnswer
  /\ kept = {}

-----------------------------------------------------------------------------
(* Answers *)

Answers(status, err, out) ==
  /\ answer' = [status |-> status, err |-> err, out |-> out]
  /\ user' = "server"

\* No reply got through: the error of the callback ends the connection, and the
\* error of the connection the loop of main.
NobodyIsAnswered ==
  /\ answer' = NoAnswer
  /\ user' = "failing"

\* reply_error_msg
RepliesError(err) == Answers("500", err, NoImage) \/ NobodyIsAnswered

\* http_reply; a handler whose reply fails tries to reply that.
Replies(status, out) ==
  \/ Answers(status, "ERR_NONE", out)
  \/ \E err \in {"ERR_OUT_OF_MEMORY", "ERR_IO"} : RepliesError(err)

\* What the handler answers when the library has returned.
RepliesFor(status) ==
  IF reply'.err = "ERR_NONE" THEN Replies(status, reply'.out)
                             ELSE RepliesError(reply'.err)

\* A request that is refused before the library is called.
Refuses(err) ==
  /\ user = "server"
  /\ RepliesError(err)
  /\ UNCHANGED <<vars, kept>>

-----------------------------------------------------------------------------
(* Requests: handle_http_message *)

\* The page, http_serve_file: its file may be missing or unreadable.
HandlePage ==
  /\ user = "server"
  /\ \/ Answers("200 OK", "ERR_NONE", NoImage)
     \/ Answers("404 Not Found", "ERR_NONE", NoImage)
     \/ NobodyIsAnswered
  /\ UNCHANGED <<vars, kept>>

\* (The copy of the list to memory that is not there, imgfs_list.c:63, ends the
\* process: that is HandleKilled of HttpServer.)
HandleList ==
  /\ user = "server"
  /\ ListJson
  /\ RepliesFor("200 OK")
  /\ UNCHANGED kept

\* A missing id is answered with error 0, which is none.
HandleReadRefused(id, res) ==
  \/ id = Absent /\ Refuses("ERR_NONE")
  \/ id = Overlong /\ Refuses("ERR_RUNTIME")
  \/ id \in Ids /\ res = Overlong /\ Refuses("ERR_RUNTIME")
  \/ id \in Ids /\ res = Absent /\ Refuses("ERR_NOT_ENOUGH_ARGUMENTS")
  \/ id \in Ids /\ res = Unknown /\ Refuses("ERR_RESOLUTIONS")

HandleRead(id, res) ==
  /\ user = "server"
  /\ ReadCall(id, res)
  /\ RepliesFor("200 OK")
  /\ UNCHANGED kept

HandleDeleteRefused(id) ==
  \/ id = Absent /\ Refuses("ERR_NOT_ENOUGH_ARGUMENTS")
  \/ id = Overlong /\ Refuses("ERR_RUNTIME")

\* What may still be there: nothing that may lie under the id just deleted.
KeptAfterDelete ==
  IF reply'.err = "ERR_NONE"
  THEN {p \in kept : reply'.call.id \notin Tails[p[1]]}
  ELSE kept

HandleDelete(id) ==
  /\ user = "server"
  /\ \E name \in Tails[id] : DeleteCall(name)
  /\ RepliesFor("302 Found")
  /\ kept' = KeptAfterDelete

HandleInsertRefused(id, img) ==
  \/ id = Absent /\ Refuses("ERR_NOT_ENOUGH_ARGUMENTS")
  \/ id = Overlong /\ Refuses("ERR_RUNTIME")
  \/ id \in Ids /\ img = NoImage /\ Refuses("ERR_INVALID_ARGUMENT")
  \/ id \in Ids /\ img \in Images /\ Refuses("ERR_OUT_OF_MEMORY")

\* The value of do_insert is not looked at.
InsertRepliesFound == Replies("302 Found", NoImage)

InsertReplies == RepliesFor("302 Found")

HandleInsert(id, img) ==
  /\ user = "server"
  /\ \E name \in Tails[id] : InsertCall(name, img)
  /\ InsertReplies
  /\ kept' = IF answer'.status = "302 Found" THEN kept \union {<<id, img>>} ELSE kept

\* Any other URI, or an insertion that is not a POST.
HandleOther == Refuses("ERR_INVALID_COMMAND")

Handle ==
  \/ HandlePage
  \/ HandleList
  \/ \E id \in Parameters(Ids), res \in Parameters(Res \union {Unknown}) :
       HandleReadRefused(id, res)
  \/ \E id \in Ids, res \in Res : HandleRead(id, res)
  \/ \E id \in Parameters(Ids) : HandleDeleteRefused(id)
  \/ \E id \in Ids : HandleDelete(id)
  \/ \E id \in Parameters(Ids), img \in Images \union {NoImage} :
       HandleInsertRefused(id, img)
  \/ \E id \in Ids, img \in Images : HandleInsert(id, img)
  \/ HandleOther

-----------------------------------------------------------------------------
(* The server's life *)

Startup ==
  /\ user = "nobody"
  /\ Open
  /\ user' = "server"
  /\ UNCHANGED <<answer, kept>>

\* server_shutdown, after the loop of main has ended or by a signal between two
\* requests.
Shutdown ==
  /\ user \in {"server", "failing"}
  /\ Close
  /\ user' = "nobody"
  /\ UNCHANGED <<answer, kept>>

-----------------------------------------------------------------------------
(* Commands *)

CommandCreates ==
  /\ user = "nobody"
  /\ Create
  /\ kept' = {}
  /\ UNCHANGED <<user, answer>>

CommandOpens ==
  /\ user = "nobody"
  /\ Open
  /\ user' = "command"
  /\ UNCHANGED <<answer, kept>>

CommandLists == ListStdout /\ UNCHANGED kept

CommandReads(id, res) == ReadCall(id, res) /\ UNCHANGED kept

CommandDeletes(id) == DeleteCall(id) /\ kept' = KeptAfterDelete

CommandInserts(id, img) ==
  /\ InsertCall(id, img)
  /\ kept' = IF reply'.err = "ERR_NONE" THEN kept \union {<<id, img>>} ELSE kept

CommandCalls ==
  /\ user = "command"
  /\ \/ CommandLists
     \/ \E id \in Ids, res \in Res : CommandReads(id, res)
     \/ \E id \in Ids : CommandDeletes(id)
     \/ \E id \in Ids, img \in Images : CommandInserts(id, img)
  /\ user' = "returning"
  /\ UNCHANGED answer

\* do_insert_cmd also closes the file when it cannot read the image's.
CommandCloses ==
  /\ user \in {"command", "returning"}
  /\ Close
  /\ user' = "nobody"
  /\ UNCHANGED <<answer, kept>>

-----------------------------------------------------------------------------
ServiceNext ==
  \/ Handle
  \/ Startup
  \/ Shutdown
  \/ CommandCreates
  \/ CommandOpens
  \/ CommandCalls
  \/ CommandCloses

ServiceSpec == ServiceInit /\ [][ServiceNext]_svcvars

-----------------------------------------------------------------------------
(***************************************************************************)
(* An image whose insertion was acknowledged, by 302 Found or by the exit  *)
(* code of the command, is in the file under its id (or what the id became *)
(* when its end was not marked) until an image of that id is deleted,      *)
(* whatever requests, lost answers, restarts and commands come between.    *)
(***************************************************************************)
KeptIsStored ==
  \A p \in kept : \E i \in Valid(disk_metadata) :
    disk_metadata[i].img_id \in Tails[p[1]] /\ disk_metadata[i].SHA = p[2]

\* A step in which a request is handled.
Handled == user = "server" /\ user' \in {"server", "failing"}

\* One slot of the file was filled or emptied, and no other image touched.
OneImageChanged ==
  \E i \in Slots :
    /\ disk_metadata[i].is_valid # disk_metadata'[i].is_valid
    /\ \A j \in Slots \ {i} : SameSlot(disk_metadata'[j], disk_metadata[j])

FoundIsDone == answer'.status = "302 Found" => OneImageChanged

RefusedIsUndone ==
  answer'.err \notin {"ERR_NONE", "ERR_IO", "ERR_OUT_OF_MEMORY"} =>
    Visible(disk_metadata') = Visible(disk_metadata)

ReadIsAnImage ==
  answer'.status = "200 OK" /\ answer'.out # NoImage =>
    \E i \in Valid(disk_metadata) :
      /\ disk_metadata[i].img_id = reply'.call.id
      /\ answer'.out = Blob(disk_metadata[i].SHA, reply'.call.arg)

(***************************************************************************)
(* The answer tells what happened: 302 Found that one image was added or   *)
(* taken away and no other touched, an error of the library or of the      *)
(* parameters that the images are what they were, and 200 OK to a read     *)
(* comes with the image stored under the id, at the resolution asked for.  *)
(***************************************************************************)
AnswerIsTrue ==
  [][Handled => FoundIsDone /\ RefusedIsUndone /\ ReadIsAnImage]_svcvars

=============================================================================
