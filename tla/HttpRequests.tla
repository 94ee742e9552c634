----------------------------- MODULE HttpRequests -----------------------------
(***************************************************************************)
(* The server of ImgfsService with the text of its requests: which handler *)
(* handle_http_message chooses, and what http_get_var finds in the URI.    *)
(* http_match_uri compares the beginning of the URI only.  http_get_var    *)
(* looks for "name=" and for the next "&" with strstr and strchr, and      *)
(* neither stops at the end of the URI: both go on in what lies behind it, *)
(* the rest of the request line, the headers and the body.                 *)
(*                                                                         *)
(* Text is a sequence of tokens: a path, a name or a part of one, a        *)
(* character of a value, "?", "=", "&", " ".  A request is what its client *)
(* means by it: a verb, a path, a list of parameters, a body, and the text *)
(* behind the URI up to the first NUL.                                     *)
(***************************************************************************)
EXTENDS ImgfsService, Sequences

CONSTANTS
  Requests,
  TextOf,      \* the text of each id
  MAX_IMG_ID,  \* an id has fewer tokens
  MAX_RES      \* and a resolution at most so many

VARIABLE asked  \* history: the request handled last

reqvars == <<svcvars, asked>>

Tokens(seq) == {seq[i] : i \in DOMAIN seq}

-----------------------------------------------------------------------------
(* The text of a request *)

Parameter(p) == p.name \o <<"=">> \o p.value

\* The parameters from the k-th on, each behind a separator.
Query(query) ==
  LET text[k \in 1 .. Len(query) + 1] ==
        IF k > Len(query) THEN <<>>
        ELSE <<IF k = 1 THEN "?" ELSE "&">> \o Parameter(query[k]) \o text[k + 1]
  IN  text[1]

\* struct http_message, as the parser fills it: the URI and what lies behind.
Uri(r) == r.path \o Query(r.query)
Stream(r) == Uri(r) \o r.behind

-----------------------------------------------------------------------------
(* What the server makes of it *)

MatchUri(r, target) == Len(Uri(r)) >= 1 /\ Uri(r)[1] = target

MatchVerb(string, verb) == string = <<verb>>

\* Where the tokens stand in the text, from i on.
Places(text, i, tokens) ==
  {k \in i .. Len(text) - Len(tokens) + 1 :
     \A j \in DOMAIN tokens : text[k + j - 1] = tokens[j]}

\* The first of these places, 0 if there is none.
Strstr(text, i, tokens) ==
  LET places == Places(text, i, tokens)
  IN  IF places = {} THEN 0 ELSE CHOOSE k \in places : \A j \in places : k <= j

\* The value goes on to the end of the URI.
GetVarToEnd(r, name, out_len) ==
  LET place == Strstr(Stream(r), 1, <<name, "=">>)
      start == place + 2
      size  == Len(Uri(r)) + 1 - start
  IN  IF place = 0 THEN Absent
      ELSE IF size < 0 \/ size > out_len THEN Overlong
      ELSE IF size = 0 THEN Absent
      ELSE SubSeq(Stream(r), start, start + size - 1)

\* A size below zero is a large one for the comparison, which is of size_t.
GetVar(r, name, out_len) ==
  LET place == Strstr(Stream(r), 1, <<name, "=">>)
      start == place + 2
      amp   == Strstr(Stream(r), start, <<"&">>)
      end   == IF amp = 0 THEN Len(Uri(r)) + 1 ELSE amp
      size  == end - start
  IN  IF place = 0 THEN Absent
      ELSE IF size < 0 \/ size > out_len THEN Overlong
      ELSE IF size = 0 THEN Absent
      ELSE SubSeq(Stream(r), start, end - 1)

\* The id of a text, or the resolution: resolution_atoi.
Id(value) ==
  IF value \in {Absent, Overlong} THEN value
  ELSE CHOOSE id \in Ids : TextOf[id] = value

Resolution(value) ==
  IF value \in {Absent, Overlong} THEN value
  ELSE IF \E res \in Res : value = <<res>> THEN value[1] ELSE Unknown

IdGot   == [r \in Requests |-> Id(GetVar(r, "img_id", MAX_IMG_ID))]
NameGot == [r \in Requests |-> Id(GetVar(r, "name", MAX_IMG_ID))]
ResGot  == [r \in Requests |-> Resolution(GetVar(r, "res", MAX_RES))]

IsText(seq) == seq \in Seq(Tokens(seq))

\* The ids and resolutions of the instance cover what the server may find; a name
\* has no "=" in it and a value no "&", and the URI ends at a space.
ASSUME RequestsAssumption ==
  /\ MAX_IMG_ID \in Nat /\ MAX_RES \in Nat
  /\ \A r \in Requests :
       /\ r.body \in Images \union {NoImage}
       /\ IdGot[r] \in Parameters(Ids) /\ NameGot[r] \in Parameters(Ids)
       /\ ResGot[r] \in Parameters(Res \union {Unknown})
ASSUME TextAssumption ==
  /\ \A id1, id2 \in Ids : TextOf[id1] = TextOf[id2] => id1 = id2
  /\ \A r \in Requests :
       /\ IsText(r.path) /\ IsText(r.behind)
       /\ r.behind # <<>> => r.behind[1] = " "
       /\ Len(r.query) \in Nat /\ DOMAIN r.query = 1 .. Len(r.query)
       /\ \A k \in DOMAIN r.query :
            /\ IsText(r.query[k].name) /\ IsText(r.query[k].value)
            /\ "=" \notin Tokens(r.query[k].name)
            /\ "&" \notin Tokens(r.query[k].value)

-----------------------------------------------------------------------------
(* handle_http_message *)

IsPage(r)   == MatchVerb(Uri(r), "/") \/ MatchUri(r, "/index.html")
IsList(r)   == MatchUri(r, "/imgfs/list")
IsInsert(r) == MatchUri(r, "/imgfs/insert") /\ MatchVerb(<<r.verb>>, "POST")
IsRead(r)   == MatchUri(r, "/imgfs/read")
IsDelete(r) == MatchUri(r, "/imgfs/delete")

AsksPage(r) == IsPage(r) /\ HandlePage

AsksList(r) == IsList(r) /\ HandleList

AsksInsert(r) ==
  /\ IsInsert(r)
  /\ \/ HandleInsertRefused(NameGot[r], r.body)
     \/ NameGot[r] \in Ids /\ r.body \in Images /\ HandleInsert(NameGot[r], r.body)

AsksRead(r) ==
  /\ IsRead(r)
  /\ \/ HandleReadRefused(IdGot[r], ResGot[r])
     \/ IdGot[r] \in Ids /\ ResGot[r] \in Res /\ HandleRead(IdGot[r], ResGot[r])

AsksDelete(r) ==
  /\ IsDelete(r)
  /\ \/ HandleDeleteRefused(IdGot[r])
     \/ IdGot[r] \in Ids /\ HandleDelete(IdGot[r])

\* The chain of conditions ends without a reply.
AsksOther(r) ==
  /\ ~(IsPage(r) \/ IsList(r) \/ IsInsert(r) \/ IsRead(r) \/ IsDelete(r))
  /\ HandleOther

Asks(r) ==
  /\ \/ AsksPage(r)
     \/ AsksList(r)
     \/ AsksInsert(r)
     \/ AsksRead(r)
     \/ AsksDelete(r)
     \/ AsksOther(r)
  /\ asked' = r

Turns ==
  \/ Startup
  \/ Shutdown
  \/ CommandCreates
  \/ CommandOpens
  \/ CommandCalls
  \/ CommandCloses

RequestInit == ServiceInit /\ asked = "none"

RequestNext == (\E r \in Requests : Asks(r)) \/ (Turns /\ UNCHANGED asked)

RequestSpec == RequestInit /\ [][RequestNext]_reqvars

-----------------------------------------------------------------------------
(* What a client means by its request *)

\* The places of the parameters with just this name.
Given(r, name) == {k \in DOMAIN r.query : r.query[k].name = <<name>>}

FirstGiven(r, name) == CHOOSE k \in Given(r, name) : \A j \in Given(r, name) : k <= j

Meant(r, name, max) ==
  IF Given(r, name) = {} \/ r.query[FirstGiven(r, name)].value = <<>> THEN Absent
  ELSE LET value == r.query[FirstGiven(r, name)].value
       IN  IF Len(value) > max THEN Overlong ELSE value

\* Nothing in the request is mistaken for the parameter or for its end: the path
\* has no "name=" in it and a value no "=", no name before it ends in this one,
\* when it is the last one no "&" lies behind the URI, and when it is not there
\* neither does "name=".
Clear(r, name) ==
  /\ Strstr(r.path, 1, <<name, "=">>) = 0
  /\ \A k \in DOMAIN r.query : "=" \notin Tokens(r.query[k].value)
  /\ IF Given(r, name) = {}
     THEN /\ \A k \in DOMAIN r.query : r.query[k].name[Len(r.query[k].name)] # name
          /\ Strstr(r.behind, 1, <<name, "=">>) = 0
     ELSE /\ \A k \in 1 .. FirstGiven(r, name) - 1 :
               r.query[k].name[Len(r.query[k].name)] # name
          /\ FirstGiven(r, name) = Len(r.query) => "&" \notin Tokens(r.behind)

IsClear(r) ==
  /\ IsInsert(r) => Clear(r, "name")
  /\ IsRead(r) => Clear(r, "img_id") /\ Clear(r, "res")
  /\ IsDelete(r) => Clear(r, "img_id")

IdMeant(r) ==
  IF IsInsert(r) THEN Id(Meant(r, "name", MAX_IMG_ID))
  ELSE IF IsRead(r) \/ IsDelete(r) THEN Id(Meant(r, "img_id", MAX_IMG_ID))
  ELSE Absent

ResMeant(r) == IF IsRead(r) THEN Resolution(Meant(r, "res", MAX_RES)) ELSE Absent

\* No image is added, changed or taken away but under an id that the request's
\* may become.
OnlyIdTouched(id) ==
  \A i \in Slots : disk_metadata'[i] # disk_metadata[i] =>
    \A entry \in {disk_metadata[i], disk_metadata'[i]} :
      entry.is_valid => id \in Ids /\ entry.img_id \in Tails[id]

\* The parameters are found wanting only when they are; a list has none.
RefusalIsDeserved(r) ==
  /\ answer'.err = "ERR_RUNTIME" => IsList(r) \/ Overlong \in {IdMeant(r), ResMeant(r)}
  /\ answer'.err = "ERR_NOT_ENOUGH_ARGUMENTS" => Absent \in {IdMeant(r), ResMeant(r)}
  /\ answer'.err = "ERR_RESOLUTIONS" => ResMeant(r) = Unknown

(***************************************************************************)
(* A request in which nothing can be mistaken for a parameter or for its   *)
(* end does what its URI says: it touches no image but of the id that the  *)
(* URI names, a read is answered with an image at the resolution the URI   *)
(* names, and the parameters are refused only for what they lack.  (The    *)
(* other requests may act on an id that lies in a header: http_prot.c:84,  *)
(* 91.)                                                                    *)
(***************************************************************************)
UriIsObeyed ==
  [][ Handled /\ IsClear(asked') =>
        /\ OnlyIdTouched(IdMeant(asked'))
        /\ RefusalIsDeserved(asked')
        /\ answer'.status = "200 OK" /\ answer'.out # NoImage =>
             /\ reply'.call.id = IdMeant(asked')
             /\ reply'.call.arg = ResMeant(asked')
    ]_reqvars

=============================================================================
