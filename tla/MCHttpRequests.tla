---------------------------- MODULE MCHttpRequests ----------------------------
(***************************************************************************)
(* The server, its requests and the commands on a file of two slots and    *)
(* three ids: a, b whose text goes on from that of a, and astray, which    *)
(* is what the server makes of a when an "&" lies behind the URI.          *)
(***************************************************************************)
EXTENDS HttpRequests, MCImgfs

CONSTANT astray

MCThreeIds == {a, b, astray}
MCTextOf == [id \in Ids |-> CASE id = a -> <<"a">> [] id = b -> <<"a", "b">>
                              [] id = astray -> <<"a", " ", "H">>]
MCTails == [id \in Ids |-> IF id = a THEN {a, b} ELSE {id}]

Ends == {<<" ", "H">>, <<" ", "H", "&", "H">>, <<" ", "H", "img_id", "=", "a", "&">>}
Plain == <<" ", "H">>

R(verb, path, query, behind, body) ==
  [verb |-> verb, path |-> path, query |-> query, behind |-> behind, body |-> body]
P(name, value) == [name |-> name, value |-> value]

TwoIds == {<<"a">>, <<"a", "b">>}
ThumbRead(id) == <<P(<<"img_id">>, id), P(<<"res">>, <<"thumb">>)>>
MCRequests ==
  {R("GET", path, <<>>, Plain, NoImage) :
     path \in {<<"/">>, <<"/index.html", "x">>, <<"/imgfs/list">>, <<"/imgfs/insert">>}}
  \union {R("POST", <<"/imgfs/insert">>, <<P(<<"name">>, id)>>, Plain, img) :
            id \in TwoIds, img \in Images}
  \union {R("POST", <<"/imgfs/insert">>, <<P(<<"name">>, <<"a">>)>>, end, x) : end \in Ends}
  \union {R("POST", <<"/imgfs/insert">>, <<>>, Plain, x),
          R("POST", <<"/imgfs/insert">>, <<P(<<"name">>, <<"a">>)>>, Plain, NoImage),
          R("POST", <<"/imgfs/insert">>,
            <<P(<<"file", "name">>, <<"a", "b">>), P(<<"name">>, <<"a">>)>>, Plain, y)}
  \union {R("GET", <<"/imgfs/delete">>, query, end, NoImage) :
            query \in {<<>>, <<P(<<"img_id">>, <<"a">>)>>, <<P(<<"img_id">>, <<"a", "b">>)>>,
                       <<P(<<"img_id">>, <<"a", "b", "b", "b">>)>>},
            end \in Ends}
  \union {R("GET", <<"/imgfs/read">>, query, Plain, NoImage) :
            query \in {ThumbRead(<<"a">>), ThumbRead(<<"a", "b">>), ThumbRead(<<>>),
                       <<P(<<"res">>, <<"orig">>), P(<<"img_id">>, <<"a">>)>>,
                       <<P(<<"img_id">>, <<"a">>)>>,
                       <<P(<<"img_id">>, <<"a">>), P(<<"res">>, <<"huge">>)>>}}
  \union {R("GET", <<"/imgfs/read">>, <<P(<<"img_id">>, <<"a">>), P(<<"res">>, <<"orig">>)>>,
            <<" ", "H", "&", "H">>, NoImage)}

\* What no action reads: the last reply, answer and request, and the version but
\* to count it up.
RequestView == <<View, user, kept>>

=============================================================================
