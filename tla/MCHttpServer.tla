----------------------------- MODULE MCHttpServer -----------------------------
(***************************************************************************)
(* Instances of HttpServer: requests without a header line, with one but   *)
(* no body, with a body that fits into the header buffer behind its head,  *)
(* with one that does not, and with as many lines as MAX_HEADERS; for a    *)
(* run of its own, Content-Length: 0.                                      *)
(***************************************************************************)
EXTENDS HttpServerProps

CONSTANTS c1, c2

MCRequests == {"bare", "get", "small", "large", "wide"}

MCAsks == (c1 :> MCRequests) @@ (c2 :> {"get", "large"})

MCLines == [r \in MCRequests |->
              CASE r = "bare" -> <<>> [] r = "get" -> <<"host">>
                [] r = "wide" -> <<"host", "length">>
                [] OTHER -> <<"length">>]

MCLength == [r \in MCRequests |->
               CASE r \in {"small", "wide"} -> 1 [] r = "large" -> 6 [] OTHER -> 0]

MCEmptyAsks   == (c1 :> Requests) @@ (c2 :> Requests)
MCEmpty       == {"empty", "small"}
MCEmptyLines  == [r \in MCEmpty |-> <<"length">>]
MCEmptyLength == [empty |-> 0, small |-> 1]
=============================================================================
