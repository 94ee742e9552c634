---------------------------- MODULE HttpServerProps ----------------------------
(***************************************************************************)
(* What the clients of HttpServer may rely on.                             *)
(***************************************************************************)
EXTENDS HttpServer, SequencesExt

Polite(c) == c \notin Pipeliners

\* The first request that has not been handled yet.
Pending == sent[Len(handled) + 1]

\* A request with fewer than MAX_HEADERS header lines: with as many, the parser
\* never looks for the blank line (http_prot.c:147).
Narrow(r) == Len(Lines[r]) < MAX_HEADERS

AllNarrow == \A k \in DOMAIN sent : Narrow(sent[k])

\* The callback was handed the k-th request of the connection for its k-th.
Matches(k) ==
  /\ k <= Len(sent)
  /\ handled[k].request = sent[k]
  /\ IsPrefix(Body(sent[k]), handled[k].body)
  /\ Polite(conn) => handled[k].body = Body(sent[k])

(***************************************************************************)
(* However a client's bytes are cut into reads, the callback is handed its *)
(* requests in the order it sent them, none twice, each with all of its    *)
(* body, and with nothing else when the client waits for its answers: on a *)
(* connection whose buffer and message were clear when it was accepted,    *)
(* as http_parse_message assumes, by a client that sends fewer than        *)
(* MAX_HEADERS lines with each request.                                    *)
(***************************************************************************)
HandedAsSent ==
  leftover = {} /\ AllNarrow => \A k \in DOMAIN handled : Matches(k)

(***************************************************************************)
(* The same of a connection whose buffer holds bytes of an earlier one,    *)
(* and whose message, on the stack, is clear.                              *)
(***************************************************************************)
HandedFromAnyBuffer ==
  leftover = {"buffer"} /\ AllNarrow => \A k \in DOMAIN handled : Matches(k)

(***************************************************************************)
(* A client that waits for its answers and whose request line arrives in   *)
(* one read does not take the process down with a message that fits into   *)
(* MAX_HEADER_SIZE and has fewer than MAX_HEADERS lines, nor with a larger *)
(* one once the buffer was extended, whether it stays or leaves: where the *)
(* loop or the parser crashes, the request line was cut and the message    *)
(* not handed over yet, or one of the other causes was there.              *)
(***************************************************************************)
LineCut  == total_bytes_read' < 3 /\ handled' = handled
TooLarge == ~already_extended /\ Len(Message(Pending)) > HeaderSize

CrashHasCause ==
  [][server' = "crashed" /\ server # "crashed" =>
       \/ leftover # {}
       \/ ~AllNarrow
       \/ ~Polite(conn)
       \/ LineCut
       \/ TooLarge]_vars

(***************************************************************************)
(* Once the buffer has been extended for the body of a message, what its   *)
(* client has still under way fits into it: wherever the message was cut,  *)
(* the two sizes that the code adds up, of a buffer and of a body, are     *)
(* enough.                                                                 *)
(***************************************************************************)
ExtendedFits ==
  /\ server = "reading" /\ already_extended
  /\ leftover = {} /\ Polite(conn) /\ AllNarrow
  => total_bytes_read + Len(stream) <= allocated

(***************************************************************************)
(* A message is not left in the buffer when it is whole.                   *)
(***************************************************************************)
WholeIsHandled ==
  server = "reading" /\ leftover = {} /\ Polite(conn) =>
    \A r \in Requests : rcvbuf # Message(r)

-----------------------------------------------------------------------------
\* The parser sees the end of such a message: see WholeIsHandled.
Answerable(r) == Length[r] > 0 \/ (Lines[r] # <<>> /\ ~Announces(r))

(***************************************************************************)
(* The connection in hand is served: each of its requests is handed to the *)
(* callback, however the reads cut it, unless the process ends or the      *)
(* client leaves.                                                          *)
(***************************************************************************)
Waits(c, k) ==
  /\ conn = c /\ server = "reading" /\ leftover = {}
  /\ Polite(c) /\ client[c] = "open"
  /\ Len(sent) = k /\ Len(handled) < k
  /\ \A i \in 1..k : Answerable(sent[i])

Answered ==
  \A c \in Clients : \A k \in 1..MaxRequests :
    Waits(c, k) ~> (Len(handled) >= k \/ ~Running \/ client[c] = "closed")

(***************************************************************************)
(* A connection in the backlog is taken up if the other clients do not     *)
(* stay for ever: the server looks at no other connection while a client   *)
(* keeps its own open, even one that sends nothing.                        *)
(***************************************************************************)
InBacklog(c) == \E i \in DOMAIN backlog : backlog[i] = c

OthersLeave(c) == \A d \in Clients \ {c} : []<>(client[d] # "open")

PatientTurn ==
  \A c \in Clients :
    OthersLeave(c) => (InBacklog(c) ~> (conn = c \/ ~Running))

=============================================================================
