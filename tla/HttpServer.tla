------------------------------ MODULE HttpServer ------------------------------
(***************************************************************************)
(* The server's main loop (imgfs_server.c), http_receive and               *)
(* handle_connection (http_net.c): one process that serves one connection  *)
(* after the other, each until its client hangs up, and the clients it     *)
(* serves.  A step of the server is one turn of the loop of                *)
(* handle_connection: a tcp_read, the parse of what is in the buffer, and  *)
(* when a message is whole the callback and the reset of the buffer.       *)
(*                                                                         *)
(* TCP delivers a client's bytes in order; a read returns any number of    *)
(* the units that are under way.  Clients are the environment.  What one   *)
(* sends before its connection is taken up waits, unseen, as long: here it *)
(* sends once the connection is in hand.                                   *)
(***************************************************************************)
EXTENDS HttpProt

CONSTANTS
  Clients,
  NoClient,
  HeaderSize,    \* MAX_HEADER_SIZE
  Pipeliners,    \* the clients that do not wait for an answer before they send
  Asks,          \* the requests that each client makes
  Faulty,        \* whether an allocation, accept() or a callback may fail
  MaxRequests    \* bound: requests of one client

ASSUME ClientsAssumption ==
  NoClient \notin Clients /\ Pipeliners \subseteq Clients
ASSUME AsksAssumption == Asks \in [Clients -> SUBSET Requests]
ASSUME HeadsFit == /\ HeaderSize \in Nat
                   /\ \A r \in Requests : Len(RequestHead(r)) <= HeaderSize
ASSUME FaultyAssumption == Faulty \in BOOLEAN
ASSUME MaxRequestsAssumption == MaxRequests \in Nat

VARIABLES
  server,             \* in accept(), in tcp_read(), or gone
  conn,               \* the client of the connection in hand
  backlog,            \* connections that wait in the passive socket
  rcvbuf,             \* the bytes of the buffer that are not 0
  allocated,          \* the size of the buffer
  total_bytes_read,
  content_len,
  max_read,
  already_extended,
  num_headers,        \* in struct http_message, on the stack
  client,             \* what a client is doing
  sent,               \* the requests sent over the connection in hand
  stream,             \* its bytes that the server has not read yet
  handled,            \* what the callback was handed for them
  leftover            \* history: what this connection found of an earlier one

buffer == <<rcvbuf, allocated, total_bytes_read, content_len, max_read,
            already_extended, num_headers>>
loop   == <<server, conn, backlog>>
peers  == <<client, sent, stream, handled>>
vars   == <<loop, buffer, peers, leftover>>

Least2(a, b) == IF a <= b THEN a ELSE b

Running == server \in {"accepting", "reading"}

TypeOK ==
  /\ server \in {"accepting", "reading", "stopped", "crashed", "killed"}
  /\ conn \in Clients \union {NoClient}
  /\ backlog \in Seq(Clients)
  /\ rcvbuf \in Seq(Units)
  /\ allocated \in Nat
  /\ total_bytes_read \in Nat
  /\ content_len \in Nat
  /\ max_read \in Nat
  /\ already_extended \in BOOLEAN
  /\ num_headers \in Nat
  /\ client \in [Clients -> {"new", "open", "closed"}]
  /\ sent \in Seq(Requests)
  /\ stream \in Seq(Units)
  /\ handled \in Seq([request : Requests, body : Seq(Units)])
  /\ leftover \subseteq {"buffer", "message"}

Init ==
  /\ server = "accepting"
  /\ conn = NoClient
  /\ backlog = <<>>
  /\ rcvbuf = <<>>
  /\ allocated = 0
  /\ total_bytes_read = 0
  /\ content_len = 0
  /\ max_read = 0
  /\ already_extended = FALSE
  /\ num_headers = 0
  /\ client = [c \in Clients |-> "new"]
  /\ sent = <<>>
  /\ stream = <<>>
  /\ handled = <<>>
  /\ leftover = {}

-----------------------------------------------------------------------------
(* The clients *)

Connect(c) ==
  /\ Running
  /\ client[c] = "new"
  /\ client' = [client EXCEPT ![c] = "open"]
  /\ backlog' = Append(backlog, c)
  /\ UNCHANGED <<server, conn, buffer, sent, stream, handled, leftover>>

\* An answer has come for each request that was handled.
Send(c, r) ==
  /\ server = "reading" /\ conn = c
  /\ client[c] = "open"
  /\ Len(sent) < MaxRequests
  /\ c \in Pipeliners \/ Len(handled) = Len(sent)
  /\ sent' = Append(sent, r)
  /\ stream' = stream \o Message(r)
  /\ UNCHANGED <<loop, buffer, client, handled, leftover>>

\* A client goes away, and some of what it wanted to send with it.
HangUp(c) ==
  /\ client[c] = "open"
  /\ client' = [client EXCEPT ![c] = "closed"]
  /\ IF conn = c THEN \E n \in 0..Len(stream) : stream' = SubSeq(stream, 1, n)
                 ELSE UNCHANGED stream
  /\ UNCHANGED <<loop, buffer, sent, handled, leftover>>

-----------------------------------------------------------------------------
(* The end of a connection *)

\* handle_connection returns ERR_NONE.
NextConnection ==
  /\ server' = "accepting"
  /\ conn' = NoClient
  /\ sent' = <<>>
  /\ stream' = <<>>
  /\ handled' = <<>>

\* The memory of the process is gone.
Gone(how) ==
  /\ server' = how
  /\ rcvbuf' = <<>>
  /\ allocated' = 0
  /\ total_bytes_read' = 0
  /\ content_len' = 0
  /\ max_read' = 0
  /\ already_extended' = FALSE
  /\ num_headers' = 0
  /\ UNCHANGED conn

\* handle_connection returns an error: the loop of main ends.  Or a signal does
\* the same: server_shutdown.
Stop == Gone("stopped")

\* The parser or the loop touches memory that is not its own.
Crash ==
  /\ server' = "crashed"
  /\ UNCHANGED conn

-----------------------------------------------------------------------------
(***************************************************************************)
(* http_receive, and handle_connection up to its loop.  The buffer comes   *)
(* from malloc and the message from the stack: both may hold what an       *)
(* earlier connection has left there.                                      *)
(***************************************************************************)
Accept ==
  /\ server = "accepting"
  /\ backlog # <<>>
  /\ conn' = Head(backlog)
  /\ backlog' = Tail(backlog)
  /\ server' = "reading"
  /\ rcvbuf' \in {<<>>, SubSeq(rcvbuf, 1, Least2(HeaderSize, Len(rcvbuf)))}
  /\ num_headers' \in {0, num_headers}
  /\ allocated' = HeaderSize
  /\ total_bytes_read' = 0
  /\ content_len' = 0
  /\ max_read' = HeaderSize
  /\ already_extended' = FALSE
  /\ leftover' = (IF rcvbuf' # <<>> THEN {"buffer"} ELSE {})
                    \union (IF num_headers' # 0 THEN {"message"} ELSE {})
  /\ UNCHANGED peers

\* accept() or the malloc of the buffer fails.
AcceptFails ==
  /\ Faulty
  /\ server = "accepting"
  /\ backlog # <<>>
  /\ backlog' = Tail(backlog)
  /\ Stop
  /\ UNCHANGED <<peers, leftover>>

-----------------------------------------------------------------------------
(* One turn of the loop of handle_connection *)

\* The buffer when n more units have been read over what it held.
Filled(n) ==
  LET total == total_bytes_read + n
  IN  SubSeq(rcvbuf, 1, total_bytes_read) \o SubSeq(stream, 1, n)
        \o SubSeq(rcvbuf, total + 1, Len(rcvbuf))

\* tcp_read returns n.
Reads(n, buf) ==
  /\ server = "reading"
  /\ rcvbuf' = buf
  /\ total_bytes_read' = total_bytes_read + n
  /\ stream' = SubSeq(stream, n + 1, Len(stream))

Overruns(n) == total_bytes_read + n > allocated

\* The bytes do not fit into the buffer: the process, which the Makefile builds
\* with the address sanitizer, ends.
ReadOverruns(n, buf) ==
  /\ Reads(n, buf)
  /\ Overruns(n)
  /\ Crash
  /\ UNCHANGED <<backlog, allocated, content_len, max_read, already_extended,
                 num_headers, client, sent, handled, leftover>>

\* The parser follows a pointer that is none.
ReadUndefined(n, buf, p) ==
  /\ Reads(n, buf)
  /\ ~Overruns(n)
  /\ p.result \in {"undefined", "any"}
  /\ Crash
  /\ UNCHANGED <<backlog, allocated, content_len, max_read, already_extended,
                 num_headers, client, sent, handled, leftover>>

Partial(n, p) == ~Overruns(n) /\ p.result \in {"partial", "any"}

\* The buffer is to be made larger, once a message.
Extends(n, p) ==
  /\ p.content_len > 0
  /\ total_bytes_read + n < p.content_len
  /\ ~already_extended

ReadExtends(n, buf, p) ==
  /\ Reads(n, buf)
  /\ Partial(n, p)
  /\ Extends(n, p)
  /\ content_len' = p.content_len
  /\ num_headers' = p.num_headers
  /\ already_extended' = TRUE
  /\ allocated' = HeaderSize + p.content_len
  /\ max_read' = p.content_len
  /\ UNCHANGED <<loop, client, sent, handled, leftover>>

ReadMore(n, buf, p) ==
  /\ Reads(n, buf)
  /\ Partial(n, p)
  /\ ~Extends(n, p)
  /\ content_len' = p.content_len
  /\ num_headers' = p.num_headers
  /\ UNCHANGED <<loop, allocated, max_read, already_extended, client, sent,
                 handled, leftover>>

\* realloc fails.
ExtendFails(n, buf, p) ==
  /\ Faulty
  /\ server = "reading"
  /\ Partial(n, p)
  /\ Extends(n, p)
  /\ Stop
  /\ stream' = SubSeq(stream, n + 1, Len(stream))
  /\ UNCHANGED <<backlog, client, sent, handled, leftover>>

\* The message is whole: the callback is called.
ReadWhole(n, buf, p) ==
  /\ server = "reading"
  /\ ~Overruns(n)
  /\ p.result \in {"whole", "any"}
  /\ stream' = SubSeq(stream, n + 1, Len(stream))
  /\ handled' = Append(handled, [request |-> buf[FirstSpace(buf)].of,
                                 body    |-> p.body])
  /\ UNCHANGED <<backlog, client, sent, leftover>>

\* As much has been read.
ExceedsOrMeets(n, buf, p) ==
  /\ Ends(buf) # {}
  /\ total_bytes_read + n >= BlankLine(buf) + p.content_len

\* More has been read than the head and Content-Length.
Exceeds(n, buf, p) ==
  /\ Ends(buf) # {}
  /\ total_bytes_read + n > BlankLine(buf) + p.content_len

\* The buffer has its first size again and is still taken for the larger one.
ClearBufferExtended ==
  /\ rcvbuf' = <<>>
  /\ allocated' = HeaderSize
  /\ total_bytes_read' = 0
  /\ content_len' = 0
  /\ max_read' = HeaderSize
  /\ UNCHANGED already_extended
  /\ num_headers' = 0

\* The buffer, the message and the variables of the loop start afresh.
ClearBuffer ==
  /\ rcvbuf' = <<>>
  /\ allocated' = HeaderSize
  /\ total_bytes_read' = 0
  /\ content_len' = 0
  /\ max_read' = HeaderSize
  /\ already_extended' = FALSE
  /\ num_headers' = 0

HandleWhole(n, buf, p) ==
  /\ ReadWhole(n, buf, p)
  /\ ~Exceeds(n, buf, p)
  /\ ClearBuffer
  /\ UNCHANGED <<server, conn>>

\* The excess is copied back with a length made of variables that have been
\* reset by then.
HandleExceeding(n, buf, p) ==
  /\ ReadWhole(n, buf, p)
  /\ Exceeds(n, buf, p)
  /\ Crash
  /\ UNCHANGED buffer

\* The callback returns an error, as http_reply does to a client that is gone,
\* or the allocations after it fail.
HandleFails(n, buf, p) ==
  /\ ReadWhole(n, buf, p)
  /\ Faulty \/ client[conn] = "closed"
  /\ Stop

\* The process ends inside the callback: send() to a client that is gone raises
\* SIGPIPE, and do_list writes its text to NULL when there is no memory for it.
HandleKilled(n, buf, p) ==
  /\ ReadWhole(n, buf, p)
  /\ Faulty \/ client[conn] = "closed"
  /\ Gone("killed")

\* The end of the stream is read again and again.
PeerClosedUnseen ==
  /\ server = "reading"
  /\ client[conn] = "closed"
  /\ stream = <<>>
  /\ UNCHANGED vars

\* tcp_read returns 0.
PeerClosed ==
  /\ server = "reading"
  /\ client[conn] = "closed"
  /\ stream = <<>>
  /\ NextConnection
  /\ UNCHANGED <<backlog, buffer, client, leftover>>

\* tcp_read returns an error: the client has reset the connection.
ReadFails ==
  /\ server = "reading"
  /\ client[conn] = "closed"
  /\ Stop
  /\ UNCHANGED <<backlog, peers, leftover>>

\* SIGINT or SIGTERM: server_shutdown, then exit.
Interrupt ==
  /\ Running
  /\ Stop
  /\ UNCHANGED <<backlog, peers, leftover>>

-----------------------------------------------------------------------------
\* n is what one read returns, buf what the buffer holds then, and p what the
\* parser says of it.
Receive ==
  \E n \in 1..Least2(max_read, Len(stream)) :
    LET buf == Filled(n)
        p   == Parse(buf, total_bytes_read + n, content_len, num_headers)
    IN  \/ ReadOverruns(n, buf)
        \/ ReadUndefined(n, buf, p)
        \/ ReadExtends(n, buf, p)
        \/ ReadMore(n, buf, p)
        \/ ExtendFails(n, buf, p)
        \/ HandleWhole(n, buf, p)
        \/ HandleExceeding(n, buf, p)
        \/ HandleFails(n, buf, p)
        \/ HandleKilled(n, buf, p)

ServerStep == Accept \/ Receive \/ PeerClosed \/ ReadFails

ClientStep ==
  \E c \in Clients :
    \/ Connect(c)
    \/ \E r \in Asks[c] : Send(c, r)
    \/ HangUp(c)

Next == ServerStep \/ AcceptFails \/ Interrupt \/ ClientStep

(***************************************************************************)
(* The process runs whenever it is not blocked: a connection that waits is *)
(* accepted, bytes that have come are read, the end of a stream is noticed.*)
(* Drains is what every step of Receive does to the stream, whatever comes *)
(* of it, and is enabled when one of them is.                              *)
(***************************************************************************)
Drains ==
  /\ server = "reading"
  /\ \E n \in 1..Len(stream) : stream' = SubSeq(stream, n + 1, Len(stream))

Fairness == WF_vars(Accept) /\ WF_stream(Drains) /\ WF_vars(PeerClosed)

Spec == Init /\ [][Next]_vars /\ Fairness

=============================================================================
