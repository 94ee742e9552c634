------------------------------- MODULE TcpTest -------------------------------
(***************************************************************************)
(* The two programs that try out the socket layer (socket_layer.c):        *)
(* tcp-test-client.c sends the size of a file in digits, waits for "Small  *)
(* file", sends the file and waits for "Accepted"; tcp-test-server.c takes *)
(* one client after the other.  Each waits with one tcp_read, which may    *)
(* return any first part of what has arrived.                              *)
(*                                                                         *)
(* Bytes are digits, a minus sign, NUL, or members of a small set of bytes *)
(* at which strtol() stops (no blank and no plus sign, which it skips);    *)
(* the two answers are three bytes long, the last of them NUL.  A socket   *)
(* that is closed with bytes unread resets the connection.  A send is      *)
(* never short, accept() does not fail, and the file can be opened.        *)
(***************************************************************************)
EXTENDS Integers, SequencesExt

CONSTANTS
  Clients,
  Impatient,         \* those that may be killed at any time
  Files,             \* what the file of a client may be
  Pipe,              \* the one that cannot be sought
  Digits,            \* the digits, from 0 on
  Junk,              \* what a client finds on its stack: each byte of its buffer
  MAX_SERVER_SIZE,
  MAX_CLIENT_SIZE,
  LONG_MAX

NUL   == "NUL"
Small == <<"s1", "s2", NUL>>   \* "Small file"
Ack   == <<"a1", "a2", NUL>>   \* "Accepted"
Minus == "-"

SIZE_MAX == 2 * LONG_MAX + 1

FileBytes == UNION {ToSet(f) : f \in Files}

\* No answer has a digit in it, and ftell() can tell every size.
ASSUME TcpAssumption ==
  /\ Impatient \subseteq Clients
  /\ Digits \in Seq(ToSet(Digits)) /\ Len(Digits) >= 2 /\ IsInjective(Digits)
  /\ ToSet(Digits) \intersect (ToSet(Small \o Ack) \union {Minus}) = {}
  /\ Files \subseteq Seq(FileBytes)
  /\ MAX_SERVER_SIZE \in Nat \ {0}
  /\ MAX_CLIENT_SIZE \in Nat /\ MAX_CLIENT_SIZE > MAX_SERVER_SIZE
  /\ LONG_MAX \in Nat /\ LONG_MAX > MAX_CLIENT_SIZE
  /\ \A f \in Files : Len(f) <= LONG_MAX

VARIABLES
  file,     \* the file of each client
  cpc,      \* where each client is in main
  cbuffer,  \* its buffer
  up,       \* bytes on their way to the server
  down,     \* bytes on their way to the client
  hung,     \* the sides of each connection that are closed
  spc,      \* where the server is in its loop
  queue,    \* the clients that wait for accept()
  buffer,   \* the server's buffer
  len       \* the size it was told

VARIABLES
  taken,    \* history: the size the server took for each client's
  whole,    \* history: the digits of the size came in one read
  received  \* history: the bytes the server took for each client's file

cvars   == <<cpc, cbuffer>>
net     == <<up, down, hung>>
svars   == <<spc, queue, buffer, len>>
history == <<taken, whole, received>>
vars    == <<file, cvars, net, svars, history>>

-----------------------------------------------------------------------------
(* Bytes *)

\* ftell() at the end of a file
Size(f) == IF f = Pipe THEN -1 ELSE Len(f)

Numeral(n) ==
  LET text[k \in 0 .. n] ==
        IF k < Len(Digits) THEN <<Digits[k + 1]>>
        ELSE Append(text[k \div Len(Digits)], Digits[(k % Len(Digits)) + 1])
  IN  text[n]

\* snprintf("%ld")
Text(n) == IF n < 0 THEN <<Minus>> \o Numeral(-n) ELSE Numeral(n)

DigitValue(d) == (CHOOSE i \in DOMAIN Digits : Digits[i] = d) - 1

\* The number of digits a buffer starts with.
Leading(b) ==
  CHOOSE n \in 0 .. Len(b) :
    /\ \A i \in 1 .. n : b[i] \in ToSet(Digits)
    /\ n < Len(b) => b[n + 1] \notin ToSet(Digits)

Value(b) ==
  LET value[n \in 0 .. Len(b)] ==
        IF n = 0 THEN 0 ELSE value[n - 1] * Len(Digits) + DigitValue(b[n])
  IN  value[Leading(b)]

\* A long holds no more: strtol() gives the nearest.
Clamp(n) ==
  IF n > LONG_MAX THEN LONG_MAX ELSE IF n < -LONG_MAX - 1 THEN -LONG_MAX - 1 ELSE n

\* strtol(buffer, NULL, 10)
Strtol(b) == Clamp(IF b[1] = Minus THEN -Value(Tail(b)) ELSE Value(b))

\* A long that is passed for a size_t.
AsSize(n) == IF n < 0 THEN n + SIZE_MAX + 1 ELSE n

\* A buffer into which bytes have been read: the rest stays as it was.
Over(b, bytes) ==
  [i \in 1 .. Len(b) |-> IF i <= Len(bytes) THEN bytes[i] ELSE b[i]]

\* strcmp(buffer, answer) == 0
Equals(b, answer) == IsPrefix(answer, b)

\* The part of the stream that recv() may hand over: of n bytes at most.
Parts(stream, n) ==
  {SubSeq(stream, 1, k) : k \in 1 .. IF Len(stream) < n THEN Len(stream) ELSE n}

-----------------------------------------------------------------------------
Blank(n, byte) == [i \in 1 .. n |-> byte]

\* tcp_server_init: the port may be taken, and main returns.
ServerInit == {[at |-> "accept"], [at |-> "ended"]}

Init ==
  /\ file \in [Clients -> Files]
  /\ cpc = [c \in Clients |-> "start"]
  /\ cbuffer \in [Clients -> {Blank(MAX_CLIENT_SIZE, byte) : byte \in Junk}]
  /\ up = [c \in Clients |-> <<>>]
  /\ down = [c \in Clients |-> <<>>]
  /\ hung = [c \in Clients |-> {}]
  /\ spc \in ServerInit
  /\ queue = <<>>
  /\ buffer = Blank(MAX_SERVER_SIZE, NUL)
  /\ len = 0
  /\ taken = [c \in Clients |-> 0]
  /\ whole = [c \in Clients |-> FALSE]
  /\ received = [c \in Clients |-> <<>>]

Ended == spc.at = "ended"

-----------------------------------------------------------------------------
(* The client *)

Goes(c, at) == cpc' = [cpc EXCEPT ![c] = at]

\* close(): what this side has not read resets the connection.
Hangs(c, side, unread) ==
  hung' = [hung EXCEPT ![c] = @ \union {side} \union (IF unread = <<>> THEN {} ELSE {"reset"})]

Reset(c) == "reset" \in hung[c]

ClientEnds(c, at, unread) == Goes(c, at) /\ Hangs(c, "client", unread)

\* tcp_client_init fails when nobody listens.
Refused(c) ==
  /\ cpc[c] = "start"
  /\ Ended
  /\ Goes(c, "failed")
  /\ UNCHANGED <<file, cbuffer, net, svars, history>>

Connects(c) ==
  /\ cpc[c] = "start"
  /\ ~Ended
  /\ Goes(c, "connected")
  /\ queue' = Append(queue, c)
  /\ cbuffer' = [cbuffer EXCEPT ![c] = Over(@, Append(Text(Size(file[c])), NUL))]
  /\ UNCHANGED <<file, net, spc, buffer, len, history>>

\* A server that has ended in the meantime has reset the connection.
SendsSize(c) ==
  /\ cpc[c] = "connected"
  /\ ~Reset(c)
  /\ Goes(c, "sized")
  /\ up' = [up EXCEPT ![c] = Text(Size(file[c]))]
  /\ UNCHANGED <<file, cbuffer, down, hung, svars, history>>

\* tcp_read of an answer: some of it, also of one that came before a reset, or
\* nothing once the server has closed.
Hears(c, at, bytes) ==
  /\ cpc[c] = at
  /\ \/ bytes \in Parts(down[c], MAX_CLIENT_SIZE)
     \/ bytes = <<>> /\ down[c] = <<>> /\ "server" \in hung[c] /\ ~Reset(c)
  /\ down' = [down EXCEPT ![c] = SubSeq(@, Len(bytes) + 1, Len(@))]

\* tcp_read or tcp_send returns an error, or SIGPIPE ends the client.
HearsNothing(c) ==
  /\ cpc[c] \in {"connected", "sized", "sent"}
  /\ Reset(c)
  /\ ClientEnds(c, "failed", <<>>)
  /\ UNCHANGED <<file, cbuffer, up, down, svars, history>>

\* The client sends the file.  An empty one is none for tcp_send; one that fills
\* the buffer is taken for an error of fread(); a pipe is not rewound.
SendsFile(c) ==
  \E bytes \in Parts(down[c], MAX_CLIENT_SIZE) \union {<<>>} :
    /\ Hears(c, "sized", bytes)
    /\ ~Reset(c)
    /\ Equals(Over(cbuffer[c], bytes), Small)
    /\ Size(file[c]) \in 1 .. MAX_CLIENT_SIZE - 1
    /\ Goes(c, "sent")
    /\ up' = [up EXCEPT ![c] = IF "server" \in hung[c] THEN @ ELSE @ \o file[c]]
    /\ hung' = [hung EXCEPT ![c] = IF "server" \in @ THEN @ \union {"reset"} ELSE @]
    /\ cbuffer' = [cbuffer EXCEPT ![c] = Over(Over(@, bytes), Append(file[c], NUL))]
    /\ UNCHANGED <<file, svars, history>>

GivesUp(c) ==
  \E bytes \in Parts(down[c], MAX_CLIENT_SIZE) \union {<<>>} :
    /\ Hears(c, "sized", bytes)
    /\ \/ ~Equals(Over(cbuffer[c], bytes), Small)
       \/ Size(file[c]) \notin 1 .. MAX_CLIENT_SIZE - 1
    /\ ClientEnds(c, "failed", down'[c])
    /\ UNCHANGED <<file, cbuffer, up, svars, history>>

FinishesUnchecked(c) ==
  \E bytes \in Parts(down[c], MAX_CLIENT_SIZE) \union {<<>>} :
    /\ Hears(c, "sent", bytes)
    /\ ClientEnds(c, "done", down'[c])
    /\ UNCHANGED <<file, cbuffer, up, svars, history>>

Finishes(c) ==
  \E bytes \in Parts(down[c], MAX_CLIENT_SIZE) \union {<<>>} :
    /\ Hears(c, "sent", bytes)
    /\ ClientEnds(c, IF Equals(Over(cbuffer[c], bytes), Ack) THEN "done" ELSE "failed",
                  down'[c])
    /\ UNCHANGED <<file, cbuffer, up, svars, history>>

Killed(c) ==
  /\ c \in Impatient
  /\ cpc[c] \in {"connected", "sized", "sent"}
  /\ ClientEnds(c, "failed", down[c])
  /\ UNCHANGED <<file, cbuffer, up, down, svars, history>>

ClientStep(c) ==
  \/ Refused(c)
  \/ Connects(c)
  \/ SendsSize(c)
  \/ HearsNothing(c)
  \/ SendsFile(c)
  \/ GivesUp(c)
  \/ Finishes(c)

-----------------------------------------------------------------------------
(* The server *)

Serves(c, at) == spc.at = at /\ spc.client = c

Accepts ==
  /\ spc.at = "accept"
  /\ queue # <<>>
  /\ spc' = [at |-> "size", client |-> Head(queue)]
  /\ queue' = Tail(queue)
  /\ UNCHANGED <<file, cvars, net, buffer, len, history>>

\* The process is gone, and with it its end of every connection; one that was
\* never accepted is reset.
ServerEnds(unread) ==
  /\ spc' = [at |-> "ended"]
  /\ hung' = [c \in Clients |->
                IF cpc[c] = "start" THEN hung[c]
                ELSE hung[c] \union {"server"}
                       \union (IF unread[c] = <<>> /\ c \notin ToSet(queue) THEN {}
                               ELSE {"reset"})]

\* recv(): some bytes, at most n, or none when the client has closed.
Reads(c, n, bytes) ==
  /\ ~Reset(c)
  /\ \/ bytes \in Parts(up[c], n)
     \/ bytes = <<>> /\ up[c] = <<>> /\ "client" \in hung[c]
  /\ up' = [up EXCEPT ![c] = SubSeq(@, Len(bytes) + 1, Len(@))]
  /\ buffer' = Over(buffer, bytes)

\* tcp_read or tcp_send fails, or SIGPIPE ends the process; recv() may also refuse
\* the size that a negative number of bytes is for it.
ServerFails ==
  /\ spc.at \in {"size", "file"}
  /\ Reset(spc.client) \/ (spc.at = "file" /\ len < 0)
  /\ ServerEnds(up)
  /\ UNCHANGED <<file, cvars, up, down, queue, buffer, len, history>>

Sends(c, answer) ==
  down' = [down EXCEPT ![c] = IF "client" \in hung[c] THEN @ ELSE @ \o answer]

Learns(c, bytes) ==
  /\ Serves(c, "size")
  /\ Reads(c, MAX_SERVER_SIZE, bytes)
  /\ len' = Strtol(buffer')
  /\ taken' = [taken EXCEPT ![c] = len']
  /\ whole' = [whole EXCEPT ![c] = bytes = Text(Size(file[c]))]
  /\ UNCHANGED <<file, cvars, queue, received>>

TakesAnySize(c, bytes) ==
  /\ Learns(c, bytes)
  /\ len' # 0
  /\ Sends(c, Small)
  /\ spc' = [at |-> "file", client |-> c]
  /\ hung' = [hung EXCEPT ![c] = IF "client" \in @ THEN @ \union {"reset"} ELSE @]

\* Nobody asks whether the size is negative.
TakesSize(c, bytes) ==
  /\ Learns(c, bytes)
  /\ len' # 0 /\ len' <= MAX_SERVER_SIZE
  /\ Sends(c, Small)
  /\ spc' = [at |-> "file", client |-> c]
  /\ hung' = [hung EXCEPT ![c] = IF "client" \in @ THEN @ \union {"reset"} ELSE @]

\* A size of 0 is answered as well, but tcp_read then refuses to read no bytes.
TakesNoSize(c, bytes) ==
  /\ Learns(c, bytes)
  /\ len' = 0
  /\ Sends(c, Small)
  /\ ServerEnds(up')

RejectsAtLimit(c, bytes) ==
  /\ Learns(c, bytes)
  /\ len' >= MAX_SERVER_SIZE
  /\ ServerEnds(up')
  /\ UNCHANGED down

\* The refusal is sent to the socket that listens, which is no connection.
Rejects(c, bytes) ==
  /\ Learns(c, bytes)
  /\ len' > MAX_SERVER_SIZE
  /\ ServerEnds(up')
  /\ UNCHANGED down

TakesWholeFile(c, bytes) ==
  /\ Serves(c, "file")
  /\ Reads(c, AsSize(len), bytes)
  /\ Len(bytes) = AsSize(len)
  /\ Sends(c, Ack)
  /\ received' = [received EXCEPT ![c] = bytes]
  /\ spc' = [at |-> "accept"]
  /\ Hangs(c, "server", up'[c])
  /\ UNCHANGED <<file, cvars, queue, len, taken, whole>>

TakesFile(c, bytes) ==
  /\ Serves(c, "file")
  /\ Reads(c, AsSize(len), bytes)
  /\ Sends(c, Ack)
  /\ received' = [received EXCEPT ![c] = bytes]
  /\ spc' = [at |-> "accept"]
  /\ Hangs(c, "server", up'[c])
  /\ UNCHANGED <<file, cvars, queue, len, taken, whole>>

ServerStep ==
  \/ Accepts
  \/ ServerFails
  \/ \E c \in Clients : \E bytes \in Parts(up[c], SIZE_MAX) \union {<<>>} :
       \/ TakesSize(c, bytes)
       \/ TakesNoSize(c, bytes)
       \/ Rejects(c, bytes)
       \/ TakesFile(c, bytes)

-----------------------------------------------------------------------------
Next ==
  \/ ServerStep
  \/ \E c \in Clients : ClientStep(c) \/ Killed(c)

\* recv() returns once something has arrived, and the kernel runs every process.
Spec == Init /\ [][Next]_vars /\ WF_vars(ServerStep)
             /\ \A c \in Clients : WF_vars(ClientStep(c))

-----------------------------------------------------------------------------
(* What the two programs promise *)

Bytes == ToSet(Digits) \union ToSet(Small) \union ToSet(Ack) \union {Minus}
           \union FileBytes \union Junk

\* The state keeps its types; a size that is waited for is not 0 and passed the one
\* check there is (tcp-test-server.c:51).
TcpTypeOK ==
  /\ \A c \in Clients :
       /\ file[c] \in Files
       /\ cpc[c] \in {"start", "connected", "sized", "sent", "done", "failed"}
       /\ DOMAIN cbuffer[c] = 1 .. MAX_CLIENT_SIZE /\ ToSet(cbuffer[c]) \subseteq Bytes
       /\ ToSet(up[c] \o down[c] \o received[c]) \subseteq Bytes
       /\ hung[c] \subseteq {"client", "server", "reset"}
       /\ taken[c] \in Int /\ whole[c] \in BOOLEAN
  /\ spc.at \in {"accept", "size", "file", "ended"}
  /\ DOMAIN buffer = 1 .. MAX_SERVER_SIZE /\ ToSet(buffer) \subseteq Bytes
  /\ IsInjective(queue)
  /\ spc.at = "file" => len \in Int /\ len # 0 /\ len <= MAX_SERVER_SIZE

\* What the server reads for a file fits its buffer, although a negative size passes
\* its check and is a huge one for recv() (tcp-test-server.c:51, 74): the size of
\* a pipe, or what strtol() finds of an earlier file in the buffer when a client
\* was killed before it sent its size.  Neither client sends a file then.
FileFits == \A c \in Clients : Len(received[c]) <= MAX_SERVER_SIZE

\* A client that says "Done" has been heard: when its size was read in one piece,
\* the server has the file or a first part of it, and has it already.  (It need
\* not be the whole file: one tcp_read takes what is there.)
DoneMeansReceived ==
  \A c \in Clients :
    cpc[c] = "done" /\ whole[c] => received[c] # <<>> /\ IsPrefix(received[c], file[c])

\* The server leaves its endless loop only over a client that has given up, that
\* has a pipe, an empty file or one that is too large, or whose size it took for
\* another one: clients with good files, whose sizes it takes for what they are,
\* never end it for the next.  (Digits that an earlier file left in the buffer can
\* be taken for more of a size that came in one piece.)
EndHasCause ==
  [][ ~Ended /\ Ended' =>
        LET c == spc.client
        IN  \/ cpc[c] = "failed"
            \/ Size(file[c]) \notin 1 .. MAX_SERVER_SIZE
            \/ taken'[c] # Size(file[c])
    ]_vars

\* Every client ends, whatever the others send, leave out or read in pieces: the
\* two programs never wait for each other.
ClientsEnd == \A c \in Clients : <>(cpc[c] \in {"done", "failed"})

=============================================================================
