------------------------------ MODULE MCTcpTest ------------------------------
(* Two clients, one of which may be killed, digits of base two. *)
EXTENDS TcpTest

CONSTANTS c1, c2

MCDigits == <<"0", "1">>

\* None, digits, a number below 0, an answer, a full buffer of the server and one
\* byte more.
MCFiles ==
  {<<>>, <<"1", "0", "0">>, <<"-", "1", "1">>, <<"a1", "a2">>, <<"x", "x", "x", "x">>,
   <<"x", "x", "x", "x", "x">>, <<"p">>}

MCPipe == <<"p">>

=============================================================================
