--------------------------- MODULE MCHttpWsServer ---------------------------
(***************************************************************************)
(* HttpWsServer for TLC.                                                   *)
(***************************************************************************)
EXTENDS HttpWsServer

\* What two clients send, at once or in parts: orders that share a limit, a
\* request after one that is answered, and WebSockets next to both.
Two(limit, a, b) == [perIp |-> limit, sends |-> <<a, b>>]
MCScenarios ==
  {Two(1, <<"order">>, <<"metrics", "order">>), Two(0, <<"upgrade", "ping">>, <<"snapshot">>),
   Two(2, <<"upgrade", "close">>, <<"other", "bad">>), Two(0, <<"upgrade", "ping">>, <<"upgrade">>)}
=============================================================================
