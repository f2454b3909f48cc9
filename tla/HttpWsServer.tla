---------------------------- MODULE HttpWsServer ----------------------------
(***************************************************************************)
(* The HTTP and WebSocket server (http_ws_server.cpp) on top of the        *)
(* gateway.  A thread accepts connections and starts one thread for each;  *)
(* the bus thread broadcasts ticks to the WebSocket ones; a control thread *)
(* starts and stops the server.  connections_ is keyed by socket handle    *)
(* and under a mutex, the sends and the closing of a socket are not: the   *)
(* operating system may give a handle out again as soon as it is closed.   *)
(* A message is a whole HTTP request or WebSocket frame.                   *)
(***************************************************************************)
EXTENDS MarketGateway, SequencesExt

CONSTANTS Handles, NoClient,
          Clients,        \* connections, numbered as they are accepted; each gets a thread
          Scenarios       \* [perIp |-> max_requests_per_ip, sends |-> client -> messages]

\* What a client can send: HTTP requests, of which one asks for a WebSocket, and
\* then frames.
Messages == {"metrics", "snapshot", "upgrade", "order", "other", "bad", "ping", "close"}

ASSUME ServerAssumption ==
  /\ Handles \subseteq Nat /\ NoClient \notin Clients /\ Clients \subseteq Callers
  /\ Scenarios \subseteq [perIp : Nat, sends : [Clients -> Seq(Messages)]]

VARIABLES running, control, \* running_, and where start or stop is
          closing,  \* handles that stop has still to close
          maxPerIp, ipWindow,   \* all clients share an address
          socket,   \* handle -> the client the system has it open for
          conn,     \* handle -> its ConnectionState (connections_)
          thread,   \* client -> the thread that was started for it
          inbox,    \* client -> what it sent and nobody received yet
          got,      \* client -> what it received
          gone,     \* clients that hung up
          cast,     \* handles a broadcast has still to send to
          shared    \* history: a handle was given out again while a thread
                    \* or a broadcast still meant its last connection

life == <<running, control, closing>>
limits == <<maxPerIp, ipWindow>>
net == <<socket, inbox, got, gone>>
serverVars == <<life, limits, net, conn, thread, cast, shared>>
systemVars == <<gatewayVars, serverVars>>

NewConnection == [ws |-> FALSE, buffer |-> <<>>]
NoThread == [pc |-> "none", fd |-> 0, msg |-> "none"]
At(c, pcs) == thread[c].pc \in pcs
Go(c, pc) == thread' = [thread EXCEPT ![c].pc = pc]
NoWindow == [start |-> 0, requests |-> 0]
Live == {c \in Clients : ~ At(c, {"none", "done"})}

\* What a send to a handle reaches: whoever the system has there.
Sent(h, what) ==
  IF socket[h] = NoClient \/ socket[h] \in gone THEN got ELSE [got EXCEPT ![socket[h]] = Append(@, what)]

-----------------------------------------------------------------------------
Start ==
  /\ control = "new" /\ control' = "out" /\ running' = TRUE
  /\ UNCHANGED <<gatewayVars, closing, limits, net, conn, thread, cast, shared>>

\* accept_loop: the connection is entered and its thread started.  It may be
\* past its look at running_ when that is cleared, and accept one more.  The
\* system gives out the least handle that is free.
Accept(c, h) ==
  /\ control \in {"out", "joining"}
  /\ control' = IF control = "out" THEN "out" ELSE "joined"
  /\ thread[c] = NoThread /\ \A d \in Clients : d < c => thread[d] # NoThread
  /\ socket[h] = NoClient /\ \A x \in Handles : x < h => socket[x] # NoClient
  /\ socket' = [socket EXCEPT ![h] = c]
  /\ conn' = [x \in DOMAIN conn \cup {h} |-> IF x = h THEN NewConnection ELSE conn[x]]
  /\ thread' = [thread EXCEPT ![c] = [pc |-> "recv", fd |-> h, msg |-> "none"]]
  /\ shared' = (shared \/ (\E d \in Live : thread[d].fd = h) \/ Contains(cast, h))
  /\ UNCHANGED <<gatewayVars, running, closing, limits, inbox, got, gone, cast>>

\* client_loop receives what is there and finds out how to read it.
Recv(c) ==
  LET h == thread[c].fd
      peer == socket[h]
  IN  /\ At(c, {"recv"})
      /\ \/ /\ ~ running \/ peer = NoClient \/ (peer \in gone /\ inbox[peer] = <<>>)
            /\ Go(c, "lastErase")
            /\ UNCHANGED <<inbox, conn>>
         \/ /\ running /\ peer # NoClient
            /\ \E n \in 1 .. Len(inbox[peer]) :
                 /\ inbox' = [inbox EXCEPT ![peer] = SubSeq(@, n + 1, Len(@))]
                 /\ IF h \notin DOMAIN conn THEN Go(c, "lastErase") /\ UNCHANGED conn
                    ELSE /\ conn' = [conn EXCEPT ![h].buffer = @ \o SubSeq(inbox[peer], 1, n)]
                         /\ Go(c, IF conn[h].ws THEN "ws" ELSE "http")
      /\ UNCHANGED <<gatewayVars, life, limits, socket, got, gone, cast, shared>>

\* Deviation: a thread whose connection is gone looks again.
TakeAgain(c) ==
  LET h == thread[c].fd IN
  /\ At(c, {"http", "ws"}) /\ h \in DOMAIN conn
  /\ IF conn[h].buffer = <<>> THEN Go(c, "recv") /\ UNCHANGED conn
     ELSE /\ thread' = [thread EXCEPT ![c].msg = Head(conn[h].buffer),
                                      ![c].pc = IF At(c, {"http"}) THEN "handle" ELSE "frame"]
          /\ conn' = [conn EXCEPT ![h].buffer = Tail(@)]
  /\ UNCHANGED <<gatewayVars, life, limits, net, cast, shared>>

\* handle_http_buffer and handle_websocket_buffer take the next message; when
\* there is none the loop goes on to the next recv.  (It looks for the entry
\* once more; if that is gone by then, so is the socket that recv is called on.)
TakeMessage(c) ==
  LET h == thread[c].fd IN
  /\ At(c, {"http", "ws"})
  /\ IF h \notin DOMAIN conn THEN Go(c, "check") /\ UNCHANGED conn
     ELSE IF conn[h].buffer = <<>> THEN Go(c, "recv") /\ UNCHANGED conn
     ELSE /\ thread' = [thread EXCEPT ![c].msg = Head(conn[h].buffer),
                                      ![c].pc = IF At(c, {"http"}) THEN "handle" ELSE "frame"]
          /\ conn' = [conn EXCEPT ![h].buffer = Tail(@)]
  /\ UNCHANGED <<gatewayVars, life, limits, net, cast, shared>>

\* The status a request gets when it is not a matter of the gateway.
Verdict(a) == CASE a.verdict = "none" -> "101" [] a.verdict = "limited" -> "429" [] OTHER -> "401"
Answer(msg) == CASE msg = "metrics" -> "200" [] msg = "snapshot" -> "200"
                 [] msg = "bad" -> "400" [] OTHER -> "404"

\* allow_ip_request.
IpConsumed == Consumed(ipWindow, maxPerIp)

\* handle_http_request up to its response: allow_ip_request, which metrics
\* and malformed requests are not subject to, then the route.  An upgrade is
\* authorised without counting as an order; an order goes through the gateway
\* (whose steps are those of CallGateway).
Handle(c) ==
  LET w == IpConsumed
      msg == thread[c].msg
      limited == msg \notin {"metrics", "bad"} /\ maxPerIp # 0
      Answered(status, pc) == thread' = [thread EXCEPT ![c].msg = status, ![c].pc = pc]
  IN  /\ At(c, {"handle"})
      /\ ipWindow' = IF limited THEN w.window ELSE ipWindow
      /\ \/ /\ limited /\ ~ w.ok
            /\ Answered("429", "respond") /\ UNCHANGED <<tables, metrics>>
         \/ /\ ~ limited \/ w.ok
            /\ \/ /\ msg \notin {"upgrade", "order"}
                  /\ Answered(Answer(msg), "respond") /\ UNCHANGED <<tables, metrics>>
               \/ /\ msg = "upgrade"
                  /\ \E token \in Tokens :
                       LET a == Authorized(token) IN
                       /\ Admit(token, a)
                       /\ Answered(Verdict(a), IF a.verdict = "none" THEN "accept" ELSE "respond")
                       /\ Count({a.verdict})
               \/ /\ msg = "order"   \* its body is not one
                  /\ Answered("422", "respond") /\ UNCHANGED <<tables, metrics>>
               \/ /\ msg = "order"
                  /\ \E token \in Tokens, taken \in BOOLEAN :
                       LET a == Authorized(token)
                           ok == a.verdict = "none" /\ taken
                       IN  /\ Admit(token, a)
                           /\ Answered(IF a.verdict = "none" /\ ~ taken THEN "422"
                                       ELSE IF ok THEN "200" ELSE Verdict(a), "respond")
                           /\ Count({"requests", IF ok THEN "accepted" ELSE "rejected", a.verdict})
      /\ UNCHANGED <<stream, bounds, call, smeared, life, maxPerIp, net, conn, cast, shared>>

\* Deviation: the connection counts as a WebSocket before the response is sent.
SwitchEarly(c) ==
  LET h == thread[c].fd IN
  /\ At(c, {"accept"})
  /\ IF h \in DOMAIN conn /\ ~ conn[h].ws
     THEN conn' = [conn EXCEPT ![h].ws = TRUE] /\ UNCHANGED <<got, thread>>
     ELSE got' = Sent(h, "101") /\ Go(c, "switch") /\ UNCHANGED conn
  /\ UNCHANGED <<gatewayVars, life, limits, socket, inbox, gone, cast, shared>>

\* The response 101; a client that is gone is closed.
Switch(c) ==
  LET h == thread[c].fd IN
  /\ At(c, {"accept"})
  /\ got' = Sent(h, "101")
  /\ Go(c, IF socket[h] = NoClient \/ socket[h] \in gone THEN "erase" ELSE "switch")
  /\ UNCHANGED <<gatewayVars, life, limits, socket, inbox, gone, conn, cast, shared>>

\* Then the connection becomes a WebSocket and its buffer is cleared.
Switched(c) ==
  LET h == thread[c].fd IN
  /\ At(c, {"switch"})
  /\ conn' = IF h \in DOMAIN conn THEN [conn EXCEPT ![h] = [NewConnection EXCEPT !.ws = TRUE]] ELSE conn
  /\ Go(c, "http")
  /\ UNCHANGED <<gatewayVars, life, limits, net, cast, shared>>

\* send_http_response, then close_socket.
Respond(c) ==
  /\ At(c, {"respond"})
  /\ got' = Sent(thread[c].fd, thread[c].msg)
  /\ Go(c, "erase")
  /\ UNCHANGED <<gatewayVars, life, limits, socket, inbox, gone, conn, cast, shared>>

\* A frame: a close closes the socket, a ping is answered, others are ignored.
Frame(c) ==
  /\ At(c, {"frame"})
  /\ got' = IF thread[c].msg = "ping" THEN Sent(thread[c].fd, "pong") ELSE got
  /\ Go(c, IF thread[c].msg = "close" THEN "erase" ELSE "ws")
  /\ UNCHANGED <<gatewayVars, life, limits, socket, inbox, gone, conn, cast, shared>>

\* close_socket, in a handler and again at the end of client_loop: the entry
\* of the handle goes, then the handle is closed.
Erase(c) ==
  /\ At(c, {"erase", "lastErase"})
  /\ conn' = Without(conn, thread[c].fd)
  /\ Go(c, IF At(c, {"erase"}) THEN "close" ELSE "lastClose")
  /\ UNCHANGED <<gatewayVars, life, limits, net, cast, shared>>

Close(c) ==
  /\ At(c, {"close", "lastClose"})
  /\ socket' = [socket EXCEPT ![thread[c].fd] = NoClient]
  /\ thread' = [thread EXCEPT ![c] = IF At(c, {"close"}) THEN [@ EXCEPT !.pc = "http", !.msg = "none"]
                                     ELSE [NoThread EXCEPT !.pc = "done"]]
  /\ UNCHANGED <<gatewayVars, life, limits, inbox, got, gone, conn, cast, shared>>

\* The loop goes on if the handle has an entry again.
Check(c) ==
  /\ At(c, {"check"})
  /\ Go(c, IF thread[c].fd \in DOMAIN conn THEN "recv" ELSE "lastErase")
  /\ UNCHANGED <<gatewayVars, life, limits, net, conn, cast, shared>>

-----------------------------------------------------------------------------
\* on_market_tick: the handles are copied under the mutex, the sends come after.
Broadcast ==
  /\ control \notin {"new", "absent"} /\ cast = <<>> /\ published < MaxMessages
  /\ published' = published + 1
  /\ cast' = SetToSeq({h \in DOMAIN conn : conn[h].ws})
  /\ UNCHANGED <<tables, stream, now, calls, metrics, call, smeared, life, limits, net, conn, thread, shared>>

BroadcastSend ==
  /\ cast # <<>>
  /\ got' = Sent(Head(cast), "tick")
  /\ cast' = Tail(cast)
  /\ UNCHANGED <<gatewayVars, life, limits, socket, inbox, gone, conn, thread, shared>>

\* stop: the accepting thread is joined, the handles that are entered are
\* closed one by one, then the threads of the clients are joined.
StopBegin ==
  /\ control = "out" /\ control' = "joining" /\ running' = FALSE
  /\ UNCHANGED <<gatewayVars, closing, limits, net, conn, thread, cast, shared>>

StopCopy ==
  /\ control \in {"joining", "joined"} /\ control' = "closing"
  /\ closing' = DOMAIN conn
  /\ UNCHANGED <<gatewayVars, running, limits, net, conn, thread, cast, shared>>

StopClose ==
  /\ \E h \in closing :
       /\ closing' = closing \ {h}
       /\ conn' = Without(conn, h)
       /\ socket' = [socket EXCEPT ![h] = NoClient]
  /\ UNCHANGED <<gatewayVars, running, control, limits, inbox, got, gone, thread, cast, shared>>

StopJoin ==
  /\ control = "closing" /\ closing = {} /\ Live = {} /\ control' = "stopped"
  /\ conn' = <<>> /\ ipWindow' = NoWindow
  /\ UNCHANGED <<gatewayVars, running, closing, maxPerIp, net, thread, cast, shared>>

\* A client hangs up when it has sent all it had.
HangUp(c) ==
  /\ c \notin gone /\ inbox[c] = <<>> /\ c \in Live /\ gone' = gone \cup {c}
  /\ UNCHANGED <<gatewayVars, life, limits, socket, inbox, got, conn, thread, cast, shared>>

-----------------------------------------------------------------------------
\* Either the server is up and its clients are the gateway's callers, or
\* the program calls the gateway from threads of its own.
ServerInit ==
  /\ GatewayInit
  /\ control \in {"new", "absent"} /\ running = FALSE /\ closing = {}
  /\ \E x \in (IF control = "new" THEN Scenarios ELSE {[perIp |-> 0, sends |-> [c \in Clients |-> <<>>]]}) :
       maxPerIp = x.perIp /\ inbox = x.sends
  /\ ipWindow = NoWindow
  /\ socket = [h \in Handles |-> NoClient] /\ conn = <<>>
  /\ thread = [c \in Clients |-> NoThread]
  /\ got = [c \in Clients |-> <<>>] /\ gone = {} /\ cast = <<>> /\ shared = FALSE

\* The rest of the program calls the gateway from threads of its own.
CallGateway ==
  /\ control = "absent"
  /\ \/ \E t \in Callers : CallStep(t) \/ \E token \in Tokens : Request(t, token)
     \/ StartGateway \/ StopGateway \/ Publish \/ OnMarketMessage \/ Decode \/ ResetMetrics \/ ChangeTokens \/ Clock
  /\ UNCHANGED serverVars

ClientStep(c) ==
  \/ Recv(c) \/ TakeMessage(c) \/ Handle(c) \/ Switch(c) \/ Switched(c) \/ Respond(c) \/ Frame(c)
  \/ Erase(c) \/ Close(c) \/ Check(c)

StopStep == StopCopy \/ StopClose \/ StopJoin

ServerNext ==
  \/ CallGateway
  \/ Start \/ StopBegin \/ StopStep \/ Broadcast \/ BroadcastSend
  \/ \E c \in Clients : ClientStep(c) \/ HangUp(c) \/ \E h \in Handles : Accept(c, h)

ServerFairness ==
  /\ \A c \in Clients : WF_systemVars(ClientStep(c))
  /\ WF_systemVars(StopStep)

ServerSpec == ServerInit /\ [][ServerNext]_systemVars /\ ServerFairness
-----------------------------------------------------------------------------
Status == {"200", "400", "401", "404", "422", "429"}
IsPrefixOfAnswer(s) ==
  /\ s # <<>> => Head(s) \in Status \cup {"101"}
  /\ Len(s) > 1 => /\ Head(s) = "101"
                   /\ \A i \in 2 .. Len(s) : s[i] \in {"pong", "tick"}

ServerTypeOK ==
  /\ now \in 1 .. MaxTime /\ DOMAIN expiry \subseteq Tokens
  /\ windows \in [Tokens -> [start : 0 .. MaxTime, requests : 0 .. MaxRequests]]
  /\ \A c \in DOMAIN metrics : metrics[c] \in Nat
  /\ ipWindow.requests <= maxPerIp
  /\ DOMAIN conn \subseteq Handles /\ closing \subseteq Handles
  /\ \A h \in DOMAIN conn : conn[h].ws \in BOOLEAN

(* A client gets the response of one request and nothing after it, or the      *)
(* switch to a WebSocket and after it frames: the ticks of the bus thread too  *)
(* come only after the 101.  This holds while no handle is given out again     *)
(* that a thread or a broadcast still means (handle_http_buffer,               *)
(* handle_http_request, close_socket, broadcast_json_event).                   *)
OneResponse == ~ shared => \A c \in Clients : IsPrefixOfAnswer(got[c])

(* When stop has returned nothing of the server is left, whatever was going on *)
(* when it was called: no thread, no entry and no open socket, those of        *)
(* connections accepted meanwhile included (stop, accept_loop, client_loop).   *)
StopLeavesNothing ==
  control = "stopped" => /\ Live = {} /\ DOMAIN conn = {}
                         /\ \A h \in Handles : socket[h] = NoClient

(* A connection is served in order and cleared away with the server.           *)
ConnectionsAreClean == OneResponse /\ StopLeavesNothing

(* stop returns, since every thread of a client ends when its socket is closed *)
(* or running_ cleared (stop, client_loop, handle_http_buffer).                *)
StopReturns == (control = "joining") ~> (control = "stopped")

(* The token's rate holds and the counters agree with what was answered, while *)
(* connections, overlapping calls and the clock go on (authorize_request).     *)
RequestsAccounted == ServerTypeOK /\ CountersAddUp /\ RateHolds
=============================================================================
