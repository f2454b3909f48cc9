---------------------------- MODULE MarketGateway ----------------------------
(***************************************************************************)
(* The gateway between clients and the trading core (market_gateway.cpp):  *)
(* it admits requests by token and rate, submits orders for those it       *)
(* admits, keeps the latest tick of a symbol and counts what it does.  A    *)
(* call is a chain of steps of its thread: the counters are atomics read    *)
(* and written one by one, the token and rate tables are under one mutex.   *)
(***************************************************************************)
EXTENDS Integers, FiniteSets, Sequences, Functions

CONSTANTS Callers,        \* threads that call the gateway, numbered as they do
          Tokens,         \* tokens a request may carry
          ApiToken,       \* the token of the configuration: a set of at most one
          Ttl,            \* its time to live, 0 for ever
          Window, MaxRequests,          \* rate_limit
          MaxTime, MaxCalls, MaxMessages,  \* bounds
          MaxInputs                        \* bound: requests and messages together

ASSUME GatewayAssumption ==
  /\ Callers \subseteq Nat
  /\ {Window, MaxTime} \subseteq Nat \ {0}
  /\ {Ttl, MaxRequests, MaxCalls, MaxMessages, MaxInputs} \subseteq Nat
  /\ ApiToken \subseteq Tokens /\ Cardinality(ApiToken) <= 1

VARIABLES now,        \* both clocks, from 1
          expiry,     \* token -> when it expires, 0 for never (token_expiry_ns_)
          windows,    \* token -> [start, requests] (rate_windows_)
          metrics,    \* the counters of GatewayMetrics
          started, subscribed,   \* started_, and callbacks on the bus
          message,    \* where the bus thread is with a message
          published,  \* messages so far (bound)
          calls,      \* calls of another start, reset_metrics and the token table (bound)
          call,       \* thread -> where its call is
          admitted,   \* history: token -> time -> admissions then
          smeared     \* history: a reset came during a call or a message

tables == <<expiry, windows, admitted>>
stream == <<started, subscribed, message>>
bounds == <<now, published, calls>>
gatewayVars == <<tables, stream, bounds, metrics, call, smeared>>

Counters == <<"ticks", "decoded", "errors", "requests", "accepted", "rejected",
              "unauthorized", "limited">>
NoCall == [pc |-> "none"]
Quiet == message = 0 /\ \A t \in Callers : call[t].pc \notin {"authorize", "submit", "record"}
\* The named counters go up by one.
Count(names) == metrics' = [c \in DOMAIN metrics |-> metrics[c] + (IF c \in names THEN 1 ELSE 0)]

\* Deviation: the window is over as soon as the clock has moved.
ConsumedEachTick(w, max) ==
  LET fresh == IF w.start = 0 \/ now > w.start THEN [start |-> now, requests |-> 0] ELSE w
  IN  IF fresh.requests >= max THEN [window |-> fresh, ok |-> FALSE]
      ELSE [window |-> [fresh EXCEPT !.requests = @ + 1], ok |-> TRUE]

\* consume_rate_limit: a window of fixed length from its first request.
Consumed(w, max) ==
  LET fresh == IF w.start = 0 \/ now - w.start >= Window THEN [start |-> now, requests |-> 0] ELSE w
  IN  IF fresh.requests >= max THEN [window |-> fresh, ok |-> FALSE]
      ELSE [window |-> [fresh EXCEPT !.requests = @ + 1], ok |-> TRUE]

Expired(token) == token \in DOMAIN expiry /\ expiry[token] # 0 /\ now > expiry[token]
Without(f, x) == [y \in DOMAIN f \ {x} |-> f[y]]

\* authorize_request: its verdict, and what it leaves in the two tables.
Authorized(token) ==
  IF DOMAIN expiry # {} /\ (token \notin DOMAIN expiry \/ Expired(token))
  THEN [verdict |-> "unauthorized", windows |-> windows,
        expiry |-> IF Expired(token) THEN Without(expiry, token) ELSE expiry]
  ELSE LET c == Consumed(windows[token], MaxRequests)
       IN  [verdict |-> IF c.ok THEN "none" ELSE "limited", expiry |-> expiry,
            windows |-> [windows EXCEPT ![token] = c.window]]

Admit(token, a) ==
  /\ windows' = a.windows /\ expiry' = a.expiry
  /\ admitted' = IF a.verdict = "none" THEN [admitted EXCEPT ![token][now] = @ + 1] ELSE admitted

InputsLeft == published + Cardinality({t \in Callers : call[t] # NoCall}) < MaxInputs

\* submit_order with a gateway: the request is counted.
Request(t, token) ==
  /\ call[t] = NoCall /\ \A u \in Callers : u < t => call[u] # NoCall
  /\ InputsLeft
  /\ call' = [call EXCEPT ![t] = [pc |-> "authorize", token |-> token]]
  /\ Count({"requests"})
  /\ UNCHANGED <<tables, stream, bounds, smeared>>

\* It is refused, and the refusal journaled, or goes to the order manager.
Authorize(t) ==
  LET a == Authorized(call[t].token) IN
  /\ call[t].pc = "authorize"
  /\ Admit(call[t].token, a)
  /\ IF a.verdict = "none"
     THEN call' = [call EXCEPT ![t].pc = "submit"] /\ UNCHANGED metrics
     ELSE /\ call' = [call EXCEPT ![t] = [pc |-> "done", answer |-> a.verdict]]
          /\ Count({a.verdict, "rejected"})
  /\ UNCHANGED <<stream, bounds, smeared>>

\* The order manager accepts the order or not.
Submit(t) ==
  /\ call[t].pc = "submit"
  /\ \E answer \in {"accepted", "rejected"} :
       call' = [call EXCEPT ![t] = [pc |-> "record", answer |-> answer]]
  /\ UNCHANGED <<tables, stream, bounds, metrics, smeared>>

\* record_order_result.
Record(t) ==
  /\ call[t].pc = "record"
  /\ call' = [call EXCEPT ![t].pc = "done"]
  /\ Count({call[t].answer})
  /\ UNCHANGED <<tables, stream, bounds, smeared>>

-----------------------------------------------------------------------------
\* start subscribes; stop leaves the subscription, and a second start adds one.
StartGateway ==
  /\ IF subscribed = 0 THEN calls' = calls ELSE calls < MaxCalls /\ calls' = calls + 1
  /\ ~ started /\ started' = TRUE /\ subscribed' = subscribed + 1
  /\ UNCHANGED <<tables, message, now, published, metrics, call, smeared>>

StopGateway ==
  /\ started /\ started' = FALSE
  /\ UNCHANGED <<tables, subscribed, message, bounds, metrics, call, smeared>>

\* A message of the bus is given to each callback in turn: counted, then decoded.
Publish ==
  /\ message = 0 /\ published < MaxMessages /\ InputsLeft
  /\ published' = published + 1
  /\ message' = 2 * subscribed
  /\ UNCHANGED <<tables, now, calls, started, subscribed, metrics, call, smeared>>

OnMarketMessage ==
  /\ message # 0 /\ message % 2 = 0
  /\ IF started THEN Count({"ticks"}) /\ message' = message - 1
                ELSE message' = message - 2 /\ UNCHANGED metrics
  /\ UNCHANGED <<tables, started, subscribed, bounds, call, smeared>>

Decode ==
  /\ message % 2 = 1
  /\ Count({"decoded"}) \/ Count({"errors"})
  /\ message' = message - 1
  /\ UNCHANGED <<tables, started, subscribed, bounds, call, smeared>>

\* reset_metrics stores its zeros one after the other.  That is one step here:
\* the counters are only claimed to add up while no reset overlaps a call.
ResetMetrics ==
  /\ calls < MaxCalls /\ calls' = calls + 1
  /\ metrics' = [c \in DOMAIN metrics |-> 0]
  /\ smeared' = (smeared \/ ~ Quiet)
  /\ UNCHANGED <<tables, stream, now, published, call>>

\* add_token, revoke_token, rotate_token, each under the mutex.
ChangeTokens ==
  /\ calls < MaxCalls /\ calls' = calls + 1
  /\ \E token \in Tokens, life \in {0, 1} :
       LET until == IF life = 0 THEN 0 ELSE now + life
           with(f, x) == [y \in DOMAIN f \cup {x} |-> IF y = x THEN until ELSE f[y]]
       IN  \/ expiry' = with(expiry, token)
           \/ expiry' = Without(expiry, token)
           \/ \E old \in DOMAIN expiry : expiry' = with(Without(expiry, old), token)
  /\ UNCHANGED <<windows, admitted, stream, now, published, metrics, call, smeared>>

Clock ==
  /\ now < MaxTime /\ now' = now + 1
  /\ UNCHANGED <<tables, stream, published, calls, metrics, call, smeared>>

GatewayInit ==
  /\ now = 1
  /\ expiry = [t \in ApiToken |-> IF Ttl = 0 THEN 0 ELSE now + Ttl]
  /\ windows = [t \in Tokens |-> [start |-> 0, requests |-> 0]]
  /\ metrics = [c \in {Counters[i] : i \in DOMAIN Counters} |-> 0]
  /\ started = FALSE /\ subscribed = 0 /\ message = 0 /\ published = 0
  /\ calls = 0
  /\ call = [t \in Callers |-> NoCall]
  /\ admitted = [t \in Tokens |-> [n \in 1 .. MaxTime |-> 0]] /\ smeared = FALSE

CallStep(t) == Authorize(t) \/ Submit(t) \/ Record(t)
-----------------------------------------------------------------------------
InFlight == {t \in Callers : call[t].pc \in {"authorize", "submit", "record"}}

(* Every order request ends up accepted or rejected, and every tick received  *)
(* decoded or in error, in the counters as well, whatever the threads do;     *)
(* only a reset that overlaps a call can leave them apart (authorize_request, *)
(* record_order_result, on_market_message, reset_metrics).                    *)
CountersAddUp ==
  ~ smeared =>
    /\ metrics.requests = metrics.accepted + metrics.rejected + Cardinality(InFlight)
    /\ metrics.ticks = metrics.decoded + metrics.errors + (message % 2)

(* In no span as long as the window are twice max_requests of one token       *)
(* admitted: the windows are fixed, so that a span can touch two of them, but *)
(* then not the request that opened the first (consume_rate_limit).           *)
RateHolds ==
  \A token \in Tokens, from \in 1 .. MaxTime :
    LET total == SumFunctionOnSet(admitted[token], (from .. from + Window - 1) \cap (1 .. MaxTime))
    IN  total = 0 \/ total < 2 * MaxRequests
=============================================================================
