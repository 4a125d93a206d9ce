------------------------------- MODULE Server -------------------------------
(***************************************************************************)
(* One POST after another from the sender (internal/sender, SendRaw) to    *)
(* the development server (cmd/mockserver), which handles each request in  *)
(* a goroutine of its own: a request that SendRaw has given up may still   *)
(* be handled, and only then be recorded.  SendRaw waits by the timer of   *)
(* its client, which counts down in units of time.  Requests are numbered  *)
(* in the order in which they are made.                                    *)
(***************************************************************************)
EXTENDS Integers, Sequences

CONSTANTS
  MaxRequest,      \* bound: requests
  DefaultTimeout,  \* how long a client waits for a request, in units
  Kinds            \* what a request may be like: whether its URL asks for a failure,
                   \* it is a POST, it has a bearer token, and its body decodes

Requests == 1 .. MaxRequest

ASSUME ServerAssumption ==
  /\ MaxRequest \in Nat /\ DefaultTimeout \in Nat \ {0}
  /\ Kinds \subseteq [fail : BOOLEAN, post : BOOLEAN, bearer : BOOLEAN, decodes : BOOLEAN]

NoTimer == -1  \* left when no timer runs

NoKind == [fail |-> TRUE, post |-> FALSE, bearer |-> FALSE, decodes |-> FALSE]

VARIABLES
  kind,     \* kind[r]: what request r is like
  client,   \* client[r]: "unsent", "waiting" in SendRaw, or its result
  handler,  \* handler[r]: "none" if r has not arrived, "arrived", "replied"
  status,   \* status[r]: the status of the reply, 0 before it
  left,     \* the time left of the client's timeout for the request that waits
  received  \* the recorder's slice: the requests recorded, in order

serverVars == <<kind, client, handler, status, left, received>>

ServerInit ==
  /\ kind = [r \in Requests |-> NoKind]
  /\ client = [r \in Requests |-> "unsent"] /\ handler = [r \in Requests |-> "none"]
  /\ status = [r \in Requests |-> 0] /\ received = << >> /\ left = NoTimer

----------------------------------------------------------------------------
\* SendRaw

\* Mutant: http.DefaultClient, which has no timeout.
DefaultClientTimeout == 0

\* The timeout of the client that New makes when it is given none
ClientTimeout == DefaultTimeout

\* net/http starts a timer for each request, and none for a timeout of zero.
Timer(timeout) == IF timeout > 0 THEN timeout ELSE NoTimer

\* Mutant: a request does not wait for the one before it.
PostAtOnce(r) ==
  /\ client[r] = "unsent" /\ \A q \in 1 .. r - 1 : client[q] # "unsent"
  /\ client' = [client EXCEPT ![r] = "waiting"]
  /\ \E k \in Kinds : kind' = [kind EXCEPT ![r] = k]
  /\ \E h \in {"none", "arrived"} : handler' = [handler EXCEPT ![r] = h]
  /\ left' = Timer(ClientTimeout)
  /\ UNCHANGED <<status, received>>

\* The request is made, when the one before it has returned; it arrives or not.
Post(r) ==
  /\ client[r] = "unsent" /\ \A q \in 1 .. r - 1 : client[q] \in {"ok", "failed"}
  /\ client' = [client EXCEPT ![r] = "waiting"]
  /\ \E k \in Kinds : kind' = [kind EXCEPT ![r] = k]
  /\ \E h \in {"none", "arrived"} : handler' = [handler EXCEPT ![r] = h]
  /\ left' = Timer(ClientTimeout)
  /\ UNCHANGED <<status, received>>

SendRawReturns(r, outcome) ==
  /\ client[r] = "waiting"
  /\ client' = [client EXCEPT ![r] = outcome]
  /\ left' = NoTimer
  /\ UNCHANGED <<kind, handler, status, received>>

\* Mutant: only a server error is an error.
AcceptedBelow500(code) == code < 500

Accepted(code) == code \in 200 .. 299

GetReply(r) ==
  /\ handler[r] = "replied"
  /\ SendRawReturns(r, IF Accepted(status[r]) THEN "ok" ELSE "failed")

\* The connection fails or the context is cancelled, whenever it is: the reply, if
\* any, is lost.
Fail(r) == SendRawReturns(r, "failed")

\* The client's timer has run down, and the reply, if any, is lost.
GiveUp(r) == left = 0 /\ SendRawReturns(r, "failed")

\* A unit of time passes while SendRaw waits; it does not overrun the timer.
Wait(r) ==
  /\ client[r] = "waiting" /\ left # 0
  /\ left' = IF left = NoTimer THEN NoTimer ELSE left - 1
  /\ UNCHANGED <<kind, client, handler, status, received>>

----------------------------------------------------------------------------
\* handleHeartbeat, after the delay that the URL may ask for

StatusOf(k) ==
  IF k.fail THEN 500
  ELSE IF ~k.post THEN 405
  ELSE IF ~k.bearer THEN 401
  ELSE IF ~k.decodes THEN 400
  ELSE 200

Handle(r) ==
  /\ handler[r] = "arrived" /\ handler' = [handler EXCEPT ![r] = "replied"]
  /\ status' = [status EXCEPT ![r] = StatusOf(kind[r])]
  /\ received' = IF StatusOf(kind[r]) = 200 THEN Append(received, r) ELSE received
  /\ UNCHANGED <<kind, client, left>>

----------------------------------------------------------------------------

ServerNext ==
  \E r \in Requests :
    Post(r) \/ GetReply(r) \/ Fail(r) \/ GiveUp(r) \/ Wait(r) \/ Handle(r)

\* Time passes, and a timer that has run down fires; the server may never answer,
\* and the connection may stay up.
ServerFairness ==
  \A r \in Requests : WF_serverVars(Wait(r)) /\ WF_serverVars(GiveUp(r))

ServerSpec == ServerInit /\ [][ServerNext]_serverVars /\ ServerFairness
=============================================================================
