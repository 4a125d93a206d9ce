----------------------------- MODULE ServerProps -----------------------------
(***************************************************************************)
(* What a POST's result says of the server's records.                      *)
(***************************************************************************)
EXTENDS Server, Functions

ServerTypeOK ==
  /\ kind \in [Requests -> Kinds \cup {NoKind}]
  /\ client \in [Requests -> {"unsent", "waiting", "ok", "failed"}]
  /\ handler \in [Requests -> {"none", "arrived", "replied"}]
  /\ status \in [Requests -> {0, 200, 400, 401, 405, 500}]
  /\ left \in {NoTimer} \cup 0 .. DefaultTimeout
  /\ received \in Seq(Requests)

\* sender.go:63-64 (an error for network failures and non-2xx responses): a
\* heartbeat that SendRaw reports as sent, which the agent then forgets, has
\* been recorded, as a POST with a token and a body that decodes; and no
\* request is recorded twice.
AckedIsRecorded ==
  /\ \A r \in Requests : client[r] = "ok" => r \in Range(received)
  /\ \A r \in Range(received) :
       kind[r] = [fail |-> FALSE, post |-> TRUE, bearer |-> TRUE, decodes |-> TRUE]
  /\ \A i, j \in DOMAIN received : received[i] = received[j] => i = j

\* mockserver main.go:54-59 and 78-81 (a delayed handler goes on when its client
\* is gone): the records are in the order of the requests, except that one
\* that SendRaw has given up may come after later ones, among them its own
\* retry.
LateIsGivenUp ==
  \A i, j \in DOMAIN received :
    i < j /\ received[j] < received[i] => client[received[j]] = "failed"

\* sender.go:30-33 (without a timeout, "a server that accepts the connection but
\* never responds would block the whole agent loop"): every SendRaw returns, of a
\* request that never arrives or whose handler never replies too, since its timer
\* is started with the request and runs down.
SendRawReturnsAlways == \A r \in Requests : []<>(client[r] # "waiting")
=============================================================================
