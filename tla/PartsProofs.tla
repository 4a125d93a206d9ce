----------------------------- MODULE PartsProofs -----------------------------
(***************************************************************************)
(* Proofs about the parts that a single caller uses and that share         *)
(* nothing: the backoff, the configuration that gives its limits, SendRaw  *)
(* with its server, the battery and disk collectors, and the sensors that  *)
(* keep no state.                                                          *)
(***************************************************************************)
EXTENDS MCParts, SequenceTheorems, Induction

(***************************************************************************)
(* The backoff, for every pair of limits up to half the largest duration.  *)
(***************************************************************************)

\* The limits keep to the half of the range that can be doubled.
Sane(g) ==
  /\ g \in [min : 1 .. MaxDuration, max : 1 .. MaxDuration, current : 1 .. MaxDuration]
  /\ 2 * g.max <= MaxDuration
  /\ InRange(g)

BackoffInv == TypeOK /\ Sane(b) /\ b.min <= given /\ given <= b.max

\* New (backoff.go:17-22) makes a sane generator, the max raised to the min
\* where it has to be.
LEMMA NewIsSane ==
  ASSUME NEW min \in Nat, NEW max \in Nat,
         min > 0, 2 * min <= MaxDuration, 2 * max <= MaxDuration
  PROVE  Sane(NewBackoff(min, max))
BY MaxDurationAssumption DEF Sane, NewBackoff, InRange

\* Next (backoff.go:26-34) leaves a sane generator: the doubling stays below
\* the largest duration, and the cap does the rest.
LEMMA NextIsSane ==
  ASSUME NEW g, Sane(g)
  PROVE  /\ Sane(AfterNext(g))
         /\ AfterNext(g).min = g.min /\ AfterNext(g).max = g.max
         /\ NextDelay(g) = g.current
<1>1. 2 * g.current <= MaxDuration /\ Doubled(g.current) = 2 * g.current
  BY MaxDurationAssumption DEF Sane, InRange, Doubled
<1>2. QED
  BY <1>1, MaxDurationAssumption DEF Sane, InRange, AfterNext, NextDelay

\* Reset (backoff.go:37-39) leaves a sane generator.
LEMMA ResetIsSane ==
  ASSUME NEW g, Sane(g)
  PROVE  /\ Sane(AfterReset(g))
         /\ AfterReset(g).min = g.min /\ AfterReset(g).max = g.max
BY MaxDurationAssumption DEF Sane, InRange, AfterReset

LEMMA BackoffStarts == Init => BackoffInv
<1> SUFFICES ASSUME Init PROVE BackoffInv
  OBVIOUS
<1>1. PICK l \in Limits : b = NewBackoff(l[1], l[2]) /\ given = l[1]
  BY DEF Init
<1>2. /\ l[1] \in Nat /\ l[2] \in Nat /\ l[1] > 0
      /\ 2 * l[1] <= MaxDuration /\ 2 * l[2] <= MaxDuration
  BY <1>1, LimitsAssumption
<1>3. Sane(b)
  BY <1>1, <1>2, NewIsSane
<1>4. b.min = l[1]
  BY <1>1 DEF NewBackoff
<1>5. QED
  BY <1>1, <1>2, <1>3, <1>4, LimitsAssumption, MaxDurationAssumption
  DEF Init, BackoffInv, TypeOK, Sane, InRange

LEMMA BackoffStep == BackoffInv /\ [Next \/ Reset]_vars => BackoffInv'
<1> SUFFICES ASSUME BackoffInv, [Next \/ Reset]_vars PROVE BackoffInv'
  OBVIOUS
<1>1. CASE Next
  <2>1. Sane(b') /\ b'.min = b.min /\ b'.max = b.max /\ given' = b.current
    BY <1>1, NextIsSane DEF Next, BackoffInv
  <2>2. calls' \in 0 .. MaxCalls
    BY <1>1, LimitsAssumption DEF Next, BackoffInv, TypeOK
  <2>3. QED
    BY <2>1, <2>2 DEF BackoffInv, TypeOK, Sane, InRange
<1>2. CASE Reset
  <2>1. Sane(b') /\ b'.min = b.min /\ b'.max = b.max
    BY <1>2, ResetIsSane DEF Reset, BackoffInv
  <2>2. calls' \in 0 .. MaxCalls
    BY <1>2, LimitsAssumption DEF Reset
  <2>3. QED
    BY <1>2, <2>1, <2>2 DEF Reset, BackoffInv, TypeOK, Sane
<1>3. CASE UNCHANGED vars
  BY <1>3 DEF vars, BackoffInv, TypeOK, Sane, InRange
<1>4. QED
  BY <1>1, <1>2, <1>3

LEMMA BackoffInductive == Spec => []BackoffInv
BY BackoffStarts, BackoffStep, PTL DEF Spec

\* backoff.go:10-14: every field of the struct, and every delay given, is a
\* positive duration, after every sequence of calls.
THEOREM BackoffTypeCorrect == Spec => []TypeOK
<1>1. BackoffInv => TypeOK
  BY DEF BackoffInv
<1>2. QED
  BY <1>1, BackoffInductive, PTL

\* backoff.go:8-10: after every sequence of Next and Reset calls, with any
\* limits in the lower half of the range of durations, the delay given and the
\* delay to come lie between the limits.
THEOREM BackoffDelaysInRange == Spec => []DelaysInRange
<1>1. BackoffInv => DelaysInRange
  BY DEF BackoffInv, DelaysInRange, Sane
<1>2. QED
  BY <1>1, BackoffInductive, PTL

\* backoff.go:24-25: between two Resets a delay is at least the one before, and
\* at most twice as long.
THEOREM BackoffNeverJumps ==
  Spec => [][Next => b.current <= b'.current /\ b'.current <= 2 * b.current]_vars
<1>1. BackoffInv /\ [Next \/ Reset]_vars =>
        [Next => b.current <= b'.current /\ b'.current <= 2 * b.current]_vars
  <2> SUFFICES ASSUME BackoffInv, Next
               PROVE  b.current <= b'.current /\ b'.current <= 2 * b.current
    OBVIOUS
  <2>1. Doubled(b.current) = 2 * b.current
    BY MaxDurationAssumption DEF BackoffInv, Sane, InRange, Doubled
  <2>2. QED
    BY <2>1, MaxDurationAssumption DEF Next, AfterNext, BackoffInv, Sane, InRange
<1>2. QED
  BY <1>1, BackoffInductive, PTL DEF Spec

----------------------------------------------------------------------------
\* The closed form

IsPower(p) == p = [n \in 0 .. MaxCalls |-> IF n = 0 THEN 1 ELSE 2 * p[n - 1]]
Power      == CHOOSE p : IsPower(p)

LEMMA PowerDoubles ==
  /\ Power \in [0 .. MaxCalls -> Nat]
  /\ Power[0] = 1
  /\ \A n \in 0 .. MaxCalls - 1 : Power[n + 1] = 2 * Power[n]
<1> DEFINE twice == [x \in Nat |-> 2 * x]
<1>1. twice \in [Nat -> Nat] /\ 1 \in Nat /\ MaxCalls \in Nat
  BY LimitsAssumption
<1>2. PICK p \in [0 .. MaxCalls -> Nat] : IteratesTo(p, 1, twice, MaxCalls)
  <2> HIDE DEF twice
  <2>1. QED
    BY <1>1, IterationExists
<1>3. IsPower(p)
  <2>1. \A n \in 0 .. MaxCalls : n # 0 => p[n - 1] \in Nat
    <3>1. \A n \in 0 .. MaxCalls : n # 0 => n - 1 \in 0 .. MaxCalls
      BY <1>1
    <3>2. QED
      BY <1>2, <3>1
  <2>2. QED
    BY <1>2, <2>1 DEF IsPower, IteratesTo
<1>4. ASSUME NEW q, IsPower(q)
      PROVE  /\ q = [n \in 0 .. MaxCalls |-> IF n = 0 THEN 1 ELSE 2 * q[n - 1]]
             /\ q[0] = 1 /\ \A n \in 0 .. MaxCalls - 1 : q[n + 1] = 2 * q[n]
  <2>1. q = [n \in 0 .. MaxCalls |-> IF n = 0 THEN 1 ELSE 2 * q[n - 1]]
    BY <1>4 DEF IsPower
  <2>2. \A n \in 0 .. MaxCalls : q[n] = IF n = 0 THEN 1 ELSE 2 * q[n - 1]
    BY <2>1
  <2>3. \A n \in 0 .. MaxCalls - 1 : n + 1 \in 0 .. MaxCalls /\ n + 1 # 0 /\ (n + 1) - 1 = n
    BY <1>1
  <2>4. QED
    BY <1>1, <2>1, <2>2, <2>3
<1>5. IsPower(Power)
  BY <1>3 DEF Power
<1>6. \A n \in 0 .. MaxCalls : Power[n] \in Nat
  <2> DEFINE Odd == {n \in Nat : n \in 0 .. MaxCalls /\ Power[n] \notin Nat}
  <2>1. ASSUME NEW n \in Odd, \A m \in Odd : n <= m
        PROVE  FALSE
    <3>1. n \in Nat /\ n \in 0 .. MaxCalls /\ Power[n] \notin Nat /\ n # 0
      BY <1>4, <1>5
    <3>2. n - 1 \in Nat /\ n - 1 \in 0 .. MaxCalls - 1 /\ n - 1 \in 0 .. MaxCalls /\ n - 1 + 1 = n
      BY <1>1, <3>1
    <3>3. Power[n - 1] \in Nat
      BY <2>1, <3>2
    <3>4. Power[n] = 2 * Power[n - 1]
      BY <1>4, <1>5, <3>2
    <3>5. QED
      BY <3>1, <3>3, <3>4
  <2>2. Odd = {}
    <3>1. Odd \in SUBSET Nat
      OBVIOUS
    <3> HIDE DEF Odd
    <3>2. QED
      BY <2>1, <3>1, LeastNumber
  <2>3. QED
    BY <1>1, <2>2
<1>7. QED
  BY <1>1, <1>4, <1>5, <1>6

LEMMA ClosedFormUnfold ==
  ClosedForm <=> b.current = IF b.min * Power[calls] > b.max THEN b.max
                             ELSE b.min * Power[calls]
BY DEF ClosedForm, Power, IsPower

\* Doubling what is capped caps what is doubled.
LEMMA CappedDoubling ==
  ASSUME NEW min \in Nat, NEW max \in Nat, NEW p \in Nat,
         NEW c \in Nat, c = IF min * p > max THEN max ELSE min * p,
         c > 0
  PROVE  (IF 2 * c > max THEN max ELSE 2 * c)
           = IF min * (2 * p) > max THEN max ELSE min * (2 * p)
<1>1. min * (2 * p) = 2 * (min * p) /\ min * p \in Nat
  OBVIOUS
<1>2. QED
  BY <1>1

\* backoff.go:8-10 and 24-39: after New or Reset and n calls of Next, the next
\* delay is the min times 2^n, or the max if that is less, for any n and limits.
THEOREM BackoffClosedForm == Spec => []ClosedForm
<1>1. BackoffInv /\ Init => ClosedForm
  <2>1. SUFFICES ASSUME BackoffInv, Init
                 PROVE  ClosedForm
    OBVIOUS
  <2>2. /\ calls = 0 /\ b.current = b.min
        /\ b.min \in Nat /\ b.max \in Nat /\ b.min <= b.max
    BY <2>1, MaxDurationAssumption DEF Init, NewBackoff, BackoffInv, Sane, InRange
  <2>3. b.min * Power[calls] = b.min
    BY <2>2, PowerDoubles
  <2>4. QED
    BY <2>2, <2>3, ClosedFormUnfold
<1>2. BackoffInv /\ BackoffInv' /\ ClosedForm /\ [Next \/ Reset]_vars => ClosedForm'
  <2>1. SUFFICES ASSUME BackoffInv, BackoffInv', ClosedForm, [Next \/ Reset]_vars
                 PROVE  ClosedForm'
    OBVIOUS
  <2>2. ClosedForm' <=> b'.current = IF b'.min * Power[calls'] > b'.max THEN b'.max
                                     ELSE b'.min * Power[calls']
    BY DEF ClosedForm, Power, IsPower
  <2>3. /\ b.min \in Nat /\ b.max \in Nat /\ b.current \in Nat /\ b.current > 0
        /\ b.min <= b.max
    BY <2>1, MaxDurationAssumption DEF BackoffInv, Sane, InRange
  <2>4. CASE Next
    <3>1. /\ calls' = calls + 1 /\ calls \in 0 .. MaxCalls - 1
          /\ b' = AfterNext(b) /\ b'.min = b.min /\ b'.max = b.max
      BY <2>1, <2>4, NextIsSane, LimitsAssumption DEF Next, BackoffInv, TypeOK
    <3>2. b'.current = IF 2 * b.current > b.max THEN b.max ELSE 2 * b.current
      <4>1. Doubled(b.current) = 2 * b.current
        BY <2>1, MaxDurationAssumption DEF BackoffInv, Sane, InRange, Doubled
      <4>2. AfterNext(b).current = IF Doubled(b.current) > b.max THEN b.max ELSE Doubled(b.current)
        BY <2>1 DEF AfterNext, BackoffInv, Sane
      <4>3. QED
        BY <3>1, <4>1, <4>2
    <3>3. Power[calls'] = 2 * Power[calls] /\ Power[calls] \in Nat
      <4>1. calls \in 0 .. MaxCalls
        BY <3>1, LimitsAssumption
      <4>2. QED
        BY <3>1, <4>1, PowerDoubles
    <3>4. b.current = IF b.min * Power[calls] > b.max THEN b.max ELSE b.min * Power[calls]
      BY <2>1, ClosedFormUnfold
    <3>5. (IF 2 * b.current > b.max THEN b.max ELSE 2 * b.current)
            = IF b.min * (2 * Power[calls]) > b.max THEN b.max ELSE b.min * (2 * Power[calls])
      <4>1. PICK min \in Nat, max \in Nat, c \in Nat, p \in Nat :
              min = b.min /\ max = b.max /\ c = b.current /\ p = Power[calls]
        BY <2>3, <3>3
      <4>2. c = (IF min * p > max THEN max ELSE min * p) /\ c > 0
        BY <2>3, <3>4, <4>1
      <4>3. (IF 2 * c > max THEN max ELSE 2 * c)
              = IF min * (2 * p) > max THEN max ELSE min * (2 * p)
        BY <4>2, CappedDoubling
      <4>4. QED
        BY <4>1, <4>3
    <3>6. QED
      BY <2>2, <3>1, <3>2, <3>3, <3>5
  <2>5. CASE Reset
    <3>1. calls' = 0 /\ b'.current = b.min /\ b'.min = b.min /\ b'.max = b.max
      BY <2>1, <2>5, ResetIsSane DEF Reset, AfterReset, BackoffInv
    <3>2. b'.min * Power[calls'] = b.min
      BY <2>3, <3>1, PowerDoubles
    <3>3. QED
      BY <2>2, <2>3, <3>1, <3>2
  <2>6. CASE UNCHANGED vars
    BY <2>1, <2>6, <2>2, ClosedFormUnfold DEF vars
  <2>7. QED
    BY <2>1, <2>4, <2>5, <2>6
<1>3. QED
  BY <1>1, <1>2, BackoffInductive, PTL DEF Spec

(***************************************************************************)
(* What the other modules assume of the configuration, of every file that  *)
(* Load accepts.                                                           *)
(***************************************************************************)

\* A number within its type's range does not wrap around.
LEMMA WrappedInRange ==
  ASSUME NEW n \in Nat, n <= MaxInt
  PROVE  Wrapped(n) = n
<1>1. /\ n + MaxInt + 1 \in 0 .. 2 * (MaxInt + 1) - 1
      /\ 2 * (MaxInt + 1) \in Nat \ {0}
  BY ConfigAssumption
<1>2. \A k \in Nat \ {0} : \A m \in 0 .. k - 1 : m % k = m
  OBVIOUS
<1>3. (n + MaxInt + 1) % (2 * (MaxInt + 1)) = n + MaxInt + 1
  BY <1>1, <1>2
<1>4. QED
  BY <1>3, ConfigAssumption DEF Wrapped

\* A positive number of units is at least one unit.
LEMMA AtLeastOneUnit ==
  ASSUME NEW n \in Nat, NEW unit \in Nat
  PROVE  n * unit \in Nat /\ (n > 0 => unit <= n * unit)
<1>1. n * unit \in Nat
  OBVIOUS
<1>2. ASSUME n > 0 PROVE unit <= n * unit
  <2>1. (n - 1) \in Nat /\ (n - 1) * unit \in Nat
    BY <1>2
  <2>2. n * unit = (n - 1) * unit + unit
    OBVIOUS
  <2>3. QED
    BY <1>1, <2>1, <2>2
<1>3. QED
  BY <1>1, <1>2

\* config.go:42-44 and 77-85, main.go:42-43, buffer.go:27, agent.go:23 and 109:
\* from every file that Load accepts and whose numbers fit their types, the agent
\* runs with the interval and jitter it was told, an interval of at least a
\* second that can be doubled without wrapping around (the backoff's max) and
\* does not wrap around with the jitter added, and a cap of at least a megabyte.
THEOREM AcceptedIsUsable ==
  ASSUME NEW file \in Configs \cup {NoConfig},
         Load(file) # NoConfig, Representable(file)
  PROVE  LET c == Load(file) IN
           /\ IntervalOf(c) = file.IntervalSeconds * Second /\ IntervalOf(c) >= Second
           /\ JitterOf(c) = file.JitterSeconds * Second /\ JitterOf(c) >= 0
           /\ 2 * IntervalOf(c) <= MaxInt /\ IntervalOf(c) + JitterOf(c) <= MaxInt
           /\ MaxBytesOf(c) >= MB
<1> DEFINE c == Load(file)
<1>1. /\ file \in Configs /\ c = applyDefaults(file) /\ Validate(c)
  BY DEF Load
<1>2. /\ c.IntervalSeconds = file.IntervalSeconds /\ c.JitterSeconds = file.JitterSeconds
      /\ c.BufferMaxSizeMB = IF file.BufferMaxSizeMB = 0 THEN 50 ELSE file.BufferMaxSizeMB
  BY <1>1 DEF Configs, applyDefaults
<1>3. /\ file.IntervalSeconds \in Nat /\ file.IntervalSeconds > 0
      /\ file.JitterSeconds \in Nat
      /\ c.BufferMaxSizeMB \in Nat /\ c.BufferMaxSizeMB > 0
  <2>1. file.IntervalSeconds \in Int /\ file.JitterSeconds \in Int /\ file.BufferMaxSizeMB \in Int
    BY <1>1, ConfigAssumption DEF Configs, Ints
  <2>2. c.IntervalSeconds > 0 /\ c.JitterSeconds >= 0 /\ c.BufferMaxSizeMB >= 0
    BY <1>1 DEF Validate
  <2>3. QED
    BY <1>2, <2>1, <2>2
<1>4. /\ file.IntervalSeconds * Second \in Nat /\ Second <= file.IntervalSeconds * Second
      /\ file.JitterSeconds * Second \in Nat
      /\ c.BufferMaxSizeMB * MB \in Nat /\ MB <= c.BufferMaxSizeMB * MB
  BY <1>3, AtLeastOneUnit, ConfigAssumption
<1>5. c.BufferMaxSizeMB * MB <= MaxInt
  BY <1>2, ConfigAssumption DEF Representable
<1>6. /\ IntervalOf(c) = file.IntervalSeconds * Second
      /\ JitterOf(c) = file.JitterSeconds * Second
      /\ MaxBytesOf(c) = c.BufferMaxSizeMB * MB
  <2>1. file.IntervalSeconds * Second <= MaxInt /\ file.JitterSeconds * Second <= MaxInt
    BY <1>4, ConfigAssumption DEF Representable
  <2>2. QED
    BY <1>2, <1>4, <1>5, <2>1, WrappedInRange DEF IntervalOf, JitterOf, MaxBytesOf
<1>7. QED
  BY <1>4, <1>6, ConfigAssumption DEF Representable

(***************************************************************************)
(* SendRaw and its server, for any number and any kinds of requests.       *)
(***************************************************************************)

\* One request at a time: what has arrived was sent, and what was sent comes
\* after those that have returned.
OneAtATime ==
  /\ \A r \in Requests : handler[r] # "none" => client[r] # "unsent"
  /\ \A q \in Requests : client[q] # "unsent" =>
       \A p \in 1 .. q - 1 : client[p] \in {"ok", "failed"}

\* A reply that is taken for success was sent for a request that was recorded.
RepliesAreTrue ==
  /\ \A r \in Requests : client[r] = "ok" => handler[r] = "replied" /\ Accepted(status[r])
  /\ \A r \in Requests : handler[r] = "replied" /\ Accepted(status[r]) =>
       \E i \in DOMAIN received : received[i] = r

\* Each record is of a request that was replied to with 200, and its only one.
RecordsAreSound ==
  /\ \A i \in DOMAIN received :
       handler[received[i]] = "replied" /\ StatusOf(kind[received[i]]) = 200
  /\ \A i, j \in DOMAIN received : received[i] = received[j] => i = j

ServerInv ==
  ServerTypeOK /\ OneAtATime /\ RepliesAreTrue /\ RecordsAreSound /\ LateIsGivenUp

\* main.go:45-76: the status is one of five, and 200 for nothing but a POST
\* with a token and a body that decodes.
LEMMA StatusIsOneOf ==
  ASSUME NEW k \in Kinds \cup {NoKind}
  PROVE  /\ StatusOf(k) \in {200, 400, 401, 405, 500}
         /\ Accepted(StatusOf(k)) <=> StatusOf(k) = 200
         /\ StatusOf(k) = 200 =>
              k = [fail |-> FALSE, post |-> TRUE, bearer |-> TRUE, decodes |-> TRUE]
<1>1. k \in [fail : BOOLEAN, post : BOOLEAN, bearer : BOOLEAN, decodes : BOOLEAN]
  <2>1. NoKind \in [fail : BOOLEAN, post : BOOLEAN, bearer : BOOLEAN, decodes : BOOLEAN]
    BY DEF NoKind
  <2>2. QED
    BY <2>1, ServerAssumption
<1>2. StatusOf(k) \in {200, 400, 401, 405, 500}
  BY DEF StatusOf
<1>3. Accepted(StatusOf(k)) <=> StatusOf(k) = 200
  BY <1>2 DEF Accepted
<1>4. StatusOf(k) = 200 => ~k.fail /\ k.post /\ k.bearer /\ k.decodes
  BY DEF StatusOf
<1>5. QED
  BY <1>1, <1>2, <1>3, <1>4

LEMMA ServerStarts == ServerInit => ServerInv
BY ServerAssumption
DEF ServerInit, ServerInv, ServerTypeOK, OneAtATime, RepliesAreTrue, RecordsAreSound,
    LateIsGivenUp, Requests, Accepted

\* sender.go:65-73: the next request, which nothing has replied to.
LEMMA PostStep ==
  ASSUME ServerInv, NEW r \in Requests, Post(r)
  PROVE  ServerInv'
<1>1. /\ client[r] = "unsent" /\ handler[r] = "none"
      /\ \A q \in 1 .. r - 1 : client[q] \in {"ok", "failed"}
  BY DEF Post, ServerInv, ServerTypeOK, OneAtATime
<1>2. /\ client' = [client EXCEPT ![r] = "waiting"]
      /\ status' = status /\ received' = received
      /\ left' \in {NoTimer} \cup 0 .. DefaultTimeout
  BY ServerAssumption DEF Post, Timer, ClientTimeout
<1>3. PICK k \in Kinds, h \in {"none", "arrived"} :
        kind' = [kind EXCEPT ![r] = k] /\ handler' = [handler EXCEPT ![r] = h]
  BY DEF Post
<1>4. ServerTypeOK'
  BY <1>2, <1>3 DEF ServerInv, ServerTypeOK
<1>5. \A i \in DOMAIN received : received[i] \in Requests \ {r}
  BY <1>1, ElementOfSeq DEF ServerInv, ServerTypeOK, RecordsAreSound
<1>6. OneAtATime'
  <2>1. \A q \in Requests : r < q => client[q] = "unsent"
    BY <1>1, ServerAssumption DEF ServerInv, OneAtATime, Requests
  <2>2. QED
    BY <1>1, <1>2, <1>3, <2>1, ServerAssumption
    DEF ServerInv, ServerTypeOK, OneAtATime, Requests
<1>7. RepliesAreTrue'
  BY <1>1, <1>2, <1>3 DEF ServerInv, ServerTypeOK, RepliesAreTrue
<1>8. RecordsAreSound'
  BY <1>2, <1>3, <1>5 DEF ServerInv, ServerTypeOK, RecordsAreSound
<1>9. LateIsGivenUp'
  BY <1>2, <1>5 DEF ServerInv, ServerTypeOK, LateIsGivenUp
<1>10. QED
  BY <1>4, <1>6, <1>7, <1>8, <1>9 DEF ServerInv

\* sender.go:73-83: SendRaw returns, with success only for a reply that says so.
LEMMA ReturnStep ==
  ASSUME ServerInv, NEW r \in Requests, NEW outcome \in {"ok", "failed"},
         SendRawReturns(r, outcome),
         outcome = "ok" => handler[r] = "replied" /\ Accepted(status[r])
  PROVE  ServerInv'
<1>1. /\ client[r] = "waiting" /\ client' = [client EXCEPT ![r] = outcome]
      /\ kind' = kind /\ handler' = handler /\ status' = status /\ received' = received
      /\ left' = NoTimer
  BY DEF SendRawReturns
<1>2. ServerTypeOK'
  BY <1>1 DEF ServerInv, ServerTypeOK
<1>3. OneAtATime'
  BY <1>1, ServerAssumption DEF ServerInv, ServerTypeOK, OneAtATime, Requests
<1>4. RepliesAreTrue'
  BY <1>1 DEF ServerInv, ServerTypeOK, RepliesAreTrue
<1>5. RecordsAreSound'
  BY <1>1 DEF ServerInv, RecordsAreSound
<1>6. LateIsGivenUp'
  BY <1>1, ElementOfSeq DEF ServerInv, ServerTypeOK, LateIsGivenUp
<1>7. QED
  BY <1>2, <1>3, <1>4, <1>5, <1>6 DEF ServerInv

\* main.go:45-86: the request is refused, or recorded and then replied to.  One
\* that is recorded after a later one was given up: the later one was only
\* sent when it had returned, and it had no reply.
LEMMA HandleStep ==
  ASSUME ServerInv, NEW r \in Requests, Handle(r)
  PROVE  ServerInv'
<1> DEFINE code == StatusOf(kind[r])
<1>1. /\ handler[r] = "arrived" /\ handler' = [handler EXCEPT ![r] = "replied"]
      /\ status' = [status EXCEPT ![r] = code]
      /\ kind' = kind /\ client' = client /\ left' = left
      /\ received' = IF code = 200 THEN Append(received, r) ELSE received
  BY DEF Handle
<1>2. /\ code \in {200, 400, 401, 405, 500}
      /\ Accepted(code) <=> code = 200
  BY StatusIsOneOf DEF ServerInv, ServerTypeOK
<1>3. /\ client[r] # "ok"
      /\ \A i \in DOMAIN received : received[i] \in Requests \ {r}
  BY <1>1, ElementOfSeq DEF ServerInv, ServerTypeOK, RepliesAreTrue, RecordsAreSound
<1> HIDE DEF code
<1>4. /\ received' \in Seq(Requests)
      /\ \A i \in DOMAIN received : i \in DOMAIN received' /\ received'[i] = received[i]
      /\ \A i \in DOMAIN received' \ DOMAIN received :
           code = 200 /\ i = Len(received) + 1 /\ received'[i] = r
      /\ code = 200 => \E i \in DOMAIN received' : received'[i] = r
      /\ \A i \in DOMAIN received : i < Len(received) + 1
  BY <1>1 DEF ServerInv, ServerTypeOK
<1>5. ServerTypeOK'
  BY <1>1, <1>2, <1>4 DEF ServerInv, ServerTypeOK
<1>6. OneAtATime'
  BY <1>1 DEF ServerInv, ServerTypeOK, OneAtATime
<1>7. RepliesAreTrue'
  <2>1. \A q \in Requests : client'[q] = "ok" =>
          handler'[q] = "replied" /\ Accepted(status'[q])
    BY <1>1, <1>3 DEF ServerInv, ServerTypeOK, RepliesAreTrue
  <2>2. ASSUME NEW q \in Requests, handler'[q] = "replied", Accepted(status'[q])
        PROVE  \E i \in DOMAIN received' : received'[i] = q
    <3>1. CASE q = r
      BY <3>1, <2>2, <1>1, <1>2, <1>4 DEF ServerInv, ServerTypeOK
    <3>2. CASE q # r
      <4>1. PICK i \in DOMAIN received : received[i] = q
        BY <3>2, <2>2, <1>1 DEF ServerInv, ServerTypeOK, RepliesAreTrue
      <4>2. QED
        BY <4>1, <1>4
    <3>3. QED
      BY <3>1, <3>2
  <2>3. QED
    BY <2>1, <2>2 DEF RepliesAreTrue
<1>8. RecordsAreSound'
  <2>1. ASSUME NEW i \in DOMAIN received'
        PROVE  handler'[received'[i]] = "replied" /\ StatusOf(kind'[received'[i]]) = 200
    <3>1. CASE i \in DOMAIN received
      BY <3>1, <1>1, <1>3, <1>4 DEF ServerInv, ServerTypeOK, RecordsAreSound
    <3>2. CASE i \notin DOMAIN received
      BY <3>2, <2>1, <1>1, <1>4 DEF ServerInv, ServerTypeOK, code
    <3>3. QED
      BY <3>1, <3>2
  <2>2. \A i, j \in DOMAIN received' : received'[i] = received'[j] => i = j
    BY <1>3, <1>4 DEF ServerInv, RecordsAreSound
  <2>3. QED
    BY <2>1, <2>2 DEF RecordsAreSound
<1>9. LateIsGivenUp'
  <2>1. SUFFICES ASSUME NEW i \in DOMAIN received', NEW j \in DOMAIN received',
                        i < j, received'[j] < received'[i]
                 PROVE  client'[received'[j]] = "failed"
    BY DEF LateIsGivenUp
  <2>2. CASE j \in DOMAIN received
    <3>1. i \in DOMAIN received
      BY <2>1, <2>2, <1>4 DEF ServerInv, ServerTypeOK
    <3>2. QED
      BY <3>1, <2>1, <2>2, <1>1, <1>4 DEF ServerInv, LateIsGivenUp
  <2>3. CASE j \notin DOMAIN received
    <3>1. received'[j] = r /\ i \in DOMAIN received /\ received'[i] = received[i]
      BY <2>1, <2>3, <1>4
    <3>2. received[i] \in Requests /\ client[received[i]] # "unsent"
      BY <3>1, <1>3 DEF ServerInv, OneAtATime, RecordsAreSound
    <3>3. client[r] \in {"ok", "failed"}
      BY <3>1, <3>2, <2>1, ServerAssumption DEF ServerInv, OneAtATime, Requests
    <3>4. QED
      BY <3>1, <3>3, <1>1, <1>3
  <2>4. QED
    BY <2>2, <2>3
<1>10. QED
  BY <1>5, <1>6, <1>7, <1>8, <1>9 DEF ServerInv

LEMMA ServerStep == ServerInv /\ [ServerNext]_serverVars => ServerInv'
<1> SUFFICES ASSUME ServerInv, [ServerNext]_serverVars PROVE ServerInv'
  OBVIOUS
<1>1. ASSUME NEW r \in Requests, Post(r) PROVE ServerInv'
  BY <1>1, PostStep
<1>2. ASSUME NEW r \in Requests, GetReply(r) PROVE ServerInv'
  BY <1>2, ReturnStep DEF GetReply
<1>3. ASSUME NEW r \in Requests, Fail(r) \/ GiveUp(r) PROVE ServerInv'
  BY <1>3, ReturnStep DEF Fail, GiveUp
<1>4. ASSUME NEW r \in Requests, Handle(r) PROVE ServerInv'
  BY <1>4, HandleStep
<1>5. ASSUME NEW r \in Requests, Wait(r) PROVE ServerInv'
  <2>1. left' \in {NoTimer} \cup 0 .. DefaultTimeout
    BY <1>5, ServerAssumption DEF Wait, NoTimer, ServerInv, ServerTypeOK
  <2>2. QED
    BY <1>5, <2>1 DEF Wait, ServerInv, ServerTypeOK, OneAtATime, RepliesAreTrue,
                      RecordsAreSound, LateIsGivenUp
<1>6. CASE UNCHANGED serverVars
  BY <1>6 DEF serverVars, ServerInv, ServerTypeOK, OneAtATime, RepliesAreTrue,
              RecordsAreSound, LateIsGivenUp
<1>7. QED
  BY <1>1, <1>2, <1>3, <1>4, <1>5, <1>6 DEF ServerNext

LEMMA ServerInductive == ServerSpec => []ServerInv
BY ServerStarts, ServerStep, PTL DEF ServerSpec

\* sender.go:63-64 and main.go:61-85: for any requests, in every interleaving of
\* SendRaw and the handlers, what SendRaw reports as sent has been recorded; only
\* what has a token and decodes is recorded, and nothing twice.
THEOREM SentIsRecorded == ServerSpec => []AckedIsRecorded
<1>1. ServerInv => AckedIsRecorded
  <2> SUFFICES ASSUME ServerInv PROVE AckedIsRecorded
    OBVIOUS
  <2>1. \A r \in Requests : client[r] = "ok" => r \in Range(received)
    BY DEF ServerInv, RepliesAreTrue, Range
  <2>2. \A i \in DOMAIN received :
          kind[received[i]] = [fail |-> FALSE, post |-> TRUE, bearer |-> TRUE, decodes |-> TRUE]
    <3> SUFFICES ASSUME NEW i \in DOMAIN received
                 PROVE  kind[received[i]] =
                          [fail |-> FALSE, post |-> TRUE, bearer |-> TRUE, decodes |-> TRUE]
      OBVIOUS
    <3>1. received[i] \in Requests
      BY ElementOfSeq DEF ServerInv, ServerTypeOK
    <3>2. kind[received[i]] \in Kinds \cup {NoKind} /\ StatusOf(kind[received[i]]) = 200
      BY <3>1 DEF ServerInv, ServerTypeOK, RecordsAreSound
    <3>3. QED
      BY <3>2, StatusIsOneOf
  <2>3. QED
    BY <2>1, <2>2 DEF ServerInv, RecordsAreSound, AckedIsRecorded, Range
<1>2. QED
  BY <1>1, ServerInductive, PTL

\* main.go:54-59 and 78-81: for any requests, a record out of order is of a
\* request that SendRaw had given up.
THEOREM OnlyGivenUpComeLate == ServerSpec => []LateIsGivenUp
<1>1. ServerInv => LateIsGivenUp
  BY DEF ServerInv
<1>2. QED
  BY <1>1, ServerInductive, PTL

(***************************************************************************)
(* The battery collector, whatever the battery does during a call.         *)
(***************************************************************************)

\* Each platform goes its own way to the health, and reports nothing before it
\* has read; the battery as it is has been seen since the call began.
Underway ==
  /\ step \in {"capacity", "status"} => ~onDarwin
  /\ step = "pmset" => onDarwin
  /\ step \in {"capacity", "pmset"} => report = NoReport
  /\ step # "idle" => battery \in during

BatteryInv ==
  /\ BatteryTypeOK /\ DOMAIN report = DOMAIN NoReport /\ Underway
  /\ PowerNotInvented /\ PowerNotDenied /\ LevelTold

LEMMA EmptyReportTells ==
  ASSUME report = NoReport
  PROVE  /\ PowerNotInvented /\ PowerNotDenied /\ LevelTold
         /\ DOMAIN report = DOMAIN NoReport
         /\ report.percent = -1 /\ report.charging = -1 /\ report.pluggedIn = -1
         /\ report.healthOver = -1
BY DEF NoReport, None, PowerNotInvented, PowerNotDenied, LevelTold

LEMMA BatteryStarts == BatteryInit => BatteryInv
<1>1. SUFFICES ASSUME BatteryInit
               PROVE  BatteryInv
  OBVIOUS
<1>2. report = NoReport /\ step = "idle" /\ during = {} /\ unread = FALSE
  BY <1>1 DEF BatteryInit
<1>3. Underway
  BY <1>2 DEF Underway
<1>4. BatteryTypeOK
  BY <1>1, <1>2, EmptyReportTells DEF BatteryInit, BatteryTypeOK, None
<1>5. QED
  BY <1>2, <1>3, <1>4, EmptyReportTells DEF BatteryInv

\* What the status file says of a battery, and what pmset says of one
LEMMA LinuxTells ==
  ASSUME NEW bat \in Batteries
  PROVE  /\ LinuxState(bat.state) \in {0, 1} \X {0, 1} /\ LinuxState("") = <<0, 0>>
         /\ LinuxState(bat.state)[1] = 1 <=> bat.state = "charging"
         /\ LinuxState(bat.state)[2] = 1 <=> bat.state \in {"charging", "full"}
         /\ LinuxState(bat.state)[2] = 1 => bat.plugged
<1>1. bat.state \in States /\ (bat.plugged \/ bat.state \in {"discharging", "unknown"})
  BY DEF Batteries
<1>2. CASE bat.state = "charging"
  BY <1>1, <1>2 DEF LinuxState
<1>3. CASE bat.state = "full"
  BY <1>1, <1>3 DEF LinuxState
<1>4. CASE bat.state \notin {"charging", "full"}
  BY <1>4 DEF LinuxState
<1>5. QED
  BY <1>2, <1>3, <1>4

LEMMA DarwinTells ==
  ASSUME NEW bat \in Batteries
  PROVE  /\ DarwinState(Words(bat)) \in {0, 1} \X {0, 1}
         /\ DarwinState(Words(bat))[1] = 1 <=> bat.state \in {"charging", "not charging"}
         /\ DarwinState(Words(bat))[2] = 1 <=> bat.plugged
<1>1. bat.state \in States /\ bat.plugged \in BOOLEAN /\ (bat.plugged \/ bat.state \in {"discharging", "unknown"})
  BY DEF Batteries
<1>2. "ac power" \in Words(bat) <=> bat.plugged
  BY <1>1 DEF Words, States
<1>3. /\ "discharging" \in Words(bat) <=> bat.state = "discharging"
      /\ "charging" \in Words(bat) <=> bat.state \in {"discharging", "charging", "not charging"}
      /\ "charged" \in Words(bat) <=> bat.state = "full"
      /\ "full" \notin Words(bat)
  BY <1>1 DEF Words, States
<1>4. Words(bat) \cap {"charged", "full"} # {} <=> bat.state = "full"
  BY <1>3
<1> DEFINE w == Words(bat)
<1> HIDE DEF w
<1>5. /\ "ac power" \in w <=> bat.plugged
      /\ "discharging" \in w <=> bat.state = "discharging"
      /\ "charging" \in w <=> bat.state \in {"discharging", "charging", "not charging"}
      /\ w \cap {"charged", "full"} # {} <=> bat.state = "full"
  BY <1>2, <1>3, <1>4 DEF w
<1>6. /\ DarwinState(w) \in {0, 1} \X {0, 1}
      /\ DarwinState(w)[1] = 1 <=> bat.state \in {"charging", "not charging"}
      /\ DarwinState(w)[2] = 1 <=> bat.plugged
  <2>1. CASE bat.plugged
    <3>1. "ac power" \in w
      BY <1>5, <2>1
    <3>2. DarwinState(w) = IF bat.state = "discharging" THEN <<0, 1>>
                           ELSE IF bat.state \in {"charging", "not charging"} THEN <<1, 1>>
                           ELSE <<0, 1>>
      BY <1>5, <3>1 DEF DarwinState
    <3>3. CASE bat.state \in {"charging", "not charging"}
      <4>1. DarwinState(w) = <<1, 1>>
        BY <3>2, <3>3
      <4>2. DarwinState(w) \in {0, 1} \X {0, 1} /\ DarwinState(w)[1] = 1 /\ DarwinState(w)[2] = 1
        BY <4>1
      <4>3. QED
        BY <2>1, <3>3, <4>2
    <3>4. CASE bat.state \notin {"charging", "not charging"}
      <4>1. DarwinState(w) = <<0, 1>>
        BY <3>2, <3>4
      <4>2. DarwinState(w) \in {0, 1} \X {0, 1} /\ DarwinState(w)[1] = 0 /\ DarwinState(w)[2] = 1
        BY <4>1
      <4>3. DarwinState(w)[1] # 1
        BY <4>2
      <4>4. QED
        BY <2>1, <3>4, <4>2, <4>3
    <3>5. QED
      BY <3>3, <3>4
  <2>2. CASE ~bat.plugged
    <3>1. "ac power" \notin w /\ bat.state \in {"discharging", "unknown"}
      BY <1>1, <1>5, <2>2
    <3>2. DarwinState(w) = <<0, 0>>
      BY <1>5, <3>1 DEF DarwinState
    <3>3. bat.state \notin {"charging", "not charging"}
      BY <3>1
    <3>4. DarwinState(w) \in {0, 1} \X {0, 1} /\ DarwinState(w)[1] = 0 /\ DarwinState(w)[2] = 0
      BY <3>2
    <3>5. DarwinState(w)[1] # 1 /\ DarwinState(w)[2] # 1
      BY <3>4
    <3>6. QED
      BY <2>2, <3>3, <3>4, <3>5
  <2>3. QED
    BY <2>1, <2>2
<1>7. QED
  BY <1>6 DEF w

\* What has been told stays true while the battery goes on.
LEMMA ToldStays ==
  ASSUME BatteryInv, UNCHANGED <<onDarwin, unread>>, during \subseteq during',
         report'.percent = report.percent, report'.charging = report.charging,
         report'.pluggedIn = report.pluggedIn
  PROVE  (PowerNotInvented /\ PowerNotDenied /\ LevelTold)'
<1>1. PowerNotInvented /\ PowerNotDenied /\ LevelTold
  BY DEF BatteryInv
<1>2. PowerNotInvented'
  BY <1>1 DEF PowerNotInvented
<1>3. PowerNotDenied'
  BY <1>1 DEF PowerNotDenied
<1>4. LevelTold'
  BY <1>1 DEF LevelTold
<1>5. QED
  BY <1>2, <1>3, <1>4

LEMMA BatteryOfBegin ==
  ASSUME BatteryInv, Begin \/ Unavailable
  PROVE  BatteryInv'
<1>1. report' = NoReport /\ UNCHANGED <<onDarwin, battery, design>>
  BY DEF Begin, Unavailable, Reports
<1>2. (PowerNotInvented /\ PowerNotDenied /\ LevelTold)' /\ DOMAIN report' = DOMAIN NoReport
  BY <1>1 DEF NoReport, None, PowerNotInvented, PowerNotDenied, LevelTold
<1>3. report'.percent = -1 /\ report'.charging = -1 /\ report'.pluggedIn = -1 /\ report'.healthOver = -1
  BY <1>1 DEF NoReport, None
<1>4. /\ step' \in {"idle", "capacity", "pmset"} /\ during' \subseteq Batteries /\ unread' \in BOOLEAN
      /\ Underway'
  BY <1>1 DEF Begin, Unavailable, Reports, Underway, BatteryInv, BatteryTypeOK
<1>5. BatteryTypeOK'
  BY <1>1, <1>3, <1>4 DEF BatteryInv, BatteryTypeOK, None
<1>6. QED
  BY <1>2, <1>4, <1>5 DEF BatteryInv

LEMMA BatteryOfCapacity ==
  ASSUME BatteryInv, ReadCapacity
  PROVE  BatteryInv'
<1>1. /\ report' = [report EXCEPT !.percent = battery.level] /\ step = "capacity" /\ step' = "status"
      /\ UNCHANGED <<onDarwin, battery, design, during, unread>>
  BY DEF ReadCapacity, Reports
<1>2. report = NoReport /\ ~onDarwin /\ battery \in during /\ battery.level \in Levels
  BY <1>1 DEF BatteryInv, Underway, BatteryTypeOK, Batteries
<1>3. /\ report'.percent = battery.level /\ report'.charging = -1 /\ report'.pluggedIn = -1
      /\ report'.healthOver = -1 /\ DOMAIN report' = DOMAIN NoReport
  BY <1>1, <1>2 DEF NoReport, None
<1>4. BatteryTypeOK' /\ Underway'
  BY <1>1, <1>2, <1>3 DEF BatteryInv, BatteryTypeOK, Underway, None
<1>5. (PowerNotInvented /\ PowerNotDenied)'
  BY <1>3 DEF PowerNotInvented, PowerNotDenied
<1>6. LevelTold'
  BY <1>1, <1>2, <1>3 DEF LevelTold
<1>7. QED
  BY <1>3, <1>4, <1>5, <1>6 DEF BatteryInv

LEMMA BatteryOfStatus ==
  ASSUME BatteryInv, NEW readable \in BOOLEAN, ReadStatus(readable)
  PROVE  BatteryInv'
<1> DEFINE told == LinuxState(IF readable THEN battery.state ELSE "")
<1>1. /\ report' = [report EXCEPT !.charging = told[1], !.pluggedIn = told[2]]
      /\ step = "status" /\ step' = "health" /\ unread' = ~readable
      /\ UNCHANGED <<onDarwin, battery, design, during>>
  BY DEF ReadStatus, Reports
<1>2. ~onDarwin /\ battery \in during /\ battery \in Batteries
  BY <1>1 DEF BatteryInv, Underway, BatteryTypeOK
<1>3. /\ told \in {0, 1} \X {0, 1}
      /\ told[1] = 1 => battery.state = "charging"
      /\ told[2] = 1 => battery.plugged /\ battery.state \in {"charging", "full"}
      /\ told[1] = 1 => told[2] = 1
      /\ told[1] = 0 => ~readable \/ battery.state # "charging"
      /\ told[2] = 0 => ~readable \/ battery.state \notin {"charging", "full"}
  <2>1. CASE readable
    <3>1. told = LinuxState(battery.state)
      BY <2>1
    <3>2. /\ LinuxState(battery.state) \in {0, 1} \X {0, 1}
          /\ LinuxState(battery.state)[1] = 1 <=> battery.state = "charging"
          /\ LinuxState(battery.state)[2] = 1 <=> battery.state \in {"charging", "full"}
          /\ LinuxState(battery.state)[2] = 1 => battery.plugged
      BY <1>2, LinuxTells
    <3> HIDE DEF told
    <3>3. QED
      BY <3>1, <3>2
  <2>2. CASE ~readable
    <3>1. told = <<0, 0>>
      BY <1>2, <2>2, LinuxTells
    <3> HIDE DEF told
    <3>2. QED
      BY <2>2, <3>1
  <2>3. QED
    BY <2>1, <2>2
<1> HIDE DEF told
<1>4. /\ report'.percent = report.percent /\ report'.charging = told[1] /\ report'.pluggedIn = told[2]
      /\ report'.healthOver = report.healthOver /\ DOMAIN report' = DOMAIN NoReport
  BY <1>1 DEF BatteryInv, NoReport
<1>5. told[1] \in {0, 1} /\ told[2] \in {0, 1}
  BY <1>3
<1>6. BatteryTypeOK' /\ Underway'
  BY <1>1, <1>2, <1>4, <1>5 DEF BatteryInv, BatteryTypeOK, Underway
<1>7. PowerNotInvented'
  BY <1>1, <1>2, <1>3, <1>4, <1>5 DEF PowerNotInvented
<1>8. PowerNotDenied'
  BY <1>1, <1>2, <1>3, <1>4, <1>5 DEF PowerNotDenied
<1>9. LevelTold'
  BY <1>1, <1>2, <1>4 DEF BatteryInv, LevelTold
<1>10. QED
  BY <1>4, <1>6, <1>7, <1>8, <1>9 DEF BatteryInv

LEMMA BatteryOfPmset ==
  ASSUME BatteryInv, RunPmset
  PROVE  BatteryInv'
<1> DEFINE told == DarwinState(Words(battery))
<1>1. /\ report' = [report EXCEPT !.percent = battery.level, !.charging = told[1],
                                  !.pluggedIn = told[2]]
      /\ step = "pmset" /\ step' = "health"
      /\ UNCHANGED <<onDarwin, battery, design, during, unread>>
  BY DEF RunPmset, Reports
<1>2. onDarwin /\ battery \in during /\ battery \in Batteries
  BY <1>1 DEF BatteryInv, Underway, BatteryTypeOK
<1>3. /\ told \in {0, 1} \X {0, 1}
      /\ told[1] = 1 <=> battery.state \in {"charging", "not charging"}
      /\ told[2] = 1 <=> battery.plugged
  BY <1>2, DarwinTells
<1> HIDE DEF told
<1>4. /\ report'.percent = battery.level /\ report'.charging = told[1] /\ report'.pluggedIn = told[2]
      /\ report'.healthOver = report.healthOver /\ DOMAIN report' = DOMAIN NoReport
  BY <1>1 DEF BatteryInv, NoReport
<1>5. /\ told[1] \in {0, 1} /\ told[2] \in {0, 1} /\ battery.level \in Levels
      /\ battery.plugged \/ battery.state \in {"discharging", "unknown"}
  BY <1>2, <1>3 DEF Batteries
<1>6. BatteryTypeOK' /\ Underway'
  BY <1>1, <1>2, <1>4, <1>5 DEF BatteryInv, BatteryTypeOK, Underway
<1>7. PowerNotInvented'
  BY <1>1, <1>2, <1>3, <1>4, <1>5 DEF PowerNotInvented
<1>8. PowerNotDenied'
  <2>1. report'.charging = 0 => told[1] # 1
    BY <1>4
  <2>2. report'.pluggedIn = 0 => told[2] # 1
    BY <1>4
  <2>3. QED
    BY <1>1, <1>2, <1>3, <2>1, <2>2 DEF PowerNotDenied
<1>9. LevelTold'
  BY <1>1, <1>2, <1>3, <1>4, <1>5 DEF LevelTold
<1>10. QED
  BY <1>4, <1>6, <1>7, <1>8, <1>9 DEF BatteryInv

LEMMA BatteryOfHealth ==
  ASSUME BatteryInv, Health \/ NoHealth
  PROVE  BatteryInv'
<1>1. /\ report' = report \/ (design > 0 /\ report' = [report EXCEPT !.healthOver = design])
      /\ step' = "idle" /\ UNCHANGED <<onDarwin, battery, design, during, unread>>
  BY DEF Health, NoHealth, Reports
<1>2. /\ report'.percent = report.percent /\ report'.charging = report.charging
      /\ report'.pluggedIn = report.pluggedIn /\ DOMAIN report' = DOMAIN NoReport
      /\ report'.healthOver = report.healthOver
           \/ (design > 0 /\ report'.healthOver = design)
  BY <1>1 DEF BatteryInv, NoReport
<1>3. BatteryTypeOK' /\ Underway'
  BY <1>1, <1>2, BatteryAssumption DEF BatteryInv, BatteryTypeOK, Underway
<1>4. (PowerNotInvented /\ PowerNotDenied /\ LevelTold)'
  BY <1>1, <1>2, ToldStays
<1>5. QED
  BY <1>2, <1>3, <1>4 DEF BatteryInv

LEMMA BatteryOfChange ==
  ASSUME BatteryInv, BatteryChanges
  PROVE  BatteryInv'
<1>1. /\ UNCHANGED <<onDarwin, design, step, report, unread>> /\ battery' \in Batteries
      /\ during \subseteq during' /\ during' \subseteq during \cup {battery'}
      /\ step # "idle" => battery' \in during'
  BY DEF BatteryChanges
<1>2. BatteryTypeOK' /\ Underway'
  BY <1>1 DEF BatteryInv, BatteryTypeOK, Underway
<1>3. (PowerNotInvented /\ PowerNotDenied /\ LevelTold)'
  BY <1>1, ToldStays
<1>4. QED
  BY <1>1, <1>2, <1>3 DEF BatteryInv

LEMMA BatteryStep == BatteryInv /\ [BatteryNext]_batteryVars => BatteryInv'
<1>1. BatteryInv /\ BatteryNext => BatteryInv'
  BY BatteryOfBegin, BatteryOfCapacity, BatteryOfStatus, BatteryOfPmset, BatteryOfHealth,
    BatteryOfChange DEF BatteryNext
<1>2. BatteryInv /\ UNCHANGED batteryVars => BatteryInv'
  <2>1. SUFFICES ASSUME BatteryInv, UNCHANGED batteryVars
                 PROVE  BatteryInv'
    OBVIOUS
  <2>2. BatteryTypeOK' /\ Underway' /\ DOMAIN report' = DOMAIN NoReport
    BY <2>1 DEF batteryVars, BatteryInv, BatteryTypeOK, Underway
  <2>3. (PowerNotInvented /\ PowerNotDenied /\ LevelTold)'
    BY <2>1, ToldStays DEF batteryVars
  <2>4. QED
    BY <2>2, <2>3 DEF BatteryInv
<1>3. QED
  BY <1>1, <1>2

LEMMA BatteryInvAlways == BatterySpec => []BatteryInv
BY BatteryStarts, BatteryStep, PTL DEF BatterySpec

\* battery_linux.go, battery_darwin.go: for any levels and capacities, and however often
\* the battery changes during a call, what Collect tells of it was so, within what
\* an unreadable status and macOS's "not charging" allow.
THEOREM BatteryIsTold == BatterySpec => []BatteryTold
<1>1. BatteryInv => BatteryTold
  BY DEF BatteryInv, BatteryTold
<1>2. QED
  BY <1>1, BatteryInvAlways, PTL

----------------------------------------------------------------------------
(***************************************************************************)
(* The disk collector, for any mount points and prefixes, whatever is      *)
(* mounted, unmounted or unreadable while it asks.                         *)
(***************************************************************************)

\* A text, an underscore and another text
LEMMA Underscored ==
  ASSUME NEW T, NEW a \in Seq(T), NEW x \in Seq(T), Underscore \in T,
         NEW s, s = a \o (<<Underscore>> \o x)
  PROVE  /\ s \in Seq(T) /\ Len(s) = Len(a) + (1 + Len(x)) /\ s[Len(a) + 1] = Underscore
         /\ \A i \in 1 .. Len(a) : s[i] = a[i]
         /\ \A i \in 1 .. Len(x) : s[Len(a) + (1 + i)] = x[i]
<1> DEFINE u == <<Underscore>> \o x
<1>1. <<Underscore>> \in Seq(T) /\ Len(<<Underscore>>) = 1 /\ <<Underscore>>[1] = Underscore
  OBVIOUS
<1>2. PICK k \in Nat : k = Len(x)
  OBVIOUS
<1>3. /\ u \in Seq(T) /\ Len(u) = 1 + k
      /\ \A i \in 1 .. 1 + k : u[i] = IF i <= 1 THEN <<Underscore>>[i] ELSE x[i - 1]
  BY <1>1, <1>2, ConcatProperties
<1>4. u[1] = Underscore
  <2>1. 1 \in 1 .. 1 + k
    BY <1>2
  <2>2. QED
    BY <1>1, <1>3, <2>1
<1>5. \A i \in 1 .. k : u[1 + i] = x[i] /\ 1 + i \in 1 .. 1 + k
  <2>1. SUFFICES ASSUME NEW i \in 1 .. k
                 PROVE  u[1 + i] = x[i] /\ 1 + i \in 1 .. 1 + k
    OBVIOUS
  <2>2. 1 + i \in 1 .. 1 + k /\ ~(1 + i <= 1) /\ (1 + i) - 1 = i
    BY <1>2
  <2>3. QED
    BY <1>3, <2>2
<1> HIDE DEF u
<1>6. PICK n \in Nat : n = Len(a)
  OBVIOUS
<1>7. /\ s \in Seq(T) /\ Len(s) = n + (1 + k)
      /\ \A i \in 1 .. n + (1 + k) : s[i] = IF i <= n THEN a[i] ELSE u[i - n]
  <2>1. s = a \o u
    BY DEF u
  <2>2. QED
    BY <1>3, <1>6, <2>1, ConcatProperties
<1>8. \A i \in 1 .. n : s[i] = a[i]
  <2>1. \A i \in 1 .. n : i \in 1 .. n + (1 + k) /\ i <= n
    BY <1>2, <1>6
  <2>2. QED
    BY <1>7, <2>1
<1>9. \A i \in 1 .. 1 + k : s[n + i] = u[i]
  <2>1. SUFFICES ASSUME NEW i \in 1 .. 1 + k
                 PROVE  s[n + i] = u[i]
    OBVIOUS
  <2>2. n + i \in 1 .. n + (1 + k) /\ ~(n + i <= n) /\ (n + i) - n = i
    BY <1>2, <1>6
  <2>3. QED
    BY <1>7, <2>2
<1>10. 1 \in 1 .. 1 + k
  BY <1>2
<1>11. s[n + 1] = Underscore /\ \A i \in 1 .. k : s[n + (1 + i)] = x[i]
  BY <1>4, <1>5, <1>9, <1>10
<1>12. QED
  BY <1>2, <1>6, <1>7, <1>8, <1>11

NoUnderscore(x) == \A i \in 1 .. Len(x) : x[i] # Underscore

\* Two texts that end in an underscore and something without one
LEMMA SplitAtUnderscore ==
  ASSUME NEW T, NEW a \in Seq(T), NEW e \in Seq(T), NEW x \in Seq(T), NEW y \in Seq(T),
         NoUnderscore(x), NoUnderscore(y),
         Underscore \in T, a \o (<<Underscore>> \o x) = e \o (<<Underscore>> \o y)
  PROVE  a = e /\ x = y
<1> DEFINE s == a \o (<<Underscore>> \o x)
<1>0. s = e \o (<<Underscore>> \o y)
  OBVIOUS
<1>1. Len(a) \in Nat /\ Len(x) \in Nat /\ Len(e) \in Nat /\ Len(y) \in Nat
  OBVIOUS
<1> DEFINE n == Len(a)
           k == Len(x)
           l == Len(e)
           j == Len(y)
<1>2. /\ Len(s) = n + (1 + k) /\ s[n + 1] = Underscore /\ \A i \in 1 .. n : s[i] = a[i]
      /\ \A i \in 1 .. k : s[n + (1 + i)] = x[i]
  BY Underscored
<1> HIDE DEF s
<1>3. /\ Len(s) = l + (1 + j) /\ s[l + 1] = Underscore /\ \A i \in 1 .. l : s[i] = e[i]
      /\ \A i \in 1 .. j : s[l + (1 + i)] = y[i]
  BY <1>0, Underscored
<1>o. NoUnderscore(x) /\ NoUnderscore(y)
  OBVIOUS
<1>p. /\ n \in Nat /\ k \in Nat /\ l \in Nat /\ j \in Nat
      /\ \A i \in 1 .. k : x[i] # Underscore
      /\ \A i \in 1 .. j : y[i] # Underscore
  BY <1>1, <1>o DEF NoUnderscore
<1> HIDE DEF n, k, l, j
<1>q. n + (1 + k) = l + (1 + j)
  BY <1>2, <1>3
<1>4. n + k = l + j
  BY <1>q, <1>p
<1>5. ~(l < n)
  <2>1. SUFFICES ASSUME l < n
                 PROVE  FALSE
    OBVIOUS
  <2>2. n - l \in 1 .. j /\ l + (1 + (n - l)) = n + 1
    BY <1>4, <1>p, <2>1
  <2>3. QED
    BY <1>2, <1>3, <1>p, <2>2
<1>6. ~(n < l)
  <2>1. SUFFICES ASSUME n < l
                 PROVE  FALSE
    OBVIOUS
  <2>2. l - n \in 1 .. k /\ n + (1 + (l - n)) = l + 1
    BY <1>4, <1>p, <2>1
  <2>3. QED
    BY <1>2, <1>3, <1>p, <2>2
<1>7. n = l /\ k = j
  BY <1>4, <1>5, <1>6, <1>p
<1>8. \A i \in 1 .. n : a[i] = e[i]
  BY <1>2, <1>3, <1>7
<1>9. \A i \in 1 .. k : x[i] = y[i]
  BY <1>2, <1>3, <1>7
<1>10. QED
  BY <1>7, <1>8, <1>9, SeqEqual DEF n, k, l, j

\* The parts, each with an underscore before it
Parted(m) == [i \in DOMAIN m |-> <<Underscore>> \o SanitizePart(m[i])]

LEMMA PartsOfPlaces ==
  ASSUME NEW m \in Places
  PROVE  /\ m \in Seq(Seq(DOMAIN Lower)) /\ Len(m) \in Nat /\ Parted(m) \in Seq(Seq(Allowed))
         /\ Len(Parted(m)) = Len(m)
         /\ \A i \in 1 .. Len(m) :
              /\ m[i] \in Seq(DOMAIN Lower) /\ m[i] # << >>
              /\ SanitizePart(m[i]) \in Seq(Allowed) /\ Parted(m)[i] = <<Underscore>> \o SanitizePart(m[i])
<1>1. /\ Len(m) \in Nat /\ DOMAIN m = 1 .. Len(m) /\ m \in Seq(Seq(DOMAIN Lower))
      /\ \A i \in 1 .. Len(m) : m[i] \in Seq(DOMAIN Lower) /\ m[i] # << >>
  BY DEF Places
<1>2. ASSUME NEW word \in Seq(DOMAIN Lower)
      PROVE  SanitizePart(word) \in Seq(Allowed)
  <2>1. Underscore \in Allowed
    BY DiskAssumption
  <2>2. QED
    BY <2>1 DEF SanitizePart
<1>3. \A i \in 1 .. Len(m) : SanitizePart(m[i]) \in Seq(Allowed)
  BY <1>1, <1>2
<1>4. \A i \in 1 .. Len(m) : <<Underscore>> \o SanitizePart(m[i]) \in Seq(Allowed)
  <2>1. <<Underscore>> \in Seq(Allowed)
    BY DiskAssumption
  <2>2. QED
    BY <1>3, <2>1, ConcatProperties
<1>5. Parted(m) \in Seq(Seq(Allowed)) /\ Len(Parted(m)) = Len(m)
  BY <1>1, <1>4 DEF Parted
<1>6. QED
  BY <1>1, <1>3, <1>5 DEF Parted

\* What the parts are put together to, part after part
LEMMA PartedTable ==
  ASSUME NEW m \in Places
  PROVE  \E f \in [0 .. Len(m) -> Seq(Allowed)] :
           /\ f[0] = << >> /\ FlattenSeq(Parted(m)) = f[Len(m)]
           /\ \A i \in 1 .. Len(m) : f[i] = f[i - 1] \o (<<Underscore>> \o SanitizePart(m[i]))
<1>1. Parted(m) \in Seq(Seq(Allowed)) /\ Len(Parted(m)) = Len(m)
  BY PartsOfPlaces
<1>2. PICK f \in [0 .. Len(Parted(m)) -> Seq(Allowed)] : IsFlattened(f, Parted(m))
  BY <1>1, FlattenTable
<1>3. \A i \in 1 .. Len(m) : Parted(m)[i] = <<Underscore>> \o SanitizePart(m[i])
  BY PartsOfPlaces
<1>4. f \in [0 .. Len(m) -> Seq(Allowed)]
  BY <1>1, <1>2
<1>5. QED
  BY <1>1, <1>2, <1>3, <1>4 DEF IsFlattened

\* A plain part is its own name, and has no underscore.
LEMMA PlainPart ==
  ASSUME NEW m \in Places, Plain(m), NEW i \in 1 .. Len(m)
  PROVE  SanitizePart(m[i]) = m[i] /\ NoUnderscore(m[i])
<1>1. m[i] \in Seq(DOMAIN Lower) /\ DOMAIN m = 1 .. Len(m)
  BY DEF Places
<1>2. \A j \in 1 .. Len(m[i]) : m[i][j] \in Allowed /\ m[i][j] # Underscore
  BY <1>1 DEF Plain
<1>3. \A j \in 1 .. Len(m[i]) : Lower[m[i][j]] = m[i][j]
  BY <1>2, DiskAssumption
<1>4. SanitizePart(m[i]) = [j \in 1 .. Len(m[i]) |-> m[i][j]]
  BY <1>1, <1>2, <1>3 DEF SanitizePart
<1>5. m[i] = [j \in 1 .. Len(m[i]) |-> m[i][j]]
  BY <1>1
<1>6. QED
  BY <1>2, <1>4, <1>5 DEF NoUnderscore

\* The text has at least one character for each part.
LEMMA TextsAreNotEmpty ==
  ASSUME NEW m \in Places, NEW f \in [0 .. Len(m) -> Seq(Allowed)],
         \A i \in 1 .. Len(m) : f[i] = f[i - 1] \o (<<Underscore>> \o SanitizePart(m[i])),
         NEW i \in 1 .. Len(m)
  PROVE  f[i] # << >>
<1>1. i - 1 \in 0 .. Len(m) /\ i \in 0 .. Len(m)
  BY PartsOfPlaces
<1> DEFINE u == <<Underscore>> \o SanitizePart(m[i])
<1>2. u \in Seq(Allowed) /\ Len(u) > 0
  <2>1. SanitizePart(m[i]) \in Seq(Allowed) /\ Underscore \in Allowed
    BY PartsOfPlaces, DiskAssumption
  <2>2. QED
    BY <2>1
<1>3. f[i - 1] \in Seq(Allowed) /\ f[i] = f[i - 1] \o u
  BY <1>1
<1> HIDE DEF u
<1>4. Len(f[i]) = Len(f[i - 1]) + Len(u) /\ Len(f[i - 1]) \in Nat /\ Len(u) \in Nat
  BY <1>2, <1>3
<1>5. QED
  BY <1>2, <1>4

\* Of two plain places, the parts are put together to different texts.
LEMMA TextsApart ==
  ASSUME NEW m \in Places, NEW n \in Places, Plain(m), Plain(n),
         FlattenSeq(Parted(m)) = FlattenSeq(Parted(n))
  PROVE  m = n
<1>1. PICK f \in [0 .. Len(m) -> Seq(Allowed)] :
        /\ f[0] = << >> /\ FlattenSeq(Parted(m)) = f[Len(m)]
        /\ \A i \in 1 .. Len(m) : f[i] = f[i - 1] \o (<<Underscore>> \o SanitizePart(m[i]))
  BY PartedTable
<1>2. PICK g \in [0 .. Len(n) -> Seq(Allowed)] :
        /\ g[0] = << >> /\ FlattenSeq(Parted(n)) = g[Len(n)]
        /\ \A i \in 1 .. Len(n) : g[i] = g[i - 1] \o (<<Underscore>> \o SanitizePart(n[i]))
  BY PartedTable
<1>3. Len(m) \in Nat /\ Len(n) \in Nat
  BY PartsOfPlaces
<1> DEFINE Agree(i, j) == i = j /\ \A k \in 1 .. i : m[k] = n[k]
           Bad == {i \in 0 .. Len(m) : \E j \in 0 .. Len(n) : f[i] = g[j] /\ ~Agree(i, j)}
<1>4. ASSUME NEW i \in Bad, \A k \in Bad : i <= k
      PROVE  FALSE
  <2>1. PICK j \in 0 .. Len(n) : f[i] = g[j] /\ ~Agree(i, j)
    OBVIOUS
  <2>2. i \in 0 .. Len(m)
    OBVIOUS
  <2>3. i # 0
    <3>1. SUFFICES ASSUME i = 0
                   PROVE  FALSE
      OBVIOUS
    <3>2. j = 0
      <4>1. j \in 1 .. Len(n) => g[j] # << >>
        BY <1>2, TextsAreNotEmpty
      <4>2. QED
        BY <1>1, <1>3, <2>1, <3>1, <4>1
    <3>3. QED
      BY <2>1, <3>1, <3>2
  <2>4. i \in 1 .. Len(m) /\ i - 1 \in 0 .. Len(m)
    BY <1>3, <2>2, <2>3
  <2>5. j # 0
    <3>1. f[i] # << >>
      BY <1>1, <2>4, TextsAreNotEmpty
    <3>2. QED
      BY <1>2, <2>1, <3>1
  <2>6. j \in 1 .. Len(n) /\ j - 1 \in 0 .. Len(n)
    BY <1>3, <2>1, <2>5
  <2>7. f[i - 1] = g[j - 1] /\ m[i] = n[j]
    <3>1. SanitizePart(m[i]) = m[i] /\ NoUnderscore(m[i])
      BY <2>4, PlainPart
    <3>2. SanitizePart(n[j]) = n[j] /\ NoUnderscore(n[j])
      BY <2>6, PlainPart
    <3>3. f[i - 1] \o (<<Underscore>> \o m[i]) = g[j - 1] \o (<<Underscore>> \o n[j])
      BY <1>1, <1>2, <2>1, <2>4, <2>6, <3>1, <3>2
    <3>4. /\ f[i - 1] \in Seq(Allowed) /\ g[j - 1] \in Seq(Allowed)
          /\ m[i] \in Seq(Allowed) /\ n[j] \in Seq(Allowed) /\ Underscore \in Allowed
      <4>1. SanitizePart(m[i]) \in Seq(Allowed) /\ SanitizePart(n[j]) \in Seq(Allowed)
        BY <2>4, <2>6, PartsOfPlaces
      <4>2. QED
        BY <2>4, <2>6, <3>1, <3>2, <4>1, DiskAssumption
    <3>5. QED
      <4> DEFINE before == f[i - 1]
                 last   == m[i]
                 ahead  == g[j - 1]
                 end    == n[j]
      <4>1. /\ before \in Seq(Allowed) /\ ahead \in Seq(Allowed)
            /\ last \in Seq(Allowed) /\ end \in Seq(Allowed) /\ Underscore \in Allowed
            /\ NoUnderscore(last) /\ NoUnderscore(end)
            /\ before \o (<<Underscore>> \o last) = ahead \o (<<Underscore>> \o end)
        BY <3>1, <3>2, <3>3, <3>4
      <4> HIDE DEF before, last, ahead, end
      <4>2. before = ahead /\ last = end
        BY <4>1, SplitAtUnderscore
      <4>3. QED
        BY <4>2 DEF before, last, ahead, end
  <2>8. i - 1 \notin Bad
    <3>1. ~(i <= i - 1)
      BY <2>2
    <3> HIDE DEF Bad
    <3>2. QED
      BY <1>4, <3>1
  <2>9. Agree(i - 1, j - 1)
    BY <2>4, <2>6, <2>7, <2>8
  <2>10. i = j /\ \A k \in 1 .. i - 1 : m[k] = n[k]
    BY <2>2, <2>1, <2>9
  <2>11. \A k \in 1 .. i : k = i \/ k \in 1 .. i - 1
    BY <2>2
  <2>12. QED
    BY <2>1, <2>7, <2>10, <2>11
<1>5. Bad = {}
  <2>1. Bad \in SUBSET Nat
    BY <1>3
  <2> HIDE DEF Bad
  <2>2. QED
    BY <1>4, <2>1, LeastNumber
<1>6. Agree(Len(m), Len(n))
  <2>1. f[Len(m)] = g[Len(n)]
    BY <1>1, <1>2
  <2>2. Len(m) \in 0 .. Len(m) /\ Len(n) \in 0 .. Len(n)
    BY <1>3
  <2> HIDE DEF Agree
  <2>3. QED
    BY <1>5, <2>1, <2>2
<1>7. m \in Seq(Seq(DOMAIN Lower)) /\ n \in Seq(Seq(DOMAIN Lower))
  BY PartsOfPlaces
<1>8. QED
  BY <1>6, <1>7, SeqEqual

\* A place's text is a text, begins with the underscore and goes on.
LEMMA WholeText ==
  ASSUME NEW x \in Places, x # << >>
  PROVE  /\ FlattenSeq(Parted(x)) \in Seq(Allowed) /\ FlattenSeq(Parted(x)) # << >>
         /\ Head(FlattenSeq(Parted(x))) = Underscore /\ Len(FlattenSeq(Parted(x))) > 1
<1>1. PICK f \in [0 .. Len(x) -> Seq(Allowed)] :
        /\ f[0] = << >> /\ FlattenSeq(Parted(x)) = f[Len(x)]
        /\ \A i \in 1 .. Len(x) : f[i] = f[i - 1] \o (<<Underscore>> \o SanitizePart(x[i]))
  BY PartedTable
<1>2. Len(x) \in Nat \ {0} /\ \A i \in 1 .. Len(x) : SanitizePart(x[i]) \in Seq(Allowed)
  <2>1. x \in Seq(Seq(DOMAIN Lower)) /\ Len(x) \in Nat
    BY PartsOfPlaces
  <2>2. QED
    BY <2>1, EmptySeq, PartsOfPlaces
<1> DEFINE Bad == {i \in 1 .. Len(x) : ~(f[i] # << >> /\ f[i][1] = Underscore)}
<1>3. ASSUME NEW i \in Bad, \A k \in Bad : i <= k
      PROVE  FALSE
  <2>1. i \in 1 .. Len(x) /\ i - 1 \in 0 .. Len(x)
    BY <1>2
  <2> DEFINE a == f[i - 1]
             y == SanitizePart(x[i])
  <2>2. a \in Seq(Allowed) /\ y \in Seq(Allowed) /\ Underscore \in Allowed /\ f[i] = a \o (<<Underscore>> \o y)
    BY <1>1, <1>2, <2>1, DiskAssumption
  <2> HIDE DEF a, y
  <2>3. /\ Len(f[i]) = Len(a) + (1 + Len(y)) /\ f[i][Len(a) + 1] = Underscore
        /\ \A k \in 1 .. Len(a) : f[i][k] = a[k]
    BY <2>2, Underscored
  <2>4. Len(a) \in Nat /\ Len(y) \in Nat
    BY <2>2
  <2>5. f[i] # << >>
    BY <2>3, <2>4
  <2>6. CASE i = 1
    <3>1. a = << >>
      BY <1>1, <2>6 DEF a
    <3>2. Len(a) + 1 = 1
      BY <3>1
    <3>3. QED
      BY <2>3, <2>5, <3>2
  <2>7. CASE i # 1
    <3>1. i - 1 \in 1 .. Len(x) /\ ~(i <= i - 1)
      BY <1>2, <2>1, <2>7
    <3>2. i - 1 \notin Bad
      <4> HIDE DEF Bad
      <4>1. QED
        BY <1>3, <3>1
    <3>3. a # << >> /\ a[1] = Underscore
      BY <3>1, <3>2 DEF a
    <3>4. 1 \in 1 .. Len(a)
      BY <2>2, <3>3, EmptySeq
    <3>5. QED
      BY <2>3, <2>5, <3>3, <3>4
  <2>8. QED
    BY <2>6, <2>7
<1>4. Bad = {}
  <2>1. Bad \in SUBSET Nat
    BY <1>2
  <2> HIDE DEF Bad
  <2>2. QED
    BY <1>3, <2>1, LeastNumber
<1>5. f[Len(x)] # << >> /\ f[Len(x)][1] = Underscore /\ f[Len(x)] \in Seq(Allowed)
  <2>1. Len(x) \in 1 .. Len(x) /\ Len(x) \in 0 .. Len(x)
    BY <1>2
  <2>2. QED
    BY <1>4, <2>1
<1>6. Len(f[Len(x)]) > 1
  <2>1. Len(x) \in 1 .. Len(x) /\ Len(x) - 1 \in 0 .. Len(x)
    BY <1>2
  <2> DEFINE a == f[Len(x) - 1]
             y == SanitizePart(x[Len(x)])
  <2>2. a \in Seq(Allowed) /\ y \in Seq(Allowed) /\ f[Len(x)] = a \o (<<Underscore>> \o y)
    BY <1>1, <1>2, <2>1
  <2>3. Len(y) > 0
    <3>1. x[Len(x)] \in Seq(DOMAIN Lower) /\ x[Len(x)] # << >>
      BY <2>1, PartsOfPlaces
    <3>2. Len(x[Len(x)]) \in Nat \ {0}
      BY <3>1, EmptySeq
    <3>3. Len(y) = Len(x[Len(x)])
      BY <3>1 DEF SanitizePart
    <3>4. QED
      BY <3>2, <3>3
  <2> HIDE DEF a, y
  <2>4. Len(f[Len(x)]) = Len(a) + (1 + Len(y)) /\ Len(a) \in Nat /\ Len(y) \in Nat
    BY <2>2, Underscored, DiskAssumption
  <2>5. QED
    BY <2>3, <2>4
<1>7. QED
  BY <1>1, <1>5, <1>6

\* The places that the names stand for: /root is the one that shares "/"'s.
Root == << <<"r", "o", "o", "t">> >>

LEMMA PlainNamesApart ==
  ASSUME NEW m \in MountPoints, NEW n \in MountPoints, Plain(m), Plain(n),
         Sanitize(m) = Sanitize(n), m # << >>
  PROVE  n = m \/ (n = << >> /\ m = Root)
<1>1. m \in Places /\ n \in Places
  BY DiskAssumption
<1> DEFINE full(x) == FlattenSeq(Parted(x))
<1>2. \A x \in Places : x # << >> =>
        full(x) \in Seq(Allowed) /\ full(x) # << >> /\ Head(full(x)) = Underscore
  BY WholeText
<1>3. ASSUME NEW x \in Places, NEW y \in Places, Plain(x), Plain(y), x # << >>, y # << >>,
             Tail(full(x)) = Tail(full(y))
      PROVE  x = y
  <2>1. full(x) = full(y)
    <3>1. /\ full(x) \in Seq(Allowed) /\ full(x) # << >> /\ full(y) \in Seq(Allowed) /\ full(y) # << >>
          /\ Head(full(x)) = Head(full(y))
      BY <1>2, <1>3
    <3>2. full(x) = <<Head(full(x))>> \o Tail(full(x)) /\ full(y) = <<Head(full(y))>> \o Tail(full(y))
      <4> HIDE DEF full
      <4>1. QED
        BY <3>1, HeadTailProperties
    <3>3. QED
      BY <1>3, <3>1, <3>2
  <2>2. QED
    BY <1>3, <2>1, TextsApart
<1>4. \A x \in Places : x # << >> => Sanitize(x) = Tail(full(x))
  BY DEF Sanitize, Parted
<1>5. CASE n # << >>
  BY <1>1, <1>3, <1>4, <1>5
<1>6. CASE n = << >>
  <2>1. Root \in Places /\ Plain(Root) /\ Root # << >>
    <3>1. {"r", "o", "t"} \subseteq Allowed /\ Allowed \subseteq DOMAIN Lower
      BY DiskAssumption
    <3>2. Underscore # "r" /\ Underscore # "o" /\ Underscore # "t"
      BY Zenon DEF Underscore
    <3>3. <<"r", "o", "o", "t">> \in Seq(DOMAIN Lower) \ {<< >>}
      BY <3>1
    <3>4. Root \in Places
      BY <3>3 DEF Root, Places
    <3>5. Plain(Root)
      BY <3>1, <3>2 DEF Root, Plain
    <3>6. QED
      BY <3>4, <3>5 DEF Root
  <2>2. Tail(full(Root)) = <<"r", "o", "o", "t">>
    <3>1. PICK f \in [0 .. Len(Root) -> Seq(Allowed)] :
            /\ f[0] = << >> /\ full(Root) = f[Len(Root)]
            /\ \A i \in 1 .. Len(Root) : f[i] = f[i - 1] \o (<<Underscore>> \o SanitizePart(Root[i]))
      BY <2>1, PartedTable
    <3>2. Len(Root) = 1 /\ Root[1] = <<"r", "o", "o", "t">> /\ SanitizePart(Root[1]) = Root[1]
      <4>1. Len(Root) = 1 /\ Root[1] = <<"r", "o", "o", "t">> /\ 1 \in 1 .. Len(Root)
        BY DEF Root
      <4>2. QED
        BY <2>1, <4>1, PlainPart
    <3>3. full(Root) = << >> \o (<<Underscore>> \o <<"r", "o", "o", "t">>)
      <4>1. 1 \in 1 .. Len(Root) /\ 1 - 1 = 0
        BY <3>2
      <4>2. f[1] = f[0] \o (<<Underscore>> \o SanitizePart(Root[1]))
        BY <3>1, <4>1
      <4>3. QED
        BY <3>1, <3>2, <4>2
    <3> DEFINE word == <<"r", "o", "o", "t">>
               text == << >> \o (<<Underscore>> \o word)
    <3>4. word \in Seq(Allowed) /\ << >> \in Seq(Allowed) /\ Underscore \in Allowed /\ Len(word) = 4
      BY DiskAssumption
    <3>5. full(Root) = text
      BY <3>3
    <3> HIDE DEF word
    <3>6. /\ text \in Seq(Allowed) /\ Len(text) = Len(<< >>) + (1 + Len(word))
          /\ \A i \in 1 .. Len(word) : text[Len(<< >>) + (1 + i)] = word[i]
      BY <3>4, Underscored
    <3> HIDE DEF text
    <3>7. Len(text) = 5 /\ \A i \in 1 .. 4 : text[i + 1] = word[i]
      <4>1. Len(<< >>) = 0
        OBVIOUS
      <4>2. \A i \in 1 .. 4 : Len(<< >>) + (1 + i) = i + 1
        BY <4>1
      <4>3. Len(text) = 5
        BY <3>4, <3>6, <4>1
      <4>4. QED
        BY <3>4, <3>6, <4>2, <4>3
    <3>8. text # << >>
      <4>1. Len(<< >>) = 0
        OBVIOUS
      <4>2. Len(text) # Len(<< >>)
        BY <3>7, <4>1
      <4>3. QED
        BY <4>2
    <3>9. Tail(text) \in Seq(Allowed) /\ Len(Tail(text)) = 4 /\ \A i \in 1 .. 4 : Tail(text)[i] = text[i + 1]
      BY <3>6, <3>7, <3>8, HeadTailProperties
    <3>10. \A i \in 1 .. 4 : Tail(text)[i] = word[i]
      BY <3>7, <3>9
    <3>11. Tail(text) = word
      BY <3>4, <3>9, <3>10, SeqEqual
    <3>12. QED
      BY <3>5, <3>11 DEF word
  <2>3. Sanitize(n) = <<"r", "o", "o", "t">>
    BY <1>6 DEF Sanitize
  <2>4. Tail(full(m)) = Tail(full(Root))
    BY <1>1, <1>4, <2>2, <2>3
  <2>5. m = Root
    BY <1>1, <1>3, <2>1, <2>4
  <2>6. QED
    BY <1>6, <2>5
<1>7. QED
  BY <1>5, <1>6

\* At a path there is a volume, and at a mount point in use the one mounted there.
LEMMA VolumeAtPlaces ==
  ASSUME mounted \subseteq MountPoints, << >> \in mounted, NEW p \in MountPoints
  PROVE  VolumeAt(p) \in mounted /\ (p \in mounted => VolumeAt(p) = p)
<1>1. mounted \subseteq Places /\ p \in Places
  BY DiskAssumption
<1>2. \A v \in Places : v \in Seq(Seq(DOMAIN Lower)) /\ Len(v) \in Nat
  BY PartsOfPlaces
<1> DEFINE Longest(v) == /\ v \in mounted /\ IsPrefix(v, p)
                         /\ \A w \in mounted : IsPrefix(w, p) => Len(w) <= Len(v)
           Rest == {n \in Nat : \E v \in mounted : IsPrefix(v, p) /\ n + Len(v) = Len(p)}
<1>3. \E v : Longest(v)
  <2>1. Len(p) \in Rest
    <3>1. Len(<< >>) = 0 /\ Len(p) \in Nat
      BY <1>1, <1>2
    <3>2. SubSeq(<< >>, 1, 0) = << >> /\ SubSeq(p, 1, 0) = << >>
      BY <1>1, <1>2
    <3>3. IsPrefix(<< >>, p)
      BY <3>1, <3>2 DEF IsPrefix
    <3>4. Len(p) + Len(<< >>) = Len(p)
      BY <3>1
    <3>5. QED
      BY <3>1, <3>3, <3>4
  <2>2. PICK n \in Rest : \A k \in Rest : n <= k
    <3>1. Rest \in SUBSET Nat /\ Rest # {}
      BY <2>1
    <3> HIDE DEF Rest
    <3>2. QED
      BY <3>1, LeastNumber
  <2>3. PICK v \in mounted : IsPrefix(v, p) /\ n + Len(v) = Len(p)
    BY <2>2
  <2>4. ASSUME NEW w \in mounted, IsPrefix(w, p)
        PROVE  Len(w) <= Len(v)
    <3>1. Len(w) \in Nat /\ Len(v) \in Nat /\ Len(p) \in Nat /\ n \in Nat
      BY <1>1, <1>2
    <3>2. Len(w) <= Len(p)
      BY <2>4 DEF IsPrefix
    <3>3. Len(p) - Len(w) \in Nat /\ (Len(p) - Len(w)) + Len(w) = Len(p)
      BY <3>1, <3>2
    <3>4. Len(p) - Len(w) \in Rest
      BY <2>4, <3>3
    <3>5. n <= Len(p) - Len(w)
      <4> HIDE DEF Rest
      <4>1. QED
        BY <2>2, <3>4
    <3>6. QED
      BY <2>3, <3>1, <3>5
  <2>5. QED
    BY <2>3, <2>4
<1> DEFINE at == VolumeAt(p)
<1>4. Longest(at)
  <2>1. at = CHOOSE v \in mounted : /\ IsPrefix(v, p)
                                    /\ \A w \in mounted : IsPrefix(w, p) => Len(w) <= Len(v)
    BY DEF VolumeAt
  <2> HIDE DEF at
  <2>2. QED
    BY <1>3, <2>1
<1> HIDE DEF at
<1>5. ASSUME p \in mounted
      PROVE  at = p
  <2>1. SubSeq(p, 1, Len(p)) = p /\ IsPrefix(p, p)
    BY <1>1, <1>2 DEF IsPrefix
  <2>2. Len(p) <= Len(at) /\ Len(at) <= Len(p) /\ SubSeq(at, 1, Len(at)) = SubSeq(p, 1, Len(at))
    BY <1>4, <1>5, <2>1 DEF IsPrefix
  <2>3. at \in Places /\ Len(at) \in Nat /\ Len(p) \in Nat
    BY <1>1, <1>2, <1>4
  <2>4. Len(at) = Len(p)
    BY <2>2, <2>3
  <2>5. SubSeq(at, 1, Len(at)) = at
    BY <1>2, <2>3
  <2>6. QED
    BY <2>1, <2>2, <2>4, <2>5
<1>6. QED
  BY <1>4, <1>5 DEF at

\* What has been told, and what is still to be, of the volumes
Telling ==
  /\ \A m \in listed : ~\E x \in metrics : x.mount = m
  /\ \A x \in metrics : ~Excluded(x.mount) /\ x.tag = Sanitize(x.mount)
  /\ \A m \in steady : m \in listed \/ Excluded(m) \/ \E x \in metrics : x.mount = m
  /\ collecting => steady \subseteq mounted
  /\ ~collecting => listed = {}

DiskInv == DiskTypeOK /\ Telling /\ TellsItsVolume

LEMMA TagsAreNames ==
  ASSUME NEW m \in MountPoints
  PROVE  Sanitize(m) \in Seq(Allowed) \ {<< >>}
<1>1. CASE m = << >>
  <2>1. {"r", "o", "t"} \subseteq Allowed
    BY DiskAssumption
  <2>2. QED
    BY <1>1, <2>1 DEF Sanitize
<1>2. CASE m # << >>
  <2> DEFINE text == FlattenSeq(Parted(m))
  <2>1. text \in Seq(Allowed) /\ text # << >> /\ Len(text) > 1
    BY <1>2, WholeText, DiskAssumption
  <2>2. Sanitize(m) = Tail(text)
    BY <1>2 DEF Sanitize, Parted
  <2> HIDE DEF text
  <2>3. Tail(text) \in Seq(Allowed) /\ Len(Tail(text)) = Len(text) - 1 /\ Len(text) \in Nat
    BY <2>1, HeadTailProperties
  <2>4. Len(Tail(text)) # 0
    BY <2>1, <2>3
  <2>5. Tail(text) # << >>
    BY <2>4, EmptySeq
  <2>6. QED
    BY <2>2, <2>3, <2>5
<1>3. QED
  BY <1>1, <1>2

LEMMA UsageStep ==
  ASSUME DiskInv, NEW m \in MountPoints, Usage(m)
  PROVE  DiskInv'
<1> DEFINE x == [mount |-> m, volume |-> VolumeAt(m), tag |-> Sanitize(m)]
<1>1. /\ m \in listed /\ ShouldReport(m) /\ metrics' = metrics \cup {x} /\ listed' = listed \ {m}
      /\ UNCHANGED <<mounted, collecting, steady>>
  BY DEF Usage
<1>2. ~Excluded(m)
  BY <1>1 DEF ShouldReport, Excluded
<1>3. collecting /\ steady \subseteq mounted
  BY <1>1 DEF DiskInv, Telling
<1>4. VolumeAt(m) \in MountPoints /\ (m \in mounted => VolumeAt(m) = m)
  BY VolumeAtPlaces DEF DiskInv, DiskTypeOK
<1>5. /\ x.mount = m /\ x.volume = VolumeAt(m) /\ x.tag = Sanitize(m)
      /\ x \in [mount : MountPoints, volume : MountPoints, tag : Seq(Allowed) \ {<< >>}]
  BY <1>4, TagsAreNames
<1> HIDE DEF x
<1>6. DiskTypeOK'
  BY <1>1, <1>5 DEF DiskInv, DiskTypeOK
<1>7. Telling'
  BY <1>1, <1>2, <1>3, <1>5 DEF DiskInv, Telling, Excluded
<1>8. TellsItsVolume'
  BY <1>1, <1>3, <1>4, <1>5 DEF DiskInv, TellsItsVolume
<1>9. QED
  BY <1>6, <1>7, <1>8 DEF DiskInv

LEMMA DiskStep == DiskInv /\ [DiskNext]_diskVars => DiskInv'
<1> SUFFICES ASSUME DiskInv, [DiskNext]_diskVars
             PROVE  DiskInv'
  OBVIOUS
<1>1. CASE List
  BY <1>1 DEF List, DiskInv, DiskTypeOK, Telling, TellsItsVolume
<1>2. CASE Finish
  BY <1>2 DEF Finish, DiskInv, DiskTypeOK, Telling, TellsItsVolume, Excluded
<1>3. ASSUME NEW m \in MountPoints, PassOver(m)
      PROVE  DiskInv'
  <2>1. Excluded(m)
    BY <1>3 DEF PassOver, ShouldReport, Excluded
  <2>2. QED
    BY <1>3, <2>1 DEF PassOver, DiskInv, DiskTypeOK, Telling, TellsItsVolume, Excluded
<1>4. ASSUME NEW m \in MountPoints, UsageFails(m)
      PROVE  DiskInv'
  BY <1>4 DEF UsageFails, DiskInv, DiskTypeOK, Telling, TellsItsVolume, Excluded
<1>5. ASSUME NEW m \in MountPoints, Mount(m)
      PROVE  DiskInv'
  BY <1>5 DEF Mount, DiskInv, DiskTypeOK, Telling, TellsItsVolume, Excluded
<1>6. ASSUME NEW m \in MountPoints, Unmount(m)
      PROVE  DiskInv'
  BY <1>6 DEF Unmount, DiskInv, DiskTypeOK, Telling, TellsItsVolume, Excluded
<1>7. CASE UNCHANGED diskVars
  BY <1>7 DEF diskVars, DiskInv, DiskTypeOK, Telling, TellsItsVolume, Excluded
<1>8. QED
  BY <1>1, <1>2, <1>3, <1>4, <1>5, <1>6, <1>7, UsageStep DEF DiskNext

LEMMA DiskStarts == DiskInit => DiskInv
BY DiskAssumption DEF DiskInit, DiskInv, DiskTypeOK, Telling, TellsItsVolume

LEMMA DiskInvAlways == DiskSpec => []DiskInv
BY DiskStarts, DiskStep, PTL DEF DiskSpec

\* disk.go:34-81: for any mount points and prefixes, whatever is mounted, unmounted or
\* unreadable meanwhile, every volume that stays is told, with its own usage, under a name
\* that plain places do not share.
THEOREM VolumesAreTold == DiskSpec => []VolumesTold
<1>1. DiskInv => VolumesTold
  <2>1. SUFFICES ASSUME DiskInv PROVE VolumesTold
    OBVIOUS
  <2>2. EveryVolumeTold
    BY <2>1 DEF DiskInv, Telling, EveryVolumeTold
  <2>3. PlainNamesDistinct
    <3>1. SUFFICES ASSUME NEW x \in metrics, NEW y \in metrics,
                          x.tag = y.tag, Plain(x.mount), Plain(y.mount)
                   PROVE  x.mount = y.mount \/ {x.mount, y.mount} = {<< >>, Root}
      BY DEF PlainNamesDistinct, Root
    <3>2. /\ x.mount \in MountPoints /\ y.mount \in MountPoints
          /\ Sanitize(x.mount) = Sanitize(y.mount)
      BY <2>1, <3>1 DEF DiskInv, DiskTypeOK, Telling
    <3>3. CASE x.mount # << >>
      BY <3>1, <3>2, <3>3, PlainNamesApart
    <3>4. CASE y.mount # << >>
      BY <3>1, <3>2, <3>4, PlainNamesApart
    <3>5. QED
      BY <3>3, <3>4
  <2>4. QED
    BY <2>1, <2>2, <2>3 DEF DiskInv, VolumesTold
<1>2. QED
  BY <1>1, DiskInvAlways, PTL

----------------------------------------------------------------------------
\* The stateless sensors

\* I has the places that pass a test, and i is the first of them.
IsFirst(s, i, I) ==
  /\ i \in DOMAIN s /\ i \in I /\ I \subseteq DOMAIN s
  /\ \A j \in 1 .. i - 1 : j \in DOMAIN s /\ j \notin I

LEMMA FirstPlace ==
  ASSUME NEW T, NEW s \in Seq(T), NEW I \in SUBSET (1 .. Len(s)), I # {}
  PROVE  IsFirst(s, Min(I), I) /\ Min(I) # 0
<1> DEFINE n == Len(s)
           i == Min(I)
<1>1. n \in Nat /\ DOMAIN s = 1 .. n
  OBVIOUS
<1>2. i \in I /\ (\A j \in I : i <= j) /\ i \in 1 .. n
  <2>1. i \in I /\ \A j \in I : i <= j
    BY <1>1, LeastAndGreatest
  <2>2. QED
    BY <2>1
<1> HIDE DEF n, i
<1>3. \A j \in 1 .. i - 1 : j \in 1 .. n /\ ~(i <= j)
  BY <1>1, <1>2
<1>4. QED
  BY <1>1, <1>2, <1>3 DEF IsFirst, i, n

\* Each source's parts
DevicePlaces(src) == {i \in 1 .. Len(src.scan) : IsDevice(src.scan[i])}
TempPlaces(src)   == {i \in 1 .. Len(src.lines) : HasTemp(src.lines[i])}
CpuPlaces(src)    == {i \in 1 .. Len(src.lines) : CpuTemp(src.lines[i])}
PowerPlaces(src)  == {i \in 1 .. Len(src.lines) : src.lines[i].label \in {"package", "combined"}}
IdPlaces(table, id) == {i \in 1 .. Len(table) : table[i].id = id}


\* disk_smart.go: the first device, and the last line for an attribute
LEMMA FirstDevice ==
  ASSUME NEW src, NEW T, src.scan \in Seq(T), Some(src.scan, IsDevice)
  PROVE  /\ DevicePlaces(src) # {}
         /\ First(src.scan, IsDevice) = src.scan[Min(DevicePlaces(src))]
BY DEF Some, First, SelectInSeq, DevicePlaces, IsDevice

LEMMA LastOfId ==
  ASSUME NEW table, NEW id, IdPlaces(table, id) # {}
  PROVE  ByID(table, id) = table[Max(IdPlaces(table, id))].raw
BY DEF ByID, SelectLastInSeq, IdPlaces

LEMMA FirstTemp ==
  ASSUME NEW src, NEW T, src.lines \in Seq(T)
  PROVE  /\ Some(src.lines, HasTemp) <=> TempPlaces(src) # {}
         /\ TempPlaces(src) # {} => First(src.lines, HasTemp) = src.lines[Min(TempPlaces(src))]
         /\ Some(src.lines, CpuTemp) <=> CpuPlaces(src) # {}
         /\ CpuPlaces(src) # {} => First(src.lines, CpuTemp) = src.lines[Min(CpuPlaces(src))]
<1>1. TempPlaces(src) # {} => Min(TempPlaces(src)) # 0
  BY FirstPlace DEF TempPlaces
<1>2. CpuPlaces(src) # {} => Min(CpuPlaces(src)) # 0
  BY FirstPlace DEF CpuPlaces
<1>3. QED
  BY <1>1, <1>2 DEF Some, First, SelectInSeq, TempPlaces, CpuPlaces, HasTemp, CpuTemp

\* What a call returns is a function of what it was told.
Answer ==
  \/ sensor = "disk_smart" /\ result = Smart(source)
  \/ sensor = "gpu" /\ result = Gpu(source)
  \/ sensor = "linux_temperature" /\ result = LinuxTemp(source)
  \/ sensor = "darwin_temperature" /\ result = DarwinTemp(source)
  \/ sensor = "darwin_energy" /\ result = DarwinPower(source)
  \/ sensor = "cpu" /\ result = Cpu(source)
  \/ sensor = "memory" /\ result = Memory(source)

ReadInv ==
  /\ sensor \in DOMAIN Sources /\ source \in Sources[sensor]
  /\ result = NotYet \/ Answer

LEMMA ReadStarts == ReadInit => ReadInv
BY DEF ReadInit, ReadInv

LEMMA ReadStep == ReadInv /\ [ReadNext]_readVars => ReadInv'
<1> SUFFICES ASSUME ReadInv, [ReadNext]_readVars
             PROVE  ReadInv'
  OBVIOUS
<1>1. CASE ReadNext
  <2>1. sensor' = sensor /\ source' = source /\ Answer'
    BY <1>1 DEF ReadNext, Collect, Answer
  <2>2. QED
    BY <2>1 DEF ReadInv
<1>2. CASE UNCHANGED readVars
  BY <1>2 DEF ReadInv, Answer, readVars
<1>3. QED
  BY <1>1, <1>2

LEMMA ReadInvAlways == ReadSpec => []ReadInv
BY ReadStarts, ReadStep, PTL DEF ReadSpec

\* disk_smart.go:40-121
LEMMA SmartTells == ReadInv => SmartTold
<1> SUFFICES ASSUME ReadInv, Told("disk_smart")
             PROVE  SmartTold
  BY DEF SmartTold
<1> DEFINE scan == source.scan
           i == Min(DevicePlaces(source))
           disk == source.disks[scan[i]]
           table == disk.table
           last(id) == {k \in DOMAIN table :
                          table[k].id = id /\ \A l \in DOMAIN table : table[l].id = id => l <= k}
<1>1. /\ scan \in Seq(DOMAIN source.disks \cup {"none"})
      /\ \A d \in DOMAIN source.disks : IsDisk(source.disks[d])
  BY SourcesAssumption DEF ReadInv, Told
<1>2. result = Smart(source) /\ result.outcome = "metrics"
  BY DEF ReadInv, Answer, Told, NotYet
<1>3. /\ Some(scan, IsDevice) /\ source.disks[First(scan, IsDevice)].ran
      /\ result.metrics = ParseSmartctlJSON(source.disks[First(scan, IsDevice)])
  BY <1>2 DEF Smart, Metrics, NoData
<1>4. DevicePlaces(source) # {} /\ First(scan, IsDevice) = scan[i]
  BY <1>1, <1>3, FirstDevice
<1>5. IsFirst(scan, i, DevicePlaces(source))
  BY <1>1, <1>4, FirstPlace DEF DevicePlaces
<1>6. /\ i \in DOMAIN scan /\ scan[i] # "none"
      /\ \A j \in 1 .. i - 1 : scan[j] = "none"
  BY <1>1, <1>5 DEF IsFirst, DevicePlaces, IsDevice
<1>7. scan[i] \in DOMAIN source.disks
  BY <1>1, <1>6
<1>8. IsDisk(disk) /\ disk.ran /\ result.metrics = ParseSmartctlJSON(disk)
  BY <1>1, <1>3, <1>4, <1>7
<1> HIDE DEF scan, i, disk
<1>9. table \in Seq([id : Nat, raw : Int])
  BY <1>8 DEF IsDisk
<1> HIDE DEF table
<1>p. \A id : \A k : k \in IdPlaces(table, id) <=> k \in DOMAIN table /\ table[k].id = id
  BY <1>9 DEF IdPlaces
<1>q. Len(table) \in Nat /\ \A id : IdPlaces(table, id) \in SUBSET (1 .. Len(table))
  BY <1>9 DEF IdPlaces
<1>l. \A id, k : k \in last(id) <=>
        k \in IdPlaces(table, id) /\ \A l \in IdPlaces(table, id) : l <= k
  BY <1>p
<1> HIDE DEF last
<1>m. ASSUME NEW id, IdPlaces(table, id) # {}
      PROVE  /\ Max(IdPlaces(table, id)) \in last(id)
             /\ \A k \in last(id) : k = Max(IdPlaces(table, id))
  <2>1. /\ Max(IdPlaces(table, id)) \in IdPlaces(table, id)
        /\ \A j \in IdPlaces(table, id) : j <= Max(IdPlaces(table, id))
    BY <1>q, <1>m, LeastAndGreatest
  <2>2. \A k \in IdPlaces(table, id) : k \in Nat
    BY <1>q
  <2>3. QED
    BY <1>l, <2>1, <2>2
<1>10. result.metrics["health_passed"] = IF disk.status = "passed" THEN 1 ELSE 0
  BY <1>8 DEF ParseSmartctlJSON
<1>11. ASSUME NEW id, NEW k \in last(id)
       PROVE  ByID(table, id) = table[k].raw
  <2>1. IdPlaces(table, id) # {}
    BY <1>l
  <2>2. k = Max(IdPlaces(table, id))
    BY <1>m, <2>1
  <2>3. QED
    BY <2>1, <2>2, LastOfId
<1>12. ASSUME NEW k \in IF last(194) # {} THEN last(194) ELSE last(190)
       PROVE  result.metrics["temperature_celsius"] = table[k].raw
  <2> DEFINE ids == {table[n].id : n \in DOMAIN table}
             warmth == IF 194 \in ids THEN 194 ELSE 190
  <2>1. \A id : id \in ids => last(id) # {}
    <3>1. \A id : id \in ids => IdPlaces(table, id) # {}
      BY <1>p
    <3> HIDE DEF ids
    <3>2. QED
      BY <1>m, <3>1
  <2>2. \A id : last(id) # {} => id \in ids
    BY <1>l, <1>p
  <2>3. k \in last(warmth) /\ warmth \in ids
    BY <2>1, <2>2
  <2>4. result.metrics["temperature_celsius"] = ByID(table, warmth)
    BY <1>8, <2>3 DEF ParseSmartctlJSON, table
  <2>5. QED
    BY <1>11, <2>3, <2>4
<1>13. QED
  BY <1>6, <1>10, <1>12 DEF SmartTold, FirstDevices, scan, disk, table, last

\* disk_smart.go:51-54 and 73-76
LEMMA FailedDiskTells == ReadInv => FailedDiskTold
<1> SUFFICES ASSUME ReadInv, sensor = "disk_smart", result # NotYet, source.ran,
                    NEW i \in FirstDevices,
                    source.disks[source.scan[i]].ran,
                    source.disks[source.scan[i]].status = "failed"
             PROVE  result.outcome = "metrics" /\ result.metrics["health_passed"] = 0
  BY DEF FailedDiskTold
<1> DEFINE scan == source.scan
           disk == source.disks[scan[i]]
<1>1. scan \in Seq(DOMAIN source.disks \cup {"none"})
  BY SourcesAssumption DEF ReadInv
<1>2. /\ i \in DevicePlaces(source)
      /\ \A j \in DevicePlaces(source) : i <= j
  BY <1>1 DEF FirstDevices, DevicePlaces, IsDevice
<1>3. IsFirst(scan, Min(DevicePlaces(source)), DevicePlaces(source))
  BY <1>1, <1>2, FirstPlace DEF DevicePlaces
<1>4. Min(DevicePlaces(source)) = i
  <2> DEFINE m == Min(DevicePlaces(source))
  <2>1. m \in DevicePlaces(source) /\ \A j \in 1 .. m - 1 : j \notin DevicePlaces(source)
    BY <1>3 DEF IsFirst
  <2>2. m \in Nat /\ i \in Nat /\ i >= 1
    BY <1>1, <1>2, <2>1 DEF DevicePlaces
  <2> HIDE DEF m
  <2>3. i <= m /\ i \notin 1 .. m - 1
    BY <1>2, <2>1
  <2>4. QED
    BY <2>2, <2>3 DEF m
<1>5. Some(scan, IsDevice) /\ First(scan, IsDevice) = scan[i]
  <2>1. i # 0
    BY <1>1, <1>2 DEF DevicePlaces
  <2>2. QED
    BY <1>2, <1>4, <2>1 DEF Some, First, SelectInSeq, DevicePlaces, IsDevice
<1>6. result = Metrics(ParseSmartctlJSON(disk))
  BY <1>5 DEF ReadInv, Answer, Smart
<1>7. ParseSmartctlJSON(disk)["health_passed"] = 0
  BY DEF ParseSmartctlJSON
<1>8. QED
  BY <1>6, <1>7 DEF Metrics

\* temperature_linux.go:14-58
LEMMA TemperatureTells == ReadInv => TemperatureTold
<1> SUFFICES ASSUME ReadInv, Told("linux_temperature")
             PROVE  TemperatureTold
  BY DEF TemperatureTold
<1> DEFINE lines == source.lines
           places == IF CpuPlaces(source) # {} THEN CpuPlaces(source) ELSE TempPlaces(source)
           i == Min(places)
           line == lines[i]
<1>1. /\ lines \in Seq(ToSet(lines)) /\ \A j \in DOMAIN lines : IsLine(lines[j])
  BY SourcesAssumption DEF ReadInv, Told, ToSet
<1>2. result = LinuxTemp(source) /\ result.outcome = "metrics"
  BY DEF ReadInv, Answer, Told, NotYet
<1>3. Some(lines, HasTemp)
  BY <1>2 DEF LinuxTemp, NoData
<1>4. result.metrics = <<TempOf(IF Some(lines, CpuTemp) THEN First(lines, CpuTemp)
                                ELSE First(lines, HasTemp))>>
  BY <1>2, <1>3 DEF LinuxTemp, Metrics, NoData
<1>5. places # {} /\ places \in SUBSET (1 .. Len(lines)) /\ result.metrics = <<TempOf(line)>>
  BY <1>1, <1>3, <1>4, FirstTemp DEF CpuPlaces, TempPlaces
<1>6. IsFirst(lines, i, places)
  <2> HIDE DEF places, lines
  <2>1. QED
    BY <1>1, <1>5, FirstPlace
<1>7. /\ \A j : j \in TempPlaces(source) <=> j \in DOMAIN lines /\ HasTemp(lines[j])
      /\ \A j : j \in CpuPlaces(source) <=> j \in DOMAIN lines /\ CpuTemp(lines[j])
  BY <1>1 DEF CpuPlaces, TempPlaces
<1> HIDE DEF i, line, lines
<1>8. /\ i \in DOMAIN lines /\ HasTemp(lines[i])
      /\ lines[i].cpu \/ ~\E j \in DOMAIN lines : CpuTemp(lines[j])
  BY <1>6, <1>7 DEF IsFirst, CpuTemp
<1>9. ASSUME NEW j \in 1 .. i - 1, HasTemp(lines[j])
      PROVE  lines[i].cpu /\ ~lines[j].cpu
  <2>1. j \in DOMAIN lines /\ j \notin places
    BY <1>6 DEF IsFirst
  <2>2. CpuPlaces(source) # {} /\ j \notin CpuPlaces(source) /\ i \in CpuPlaces(source)
    BY <1>6, <1>7, <1>9, <2>1 DEF IsFirst
  <2>3. QED
    BY <1>7, <1>9, <2>1, <2>2 DEF CpuTemp
<1>10. ASSUME NEW t \in ToSet(lines[i].temps), t.reading
       PROVE  t.celsius >= 0 => result.metrics[1] = t.celsius
  <2>1. IsLine(lines[i])
    BY <1>1, <1>8
  <2>2. PICK k \in DOMAIN lines[i].temps : t = lines[i].temps[k]
    BY DEF ToSet
  <2>3. k = 1 /\ t.celsius \in Int
    <3>1. t \in [reading : BOOLEAN, celsius : Int]
      <4> DEFINE T == [reading : BOOLEAN, celsius : Int]
      <4>1. lines[i].temps \in Seq(T)
        BY <2>1 DEF IsLine
      <4> HIDE DEF T
      <4>2. QED
        BY <2>2, <4>1, MemberOfSeq DEF T
    <3>2. k = 1
      BY <1>10, <2>1, <2>2 DEF IsLine
    <3>3. QED
      BY <3>1, <3>2
  <2>4. result.metrics[1] = TempOf(lines[i])
    <3>1. result.metrics[1] = TempOf(line)
      BY <1>5
    <3>2. QED
      BY <3>1 DEF line
  <2>5. QED
    BY <2>2, <2>3, <2>4 DEF TempOf
<1>11. QED
  BY <1>8, <1>9, <1>10 DEF TemperatureTold, lines

\* energy_darwin.go:14-75
LEMMA FirstLabel ==
  ASSUME NEW src, NEW T, src.lines \in Seq(T), DarwinPower(src).outcome = "metrics"
  PROVE  LET line  == src.lines[Min(PowerPlaces(src))]
             power == WattsFromLine(line, IF line.label = "package" THEN "W" ELSE "mW")
         IN  /\ PowerPlaces(src) # {} /\ power # Unread
             /\ DarwinPower(src).metrics = <<power>>
<1>1. PowerPlaces(src) # {}
  BY DEF DarwinPower, Some, SelectInSeq, PowerPlaces, NoData
<1>2. DarwinPower(src) =
        LET line  == src.lines[Min(PowerPlaces(src))]
            power == WattsFromLine(line, IF line.label = "package" THEN "W" ELSE "mW")
        IN  IF ~src.ran \/ ~(Min(PowerPlaces(src)) # 0) THEN NoData
            ELSE IF power = Unread THEN NoData ELSE Metrics(<<power>>)
  BY <1>1 DEF DarwinPower, Some, First, SelectInSeq, PowerPlaces
<1>3. QED
  BY <1>1, <1>2 DEF NoData, Metrics

LEMMA PowerTells == ReadInv => PowerInWatts
<1> SUFFICES ASSUME ReadInv, Told("darwin_energy")
             PROVE  PowerInWatts
  BY DEF PowerInWatts
<1> DEFINE lines == source.lines
           i == Min(PowerPlaces(source))
           line == lines[i]
           unit == IF line.label = "package" THEN "W" ELSE "mW"
<1>1. lines \in Seq([label : {"package", "combined", "other"}, unit : {"W", "mW"},
                     number : Nat \cup {Unread}])
  BY SourcesAssumption DEF ReadInv, Told
<1>2. result = DarwinPower(source) /\ result.outcome = "metrics"
  BY DEF ReadInv, Answer, Told, NotYet
<1>3. /\ PowerPlaces(source) # {} /\ WattsFromLine(line, unit) # Unread
      /\ result.metrics = <<WattsFromLine(line, unit)>>
  BY <1>1, <1>2, FirstLabel
<1>4. IsFirst(lines, i, PowerPlaces(source))
  BY <1>1, <1>3, FirstPlace DEF PowerPlaces
<1>5. /\ i \in DOMAIN lines /\ line.label \in {"package", "combined"}
      /\ \A j \in 1 .. i - 1 : j \in DOMAIN lines /\ lines[j].label \notin {"package", "combined"}
  BY <1>1, <1>4 DEF IsFirst, PowerPlaces
<1> HIDE DEF i, lines
<1>6. /\ line.label # "other" /\ \A j \in 1 .. i - 1 : lines[j].label = "other"
  <2>1. \A j \in DOMAIN lines : lines[j].label \in {"package", "combined", "other"}
    <3>1. \A j \in DOMAIN lines :
            lines[j] \in [label : {"package", "combined", "other"}, unit : {"W", "mW"},
                          number : Nat \cup {Unread}]
      BY <1>1, MemberOfSeq
    <3>2. QED
      BY <3>1
  <2>2. QED
    BY <1>5, <2>1
<1>7. line.number # Unread /\ line.unit = unit
  BY <1>3 DEF WattsFromLine
<1>8. result.metrics[1] = IF line.unit = "W" THEN 1000 * line.number ELSE line.number
  BY <1>3, <1>7 DEF WattsFromLine
<1>9. QED
  BY <1>5, <1>6, <1>7, <1>8 DEF PowerInWatts, lines

LEMMA FailsTells == ReadInv => FailsForUsageOnly
<1> SUFFICES ASSUME ReadInv, result.outcome = "error"
             PROVE  sensor \in {"cpu", "memory"} /\ (~source.ran \/ (sensor = "cpu" /\ source.cores = << >>))
  BY DEF FailsForUsageOnly
<1>1. /\ Smart(source).outcome # "error" /\ Gpu(source).outcome # "error"
      /\ LinuxTemp(source).outcome # "error"
  BY DEF Smart, Gpu, LinuxTemp, Metrics, NoData
<1>2. DarwinTemp(source).outcome # "error" /\ DarwinPower(source).outcome # "error"
  BY DEF DarwinTemp, DarwinPower, Metrics, NoData
<1>3. /\ Cpu(source).outcome = "error" => ~source.ran \/ source.cores = << >>
      /\ Memory(source).outcome = "error" => ~source.ran
  BY DEF Cpu, Memory, Metrics, Failure
<1>4. Answer
  BY DEF ReadInv, NotYet
<1>5. QED
  BY <1>1, <1>2, <1>3, <1>4 DEF Answer

\* gpu.go:59-81, temperature_linux.go:25-41, temperature_darwin.go:29-43
LEMMA NumbersAreRead ==
  ASSUME ReadInv, result.outcome = "metrics",
         sensor \in {"gpu", "linux_temperature", "darwin_temperature", "darwin_energy"}
  PROVE  Unread \notin ToSet(result.metrics)
<1>1. source \in Sources[sensor] /\ Answer
  BY DEF ReadInv, NotYet
<1>2. CASE sensor = "gpu"
  <2>1. result = Gpu(source) /\ source.rows \in Seq(Seq(Int)) \ {<< >>}
    BY <1>1, <1>2, SourcesAssumption DEF Answer
  <2> DEFINE row == source.rows[1]
  <2>2. row \in Seq(Int)
    <3>1. 1 \in DOMAIN source.rows
      BY <2>1
    <3>2. QED
      BY <2>1, <3>1, MemberOfSeq
  <2>3. /\ Len(row) >= 5 /\ \A i \in 1 .. 5 : row[i] # Unread
        /\ result.metrics = SubSeq(row, 1, 5)
    BY <2>1 DEF Gpu, Metrics, NoData
  <2> HIDE DEF row
  <2>4. DOMAIN SubSeq(row, 1, 5) = 1 .. 5 /\ \A i \in 1 .. 5 : SubSeq(row, 1, 5)[i] = row[i]
    BY <2>2, <2>3
  <2>5. QED
    BY <2>3, <2>4 DEF ToSet
<1>3. CASE sensor = "linux_temperature"
  <2> DEFINE lines == source.lines
             place == IF CpuPlaces(source) # {} THEN Min(CpuPlaces(source))
                      ELSE Min(TempPlaces(source))
  <2>1. /\ lines \in Seq(ToSet(lines)) /\ \A j \in DOMAIN lines : IsLine(lines[j])
        /\ result = LinuxTemp(source)
    BY <1>1, <1>3, SourcesAssumption DEF Answer, ToSet
  <2>2. Some(lines, HasTemp)
    BY <2>1 DEF LinuxTemp, NoData
  <2>3. result.metrics = <<TempOf(IF Some(lines, CpuTemp) THEN First(lines, CpuTemp)
                                  ELSE First(lines, HasTemp))>>
    BY <2>1, <2>2 DEF LinuxTemp, Metrics, NoData
  <2>4. result.metrics = <<TempOf(lines[place])>>
    BY <2>1, <2>2, <2>3, FirstTemp
  <2>5. place \in DOMAIN lines /\ HasTemp(lines[place])
    <3>1. CASE CpuPlaces(source) # {}
      <4>1. IsFirst(lines, Min(CpuPlaces(source)), CpuPlaces(source))
        BY <2>1, <3>1, FirstPlace DEF CpuPlaces
      <4>2. QED
        BY <3>1, <4>1 DEF IsFirst, CpuPlaces, CpuTemp
    <3>2. CASE CpuPlaces(source) = {}
      <4>1. TempPlaces(source) # {}
        BY <2>1, <2>2, FirstTemp
      <4>2. IsFirst(lines, Min(TempPlaces(source)), TempPlaces(source))
        BY <2>1, <4>1, FirstPlace DEF TempPlaces
      <4>3. QED
        BY <3>2, <4>2 DEF IsFirst, TempPlaces
    <3>3. QED
      BY <3>1, <3>2
  <2> HIDE DEF lines, place
  <2>6. TempOf(lines[place]) >= 0
    <3> DEFINE T == [reading : BOOLEAN, celsius : Int]
               temps == lines[place].temps
    <3>1. temps \in Seq(T) /\ temps # << >>
      BY <2>1, <2>5 DEF IsLine, HasTemp
    <3>2. temps[1] \in T
      <4>1. 1 \in DOMAIN temps
        <5> HIDE DEF temps, T
        <5>1. QED
          BY <3>1
      <4> HIDE DEF temps, T
      <4>2. QED
        BY <3>1, <4>1, MemberOfSeq
    <3>3. temps[1].celsius \in Int
      BY <3>2
    <3>4. QED
      BY <3>3 DEF TempOf
  <2>7. QED
    <3> DEFINE temp == TempOf(lines[place])
    <3>1. result.metrics = <<temp>> /\ temp # Unread
      BY <2>4, <2>6 DEF Unread
    <3> HIDE DEF temp
    <3>2. QED
      BY <3>1 DEF ToSet
<1>4. CASE sensor = "darwin_temperature"
  <2> DEFINE places == {j \in 1 .. Len(source.lines) :
                          source.lines[j].cpu /\ source.lines[j].celsius # Unread}
             temp == source.lines[Min(places)].celsius
  <2>1. /\ source.lines \in Seq([cpu : BOOLEAN, celsius : Int])
        /\ result = DarwinTemp(source)
    BY <1>1, <1>4, SourcesAssumption DEF Answer
  <2>2. places # {} /\ result.metrics = <<temp>>
    BY <2>1 DEF DarwinTemp, Some, First, SelectInSeq, NoData, Metrics
  <2>3. Min(places) \in places
    <3>1. IsFirst(source.lines, Min(places), places)
      BY <2>1, <2>2, FirstPlace
    <3>2. QED
      BY <3>1 DEF IsFirst
  <2>4. temp # Unread
    BY <2>3
  <2> HIDE DEF temp
  <2>5. QED
    BY <2>2, <2>4 DEF ToSet
<1>5. CASE sensor = "darwin_energy"
  <2> DEFINE line == source.lines[Min(PowerPlaces(source))]
             power == WattsFromLine(line, IF line.label = "package" THEN "W" ELSE "mW")
  <2>1. result = DarwinPower(source) /\ \E T : source.lines \in Seq(T)
    BY <1>1, <1>5, SourcesAssumption DEF Answer
  <2>2. power # Unread /\ result.metrics = <<power>>
    BY <2>1, FirstLabel
  <2> HIDE DEF power
  <2>3. QED
    BY <2>2 DEF ToSet
<1>6. QED
  BY <1>2, <1>3, <1>4, <1>5

\* A result of each of the sensors is of one of the four kinds.
LEMMA ResultsAreTyped == ReadInv => ReadTypeOK
<1>1. SUFFICES ASSUME ReadInv PROVE ReadTypeOK
  OBVIOUS
<1>2. /\ result.outcome \in {"none", "metrics", "nodata", "error"}
      /\ result.outcome # "metrics" => result.metrics = << >>
  <2> DEFINE Kind(r) == /\ r.outcome \in {"none", "metrics", "nodata", "error"}
                        /\ r.outcome # "metrics" => r.metrics = << >>
  <2>1. Kind(NotYet) /\ Kind(NoData) /\ Kind(Failure) /\ \A m : Kind(Metrics(m))
    BY DEF NotYet, NoData, Failure, Metrics
  <2> HIDE DEF Kind
  <2>2. Kind(Smart(source)) /\ Kind(Gpu(source)) /\ Kind(LinuxTemp(source))
    BY <2>1 DEF Smart, Gpu, LinuxTemp
  <2>3. Kind(DarwinTemp(source)) /\ Kind(DarwinPower(source))
    BY <2>1 DEF DarwinTemp, DarwinPower
  <2>4. Kind(Cpu(source)) /\ Kind(Memory(source))
    BY <2>1 DEF Cpu, Memory
  <2>5. Kind(result)
    BY <1>1, <2>1, <2>2, <2>3, <2>4 DEF ReadInv, Answer
  <2>6. QED
    BY <2>5 DEF Kind
<1>3. result.outcome # "metrics" => Unread \notin ToSet(result.metrics)
  <2>1. Unread \notin ToSet(<< >>)
    BY DEF ToSet
  <2>2. QED
    BY <1>2, <2>1
<1>4. QED
  BY <1>1, <1>2, <1>3, NumbersAreRead DEF ReadTypeOK

\* gpu.go:59-81 and the other ParseFloat calls, for anything that the sensors may be
\* told: a result is of one of the four kinds, and no text becomes a number.
THEOREM ReadingsTypeCorrect == ReadSpec => []ReadTypeOK
BY ResultsAreTyped, ReadInvAlways, PTL

\* disk_smart.go, temperature_linux.go, energy_darwin.go, cpu.go and memory.go, for
\* anything that they may be told: what is told is told of the thing that its name
\* says, in its unit, a disk that failed its check is told as such if smartctl ran for
\* it, and only the usage of the CPU or of the memory can fail.
THEOREM ReadingsAreTold == ReadSpec => []ReadingsTold
<1>1. ReadInv => ReadingsTold
  BY SmartTells, FailedDiskTells, TemperatureTells, PowerTells, FailsTells DEF ReadingsTold
<1>2. QED
  BY <1>1, ReadInvAlways, PTL

----------------------------------------------------------------------------
(***************************************************************************)
(* The parts side by side, one of them in use: the others keep their       *)
(* values, and those are values they can have.                             *)
(***************************************************************************)

PartsInv == BackoffInv /\ DiskInv /\ BatteryInv /\ ReadInv /\ ServerInv

LEMMA IdleParts ==
  /\ BackoffIdle => BackoffInv
  /\ BatteryIdle => BatteryInv
  /\ ReadIdle => ReadInv
<1>1. ASSUME BackoffIdle PROVE BackoffInv
  <2>1. Sane(b) /\ b.min = 1 /\ b.max >= 1
    BY <1>1, NewIsSane, IdleAssumption DEF BackoffIdle, NewBackoff
  <2>2. QED
    BY <1>1, <2>1, LimitsAssumption, MaxDurationAssumption
    DEF BackoffIdle, BackoffInv, TypeOK, Sane, InRange
<1>2. ASSUME BatteryIdle PROVE BatteryInv
  <2>1. BatteryInit
    BY <1>2, IdleAssumption DEF BatteryIdle, BatteryInit, Batteries, States
  <2>2. QED
    BY <2>1, BatteryStarts
<1>3. ASSUME ReadIdle PROVE ReadInv
  BY <1>3, IdleAssumption, SourcesAssumption DEF ReadIdle, ReadInv
<1>4. QED
  BY <1>1, <1>2, <1>3

LEMMA PartsStart == MCInit => PartsInv
BY IdleParts, BackoffStarts, BatteryStarts, ReadStarts, DiskStarts, ServerStarts
DEF MCInit, PartsInv

\* A part that is not in use keeps its values, and so what holds of them.
LEMMA PartsStep ==
  PartsInv /\ [MCNext]_<<vars, diskVars, batteryVars, readVars, serverVars, part>> => PartsInv'
<1> SUFFICES ASSUME PartsInv,
                    [MCNext]_<<vars, diskVars, batteryVars, readVars, serverVars, part>>
             PROVE  PartsInv'
  OBVIOUS
<1>1. /\ [Next \/ Reset]_vars /\ [DiskNext]_diskVars /\ [BatteryNext]_batteryVars
      /\ [ReadNext]_readVars /\ [ServerNext]_serverVars
  BY DEF MCNext
<1>2. QED
  BY <1>1, BackoffStep, DiskStep, BatteryStep, ReadStep, ServerStep DEF PartsInv

\* backoff.go, disk.go, battery.go, the sensors, and SendRaw with its server: whichever of
\* them is in use, and with any values of their parameters, all of them keep their types;
\* the runs' bounds are guards, which only leave out steps.
THEOREM PartsTypesCorrect == MCSpec => []PartsTypeOK
<1>1. PartsInv => PartsTypeOK
  BY ResultsAreTyped
  DEF PartsInv, BackoffInv, DiskInv, BatteryInv, ServerInv, PartsTypeOK
<1>2. QED
  BY <1>1, PartsStart, PartsStep, PTL DEF MCSpec
=============================================================================
