----------------------------- MODULE TurnProofs -----------------------------
(***************************************************************************)
(* Proofs about the TURN collector: for any reply of coturn's, however it  *)
(* is cut into what arrives when, and any timeouts.                        *)
(***************************************************************************)
EXTENDS TurnProps, SequenceTheorems, Induction

----------------------------------------------------------------------------
\* The lines of a text

Ends(text, s, e) ==
  /\ e \in s - 1 .. Len(text)
  /\ e = Len(text) \/ text[e + 1] = "newline"
  /\ \A i \in s .. e : text[i] # "newline"

LEMMA StartsAreNumbers ==
  ASSUME NEW text \in Seq(Tokens), NEW s \in LineStarts(text)
  PROVE  s \in 1 .. Len(text) + 1 /\ Len(text) \in Nat
BY DEF LineStarts

\* There is one end to each line.
LEMMA LineEndIs ==
  ASSUME NEW text \in Seq(Tokens), NEW s \in LineStarts(text), NEW e, Ends(text, s, e)
  PROVE  LineEnd(text, s) = e
<1>1. s \in 1 .. Len(text) + 1 /\ Len(text) \in Nat
  BY StartsAreNumbers
<1>2. ASSUME NEW a \in s - 1 .. Len(text), NEW b \in s - 1 .. Len(text), a < b,
             Ends(text, s, a), Ends(text, s, b)
      PROVE  FALSE
  <2>1. a + 1 \in s .. b /\ a # Len(text)
    BY <1>1, <1>2
  <2>2. QED
    BY <1>2, <2>1 DEF Ends
<1>3. \E d \in s - 1 .. Len(text) :
        /\ d = Len(text) \/ text[d + 1] = "newline"
        /\ \A i \in s .. d : text[i] # "newline"
  BY DEF Ends
<1>4. Ends(text, s, LineEnd(text, s))
  BY <1>3 DEF Ends, LineEnd
<1>5. LineEnd(text, s) \in s - 1 .. Len(text) /\ e \in s - 1 .. Len(text)
  BY <1>4 DEF Ends
<1>6. ~(LineEnd(text, s) < e) /\ ~(e < LineEnd(text, s))
  BY <1>2, <1>4, <1>5
<1>7. LineEnd(text, s) \in Int /\ e \in Int
  BY <1>1, <1>5
<1>8. QED
  BY <1>6, <1>7

LEMMA LineEndEnds ==
  ASSUME NEW text \in Seq(Tokens), NEW s \in LineStarts(text)
  PROVE  Ends(text, s, LineEnd(text, s))
<1> DEFINE T == {e \in Nat : e \in s - 1 .. Len(text) /\ (e = Len(text) \/ text[e + 1] = "newline")}
<1>1. s \in 1 .. Len(text) + 1 /\ Len(text) \in Nat
  BY StartsAreNumbers
<1>2. T \in SUBSET Nat /\ Len(text) \in T
  BY <1>1
<1>3. PICK e \in T : \A m \in T : e <= m
  <2> HIDE DEF T
  <2>1. T # {}
    BY <1>2
  <2>2. QED
    BY <1>2, <2>1, LeastNumber
<1>4. ASSUME NEW i \in s .. e, text[i] = "newline"
      PROVE  FALSE
  <2>1. i - 1 \in s - 1 .. Len(text) /\ i - 1 \in Nat /\ text[(i - 1) + 1] = "newline" /\ i - 1 < e
    BY <1>1, <1>4
  <2>2. i - 1 \in T
    BY <2>1
  <2>3. e <= i - 1
    BY <1>3, <2>2
  <2>4. e \in Nat
    OBVIOUS
  <2>5. QED
    BY <2>1, <2>3, <2>4
<1>5. Ends(text, s, e)
  BY <1>4 DEF Ends
<1>6. QED
  BY <1>5, LineEndIs

LEMMA LineWithIs ==
  ASSUME NEW text \in Seq(Tokens), NEW word, NEW l
  PROVE  l \in LinesWith(text, word) <=>
           \E s \in LineStarts(text) :
             /\ l = [start |-> s, words |-> SubSeq(text, s, LineEnd(text, s))]
             /\ word \in ToSet(l.words) /\ FirstNumber(l.words) # {}
BY DEF LinesWith, Lines

LEMMA LineIsTyped ==
  ASSUME NEW text \in Seq(Tokens), NEW word, NEW l \in LinesWith(text, word)
  PROVE  /\ l.start \in Nat /\ l.words \in Seq(Tokens) /\ FirstNumber(l.words) # {}
         /\ \A k \in LinesWith(text, word) : k.start = l.start => k = l
<1>1. PICK s \in LineStarts(text) :
        /\ l = [start |-> s, words |-> SubSeq(text, s, LineEnd(text, s))]
        /\ FirstNumber(l.words) # {}
  BY LineWithIs
<1>2. s \in 1 .. Len(text) + 1 /\ Len(text) \in Nat /\ LineEnd(text, s) \in s - 1 .. Len(text)
  BY StartsAreNumbers, LineEndEnds DEF Ends
<1>3. SubSeq(text, s, LineEnd(text, s)) \in Seq(Tokens)
  <2>1. \A i \in s .. LineEnd(text, s) : text[i] \in Tokens
    BY <1>2
  <2>2. QED
    BY <1>2, <2>1, SubSeqProperties
<1>4. ASSUME NEW k \in LinesWith(text, word), k.start = l.start
      PROVE  k = l
  BY <1>1, <1>4, LineWithIs
<1>5. QED
  BY <1>1, <1>2, <1>3, <1>4

\* The first of them
LEMMA FirstLine ==
  ASSUME NEW text \in Seq(Tokens), NEW word, LinesWith(text, word) # {}
  PROVE  \E l \in LinesWith(text, word) :
           /\ \A k \in LinesWith(text, word) : l.start <= k.start
           /\ NumberWith(text, word) = CHOOSE number \in FirstNumber(l.words) : TRUE
           /\ NumberWith(text, word) \in FirstNumber(l.words)
<1> DEFINE T == {l.start : l \in LinesWith(text, word)}
<1>1. T \in SUBSET Nat /\ T # {}
  BY LineIsTyped
<1>2. PICK n \in T : \A m \in T : n <= m
  <2> HIDE DEF T
  <2>1. QED
    BY <1>1, LeastNumber
<1>3. \E l \in LinesWith(text, word) : \A k \in LinesWith(text, word) : l.start <= k.start
  BY <1>2
<1> DEFINE first == CHOOSE l \in LinesWith(text, word) :
                      \A k \in LinesWith(text, word) : l.start <= k.start
<1>4. first \in LinesWith(text, word) /\ \A k \in LinesWith(text, word) : first.start <= k.start
  BY <1>3
<1>5. NumberWith(text, word) = CHOOSE number \in FirstNumber(first.words) : TRUE
  BY DEF NumberWith
<1> HIDE DEF first
<1>6. FirstNumber(first.words) # {}
  BY <1>4, LineIsTyped
<1>7. QED
  BY <1>4, <1>5, <1>6

----------------------------------------------------------------------------
\* Types

LEMMA NumberIsTyped ==
  ASSUME NEW text \in Seq(Tokens), NEW word
  PROVE  /\ NumberWith(text, word) \in Seq(Tokens)
         /\ NumberWith(text, word) = NoNumber <=> LinesWith(text, word) = {}
<1>1. CASE LinesWith(text, word) = {}
  BY <1>1 DEF NumberWith, NoNumber
<1>2. CASE LinesWith(text, word) # {}
  <2>1. PICK l \in LinesWith(text, word) : NumberWith(text, word) \in FirstNumber(l.words)
    BY <1>2, FirstLine
  <2>2. l.words \in Seq(Tokens) /\ Len(l.words) \in Nat
    BY LineIsTyped
  <2>3. PICK a \in DOMAIN l.words, b \in DOMAIN l.words :
          a <= b /\ NumberWith(text, word) = SubSeq(l.words, a, b)
    BY <2>1 DEF FirstNumber
  <2>4. a \in 1 .. Len(l.words) /\ b \in 1 .. Len(l.words)
    BY <2>2
  <2>5. SubSeq(l.words, a, b) \in Seq(Tokens) /\ Len(SubSeq(l.words, a, b)) = b - a + 1
    <3>1. \A i \in a .. b : l.words[i] \in Tokens
      BY <2>2, <2>4
    <3>2. QED
      BY <2>2, <2>3, <2>4, <3>1, SubSeqProperties
  <2>6. Len(NumberWith(text, word)) # 0
    BY <2>2, <2>3, <2>4, <2>5
  <2>7. QED
    BY <1>2, <2>3, <2>5, <2>6 DEF NoNumber
<1>3. QED
  BY <1>1, <1>2

LEMMA ParseIsTyped ==
  ASSUME NEW text \in Seq(Tokens)
  PROVE  /\ Parse(text) \in [sessions : Seq(Tokens), bytes : Seq(Tokens)]
         /\ Parse(text) = NoStats \/ NoNumber \notin {Parse(text).sessions, Parse(text).bytes}
         /\ Parse(text) # NoStats =>
              /\ Parse(text).sessions = NumberWith(text, "session")
              /\ Parse(text).bytes = NumberWith(text, "byte")
              /\ NumberWith(text, "session") # NoNumber /\ NumberWith(text, "byte") # NoNumber
<1>1. NumberWith(text, "session") \in Seq(Tokens) /\ NumberWith(text, "byte") \in Seq(Tokens)
  BY NumberIsTyped
<1>2. NoNumber \in Seq(Tokens)
  BY DEF NoNumber
<1>3. QED
  BY <1>1, <1>2 DEF Parse, NoStats

----------------------------------------------------------------------------
\* What the whole lines at the beginning of a text say, the text says.

Begins(p, q) == Len(p) <= Len(q) /\ \A i \in 1 .. Len(p) : p[i] = q[i]
WholeLines(p) == p = << >> \/ p[Len(p)] = "newline"

LEMMA SameLine ==
  ASSUME NEW p \in Seq(Tokens), NEW q \in Seq(Tokens), Begins(p, q), WholeLines(p),
         NEW s \in 1 .. Len(p)
  PROVE  /\ s \in LineStarts(p) <=> s \in LineStarts(q)
         /\ s \in LineStarts(p) =>
              SubSeq(p, s, LineEnd(p, s)) = SubSeq(q, s, LineEnd(q, s))
<1>1. /\ Len(p) \in Nat /\ Len(q) \in Nat /\ Len(p) <= Len(q) /\ p[Len(p)] = "newline"
      /\ \A i \in 1 .. Len(p) : p[i] = q[i]
  BY DEF Begins, WholeLines
<1>2. s \in LineStarts(p) <=> s \in LineStarts(q)
  <2>1. s \in LineStarts(p) <=> s = 1 \/ (s - 1 \in 1 .. Len(p) /\ p[s - 1] = "newline")
    BY DEF LineStarts
  <2>2. s \in LineStarts(q) <=> s = 1 \/ (s - 1 \in 1 .. Len(q) /\ q[s - 1] = "newline")
    BY DEF LineStarts
  <2>3. s = 1 \/ s - 1 \in 1 .. Len(p)
    BY <1>1
  <2>4. QED
    BY <1>1, <2>1, <2>2, <2>3
<1>3. ASSUME s \in LineStarts(p)
      PROVE  SubSeq(p, s, LineEnd(p, s)) = SubSeq(q, s, LineEnd(q, s))
  <2>1. PICK e : e = LineEnd(p, s) /\ Ends(p, s, e)
    BY <1>3, LineEndEnds
  <2>2. e \in s - 1 .. Len(p) - 1 /\ p[e + 1] = "newline"
    BY <1>1, <2>1 DEF Ends
  <2>3. e + 1 \in 1 .. Len(p) /\ e \in s - 1 .. Len(q) /\ \A i \in s .. e : i \in 1 .. Len(p)
    BY <1>1, <2>2
  <2>4. Ends(q, s, e)
    BY <1>1, <2>1, <2>2, <2>3 DEF Ends
  <2>5. LineEnd(q, s) = e
    BY <1>2, <1>3, <2>4, LineEndIs
  <2>6. SubSeq(p, s, e) = SubSeq(q, s, e)
    <3>1. /\ SubSeq(p, s, e) = [i \in 1 .. e - s + 1 |-> p[s + i - 1]]
          /\ SubSeq(q, s, e) = [i \in 1 .. e - s + 1 |-> q[s + i - 1]]
      BY <1>1, <2>2, <2>3
    <3>2. \A i \in 1 .. e - s + 1 : s + i - 1 \in 1 .. Len(p)
      BY <1>1, <2>2
    <3>3. QED
      BY <1>1, <3>1, <3>2
  <2>7. QED
    BY <2>1, <2>5, <2>6
<1>4. QED
  BY <1>2, <1>3

LEMMA SameLinesWith ==
  ASSUME NEW p \in Seq(Tokens), NEW q \in Seq(Tokens), Begins(p, q), WholeLines(p), NEW word
  PROVE  LinesWith(p, word) = {l \in LinesWith(q, word) : l.start <= Len(p)}
<1>1. Len(p) \in Nat /\ Len(q) \in Nat
  OBVIOUS
<1>2. ASSUME NEW l \in LinesWith(p, word)
      PROVE  l \in LinesWith(q, word) /\ l.start <= Len(p)
  <2>1. PICK s \in LineStarts(p) :
          /\ l = [start |-> s, words |-> SubSeq(p, s, LineEnd(p, s))]
          /\ word \in ToSet(l.words) /\ FirstNumber(l.words) # {}
    BY LineWithIs
  <2>2. s \in 1 .. Len(p) + 1 /\ LineEnd(p, s) \in s - 1 .. Len(p)
    BY StartsAreNumbers, LineEndEnds DEF Ends
  <2>3. s # Len(p) + 1
    <3>1. SUFFICES ASSUME s = Len(p) + 1
                   PROVE  FALSE
      OBVIOUS
    <3>2. LineEnd(p, s) = Len(p)
      BY <1>1, <2>2, <3>1
    <3>3. SubSeq(p, s, LineEnd(p, s)) = << >>
      BY <1>1, <3>1, <3>2
    <3>4. l.words = << >>
      BY <2>1, <3>3
    <3>5. Len(l.words) = 0 /\ DOMAIN l.words = {}
      BY <3>4
    <3>6. QED
      BY <2>1, <3>5 DEF ToSet
  <2>4. s \in 1 .. Len(p)
    BY <1>1, <2>2, <2>3
  <2>5. s \in LineStarts(q) /\ l = [start |-> s, words |-> SubSeq(q, s, LineEnd(q, s))]
    BY <2>1, <2>4, SameLine
  <2>6. l \in LinesWith(q, word)
    BY <2>1, <2>5, LineWithIs
  <2>7. QED
    BY <2>1, <2>4, <2>6
<1>3. ASSUME NEW l \in LinesWith(q, word), l.start <= Len(p)
      PROVE  l \in LinesWith(p, word)
  <2>1. PICK s \in LineStarts(q) :
          /\ l = [start |-> s, words |-> SubSeq(q, s, LineEnd(q, s))]
          /\ word \in ToSet(l.words) /\ FirstNumber(l.words) # {}
    BY LineWithIs
  <2>2. s \in 1 .. Len(p)
    <3>1. s \in 1 .. Len(q) + 1 /\ s <= Len(p)
      BY <1>3, <2>1, StartsAreNumbers
    <3>2. QED
      BY <1>1, <3>1
  <2>3. s \in LineStarts(p) /\ l = [start |-> s, words |-> SubSeq(p, s, LineEnd(p, s))]
    BY <2>1, <2>2, SameLine
  <2>4. QED
    BY <2>1, <2>3, LineWithIs
<1>4. QED
  BY <1>2, <1>3

\* turn_stats.go:18-22: no later line changes a number that a whole line has told.
LEMMA NumberStays ==
  ASSUME NEW p \in Seq(Tokens), NEW q \in Seq(Tokens), Begins(p, q), WholeLines(p), NEW word,
         NumberWith(p, word) # NoNumber
  PROVE  NumberWith(q, word) = NumberWith(p, word)
<1>1. LinesWith(p, word) # {}
  BY NumberIsTyped
<1>2. PICK l \in LinesWith(p, word) :
        /\ \A k \in LinesWith(p, word) : l.start <= k.start
        /\ NumberWith(p, word) = CHOOSE number \in FirstNumber(l.words) : TRUE
  BY <1>1, FirstLine
<1>3. l \in LinesWith(q, word) /\ l.start <= Len(p)
  BY SameLinesWith
<1>4. PICK k \in LinesWith(q, word) :
        /\ \A j \in LinesWith(q, word) : k.start <= j.start
        /\ NumberWith(q, word) = CHOOSE number \in FirstNumber(k.words) : TRUE
  BY <1>3, FirstLine
<1>5. k.start \in Nat /\ l.start \in Nat /\ Len(p) \in Nat
  BY LineIsTyped
<1>6. k.start <= l.start
  BY <1>3, <1>4
<1>7. k \in LinesWith(p, word)
  BY <1>3, <1>5, <1>6, SameLinesWith
<1>8. k.start = l.start
  BY <1>2, <1>5, <1>6, <1>7
<1>9. k = l
  BY <1>7, <1>8, LineIsTyped
<1>10. QED
  BY <1>2, <1>4, <1>9

LEMMA PrefixBegins ==
  ASSUME NEW text \in Seq(Tokens), NEW n \in 0 .. Len(text), NEW m \in n .. Len(text)
  PROVE  /\ SubSeq(text, 1, n) \in Seq(Tokens) /\ Begins(SubSeq(text, 1, n), SubSeq(text, 1, m))
         /\ n = 0 \/ text[n] = "newline" => WholeLines(SubSeq(text, 1, n))
         /\ SubSeq(text, 1, Len(text)) = text
<1>1. Len(text) \in Nat /\ n \in Nat /\ m \in Nat /\ n <= m /\ m <= Len(text)
  OBVIOUS
<1>2. ASSUME NEW k \in 0 .. Len(text)
      PROVE  /\ SubSeq(text, 1, k) \in Seq(Tokens) /\ Len(SubSeq(text, 1, k)) = k
             /\ \A i \in 1 .. k : SubSeq(text, 1, k)[i] = text[i]
  <2>1. SubSeq(text, 1, k) = [i \in 1 .. k |-> text[i]]
    BY <1>1
  <2>2. \A i \in 1 .. k : text[i] \in Tokens
    BY <1>1
  <2>3. QED
    BY <1>1, <2>1, <2>2
<1>3. Begins(SubSeq(text, 1, n), SubSeq(text, 1, m))
  <2>1. m \in 0 .. Len(text) /\ \A i \in 1 .. n : i \in 1 .. m
    BY <1>1
  <2>2. QED
    BY <1>1, <1>2, <2>1 DEF Begins
<1>4. n = 0 \/ text[n] = "newline" => WholeLines(SubSeq(text, 1, n))
  <2>1. CASE n = 0
    BY <1>1, <2>1 DEF WholeLines
  <2>2. CASE n # 0
    BY <1>1, <1>2, <2>2 DEF WholeLines
  <2>3. QED
    BY <2>1, <2>2
<1>5. SubSeq(text, 1, Len(text)) = text
  BY <1>1
<1>6. QED
  BY <1>2, <1>3, <1>4, <1>5

\* The two together: the numbers of whole lines are the numbers of the text.
LEMMA PrefixTells ==
  ASSUME NEW text \in Seq(Tokens), NEW n \in 0 .. Len(text), NEW m \in n .. Len(text),
         n = 0 \/ text[n] = "newline", NEW word,
         NumberWith(SubSeq(text, 1, n), word) # NoNumber
  PROVE  NumberWith(SubSeq(text, 1, m), word) = NumberWith(SubSeq(text, 1, n), word)
<1>1. m \in 0 .. Len(text) /\ m \in m .. Len(text)
  OBVIOUS
<1>2. /\ SubSeq(text, 1, n) \in Seq(Tokens) /\ SubSeq(text, 1, m) \in Seq(Tokens)
      /\ Begins(SubSeq(text, 1, n), SubSeq(text, 1, m)) /\ WholeLines(SubSeq(text, 1, n))
  BY <1>1, PrefixBegins
<1>3. QED
  BY <1>2, NumberStays

LEMMA ParsedEarly ==
  ASSUME NEW text \in Seq(Tokens), NEW n \in 0 .. Len(text),
         n = 0 \/ text[n] = "newline", Parse(SubSeq(text, 1, n)) # NoStats
  PROVE  Parse(text) = Parse(SubSeq(text, 1, n))
<1>1. Len(text) \in n .. Len(text) /\ n \in n .. Len(text)
  OBVIOUS
<1>2. SubSeq(text, 1, n) \in Seq(Tokens) /\ SubSeq(text, 1, Len(text)) = text
  BY <1>1, PrefixBegins
<1>3. /\ NumberWith(SubSeq(text, 1, n), "session") # NoNumber
      /\ NumberWith(SubSeq(text, 1, n), "byte") # NoNumber
  BY <1>2, ParseIsTyped
<1>4. /\ NumberWith(text, "session") = NumberWith(SubSeq(text, 1, n), "session")
      /\ NumberWith(text, "byte") = NumberWith(SubSeq(text, 1, n), "byte")
  BY <1>1, <1>2, <1>3, PrefixTells
<1>5. QED
  BY <1>4 DEF Parse

----------------------------------------------------------------------------
\* The inductive invariant

\* The waits, from the start of the CPU window on: a run that has sampled the CPU
\* reads on longer than it is waited for.
Timed ==
  /\ outcome = Waiting => elapsed <= CollectorTimeout
  /\ outcome \in {"metrics", "error"} => at \in {"done", "failed"}
  /\ at = "find" => metrics = {}
  /\ at = "window" => deadline >= CPUWindow
  /\ "cpu" \in metrics => elapsed >= CPUWindow
  /\ at = "read" /\ "cpu" \in metrics => deadline >= CPUWindow + ReadTimeout

InTime == CollectorTimeout < CPUWindow + ReadTimeout

\* What is parsed is whole lines, or all that has arrived: because the connection is
\* closed, or at the read deadline.
Parsed ==
  /\ scanned = 0 \/ reply[scanned] = "newline"
  /\ at \notin {"done", "failed"} => stats = NoStats
  /\ stats # NoStats =>
       \/ stats = Parse(SubSeq(reply, 1, scanned))
       \/ /\ stats = Parse(SubSeq(reply, 1, arrived))
          /\ closed \/ (InTime /\ "cpu" \in metrics => outcome = "deadline")

TurnInv == TurnTypeOK /\ Timed /\ Parsed

LEMMA ReplyIsText ==
  ASSUME TurnTypeOK
  PROVE  /\ reply \in Seq(Tokens) /\ Len(reply) \in Nat /\ arrived \in Nat /\ scanned \in Nat
         /\ scanned <= arrived /\ arrived <= Len(reply)
         /\ \A n \in 0 .. arrived : SubSeq(reply, 1, n) \in Seq(Tokens)
<1>1. reply \in Seq(Tokens) /\ Len(reply) \in Nat /\ arrived \in 0 .. Len(reply)
      /\ scanned \in 0 .. arrived
  BY TurnAssumption DEF TurnTypeOK
<1>2. \A n \in 0 .. arrived : n \in 0 .. Len(reply) /\ n \in n .. Len(reply)
  BY <1>1
<1>3. \A n \in 0 .. arrived : SubSeq(reply, 1, n) \in Seq(Tokens)
  BY <1>1, <1>2, PrefixBegins
<1>4. QED
  BY <1>1, <1>3

\* The next line ends at the first of its ends.
LEMMA NextLine ==
  ASSUME TurnTypeOK, LineEnds # {}
  PROVE  Min(LineEnds) \in scanned + 1 .. arrived /\ reply[Min(LineEnds)] = "newline"
<1>1. LineEnds \in SUBSET Nat
  BY ReplyIsText DEF LineEnds
<1>2. \E n \in LineEnds : \A m \in LineEnds : n <= m
  BY <1>1, LeastNumber
<1>3. Min(LineEnds) \in LineEnds
  BY <1>2 DEF Min
<1>4. QED
  BY <1>3 DEF LineEnds

LEMMA TurnTypeStep ==
  ASSUME TurnTypeOK, [TurnNext]_turnVars
  PROVE  TurnTypeOK'
<1>a. CollectorTimeout \in Nat /\ CPUWindow \in Nat /\ ReadTimeout \in Nat
  BY TurnAssumption
<1>b. NoStats \in [sessions : Seq(Tokens), bytes : Seq(Tokens)]
  BY DEF NoStats, NoNumber
<1> USE DEF TurnTypeOK, coturn
<1>1. CASE FindProcess
  BY <1>a, <1>1 DEF FindProcess, FindTurnProcess
<1>2. CASE SampleCPU \/ SampleMemory
  <2>1. /\ metrics' = metrics \/ metrics' = metrics \cup {"cpu"} \/ metrics' = metrics \cup {"mem"}
        /\ deadline' = deadline \/ deadline' = elapsed + ReadTimeout
        /\ at' \in {"memory", "dial"}
    BY <1>2 DEF SampleCPU, SampleMemory
  <2>2. UNCHANGED <<elapsed, coturn, scanned, stats, outcome>>
    BY <1>2 DEF SampleCPU, SampleMemory
  <2>3. metrics' \subseteq {"up", "cpu", "mem"}
    BY <2>1
  <2>4. deadline' \in Nat
    BY <1>a, <2>1
  <2>5. QED
    BY <2>1, <2>2, <2>3, <2>4
<1>3. CASE Dial \/ DialFails
  <2>1. deadline' \in Nat /\ at' \in {"read", "done"}
    BY <1>a, <1>3 DEF Dial, DialFails
  <2>2. UNCHANGED <<elapsed, metrics, coturn, scanned, stats, outcome>>
    BY <1>3 DEF Dial, DialFails
  <2>3. QED
    BY <2>1, <2>2
<1>4. CASE ScanLine
  <2>1. scanned' \in scanned + 1 .. arrived
    BY <1>4, NextLine DEF ScanLine
  <2>2. scanned' \in 0 .. arrived
    BY <2>1, ReplyIsText
  <2>3. stats' = Parse(SubSeq(reply, 1, scanned')) /\ SubSeq(reply, 1, scanned') \in Seq(Tokens)
    BY <1>4, <2>2, ReplyIsText DEF ScanLine
  <2>4. stats' \in [sessions : Seq(Tokens), bytes : Seq(Tokens)]
        /\ (stats' = NoStats \/ NoNumber \notin {stats'.sessions, stats'.bytes})
    BY <2>3, ParseIsTyped
  <2>5. QED
    BY <1>4, <2>2, <2>4 DEF ScanLine
<1>5. CASE FinalParse
  <2>1. stats' = Parse(SubSeq(reply, 1, arrived)) /\ SubSeq(reply, 1, arrived) \in Seq(Tokens)
    <3>1. arrived \in 0 .. arrived
      BY ReplyIsText
    <3>2. QED
      BY <1>5, <3>1, ReplyIsText DEF FinalParse
  <2>2. stats' \in [sessions : Seq(Tokens), bytes : Seq(Tokens)]
        /\ (stats' = NoStats \/ NoNumber \notin {stats'.sessions, stats'.bytes})
    BY <2>1, ParseIsTyped
  <2>3. QED
    BY <1>5, <2>2 DEF FinalParse
<1>6. CASE TakeResult \/ GiveUp
  BY <1>6 DEF TakeResult, GiveUp
<1>7. CASE CoturnWrites
  <2>1. arrived + 1 \in 0 .. Len(reply) /\ scanned \in 0 .. arrived + 1
    BY <1>7, ReplyIsText DEF CoturnWrites
  <2>2. QED
    BY <1>7, <2>1 DEF CoturnWrites
<1>8. CASE CoturnDies
  BY <1>8 DEF CoturnDies
<1>9. CASE Elapse
  BY <1>9 DEF Elapse
<1>10. CASE UNCHANGED turnVars
  BY <1>10 DEF turnVars
<1>11. QED
  BY <1>1, <1>2, <1>3, <1>4, <1>5, <1>6, <1>7, <1>8, <1>9, <1>10 DEF TurnNext, Run

LEMMA TimedStep ==
  ASSUME TurnInv, [TurnNext]_turnVars
  PROVE  Timed'
<1>a. /\ CollectorTimeout \in Nat /\ CPUWindow \in Nat /\ ReadTimeout \in Nat
      /\ elapsed \in Nat /\ deadline \in Nat
  BY TurnAssumption DEF TurnInv, TurnTypeOK
<1>b. Timed /\ outcome \in {Waiting, "metrics", "error", "deadline"}
  BY DEF TurnInv, TurnTypeOK
<1>1. CASE FindProcess
  BY <1>a, <1>b, <1>1 DEF FindProcess, FindTurnProcess, Timed
<1>2. CASE SampleCPU
  BY <1>a, <1>b, <1>2 DEF SampleCPU, Timed
<1>3. CASE SampleMemory
  BY <1>a, <1>b, <1>3 DEF SampleMemory, Timed
<1>4. CASE Dial
  BY <1>a, <1>b, <1>4 DEF Dial, Timed
<1>5. CASE DialFails \/ ScanLine \/ FinalParse
  BY <1>b, <1>5 DEF DialFails, ScanLine, FinalParse, Timed
<1>6. CASE TakeResult \/ GiveUp
  BY <1>b, <1>6 DEF TakeResult, GiveUp, Timed, Waiting
<1>7. CASE CoturnWrites \/ CoturnDies \/ UNCHANGED turnVars
  BY <1>b, <1>7 DEF CoturnWrites, CoturnDies, turnVars, Timed
<1>8. CASE Elapse
  BY <1>a, <1>b, <1>8 DEF Elapse, Timed, CtxDone
<1>9. QED
  BY <1>1, <1>2, <1>3, <1>4, <1>5, <1>6, <1>7, <1>8 DEF TurnNext, Run

LEMMA ParsedStep ==
  ASSUME TurnInv, [TurnNext]_turnVars
  PROVE  Parsed'
<1>b. TurnTypeOK /\ Parsed /\ Timed
  BY DEF TurnInv
<1>1. CASE FindProcess \/ SampleCPU \/ SampleMemory \/ Dial \/ DialFails
  <2>1. at \notin {"done", "failed"} /\ UNCHANGED <<reply, scanned, stats>>
    BY <1>1 DEF FindProcess, SampleCPU, SampleMemory, Dial, DialFails, coturn
  <2>2. QED
    BY <1>b, <2>1 DEF Parsed
<1>2. CASE ScanLine
  <2>1. reply[scanned'] = "newline" /\ reply' = reply
    BY <1>b, <1>2, NextLine DEF ScanLine, coturn
  <2>2. stats' = Parse(SubSeq(reply, 1, scanned')) /\ (at' \notin {"done", "failed"} => stats' = NoStats)
    BY <1>2 DEF ScanLine
  <2>3. QED
    BY <2>1, <2>2 DEF Parsed
<1>3. CASE FinalParse
  <2>1. /\ UNCHANGED <<reply, scanned, arrived, closed, metrics, outcome, deadline, elapsed>>
        /\ stats' = Parse(SubSeq(reply, 1, arrived)) /\ at' = "done" /\ at = "read"
        /\ closed \/ elapsed >= deadline
    BY <1>3 DEF FinalParse, StreamOver, coturn
  <2>2. ASSUME InTime, "cpu" \in metrics, ~closed
        PROVE  outcome = "deadline"
    <3>1. /\ CollectorTimeout \in Nat /\ CPUWindow \in Nat /\ ReadTimeout \in Nat
          /\ elapsed \in Nat /\ deadline \in Nat
          /\ outcome \in {Waiting, "metrics", "error", "deadline"}
      BY <1>b, TurnAssumption DEF TurnTypeOK
    <3>2. deadline >= CPUWindow + ReadTimeout
      BY <1>b, <2>1, <2>2 DEF Timed
    <3>3. elapsed > CollectorTimeout
      BY <2>1, <2>2, <3>1, <3>2 DEF InTime
    <3>4. ~(elapsed <= CollectorTimeout)
      BY <3>1, <3>3
    <3>5. QED
      BY <1>b, <2>1, <3>1, <3>4 DEF Timed
  <2>3. (scanned = 0 \/ reply[scanned] = "newline")
    BY <1>b DEF Parsed
  <2>4. QED
    BY <2>1, <2>2, <2>3 DEF Parsed, InTime
<1>4. CASE TakeResult \/ GiveUp
  <2>1. /\ UNCHANGED <<at, reply, scanned, arrived, closed, metrics, stats>>
        /\ outcome = Waiting
    BY <1>4 DEF TakeResult, GiveUp, coturn
  <2>2. QED
    BY <1>b, <2>1 DEF Parsed, InTime, Waiting
<1>5. CASE CoturnWrites \/ CoturnDies
  <2>1. at = "read" /\ UNCHANGED <<at, reply, scanned, stats>>
    BY <1>5 DEF CoturnWrites, CoturnDies
  <2>2. QED
    BY <1>b, <2>1 DEF Parsed
<1>6. CASE Elapse \/ UNCHANGED turnVars
  <2>1. UNCHANGED <<at, reply, scanned, arrived, closed, metrics, stats, outcome>>
    BY <1>6 DEF Elapse, turnVars, coturn
  <2>2. QED
    BY <1>b, <2>1 DEF Parsed, InTime
<1>7. QED
  BY <1>1, <1>2, <1>3, <1>4, <1>5, <1>6 DEF TurnNext, Run

LEMMA TurnStarts == TurnInit => TurnInv
<1>1. SUFFICES ASSUME TurnInit
               PROVE  TurnInv
  OBVIOUS
<1>2. NoStats \in [sessions : Seq(Tokens), bytes : Seq(Tokens)]
  BY DEF NoStats, NoNumber
<1>3. reply \in Seq(Tokens) /\ Len(reply) \in Nat /\ 0 \in 0 .. Len(reply) /\ 0 \in 0 .. 0
  BY <1>1, TurnAssumption DEF TurnInit
<1>4. TurnTypeOK
  BY <1>1, <1>2, <1>3 DEF TurnInit, TurnTypeOK
<1>5. Timed
  BY <1>1, TurnAssumption DEF TurnInit, Timed, Waiting
<1>6. QED
  BY <1>1, <1>4, <1>5 DEF TurnInit, TurnInv, Parsed

LEMMA TurnInvAlways == TurnSpec => []TurnInv
<1>1. TurnInv /\ [TurnNext]_turnVars => TurnInv'
  BY TurnTypeStep, TimedStep, ParsedStep DEF TurnInv
<1>2. QED
  BY <1>1, TurnStarts, PTL DEF TurnSpec

----------------------------------------------------------------------------
\* The theorems

\* turn_stats.go: the statistics are two numbers or none.
THEOREM TurnTypeCorrect == TurnSpec => []TurnTypeOK
<1>1. TurnInv => TurnTypeOK
  BY DEF TurnInv
<1>2. QED
  BY <1>1, TurnInvAlways, PTL

\* turn_stats.go:46-47: however the reply is cut, what its whole lines say of either
\* number is what is reported.
THEOREM LastLineCut == TurnSpec => []OnlyLastLineCut
<1>1. TurnInv => OnlyLastLineCut
  <2>1. SUFFICES ASSUME TurnInv, stats # NoStats,
                        NEW word \in {"session", "byte"},
                        NumberWith(SubSeq(reply, 1, scanned), word) # NoNumber
                 PROVE  /\ word = "session" => stats.sessions = NumberWith(reply, word)
                        /\ word = "byte" => stats.bytes = NumberWith(reply, word)
    BY DEF OnlyLastLineCut
  <2>2. /\ reply \in Seq(Tokens) /\ scanned \in 0 .. Len(reply)
        /\ scanned \in scanned .. Len(reply) /\ arrived \in scanned .. Len(reply)
        /\ Len(reply) \in scanned .. Len(reply)
        /\ SubSeq(reply, 1, scanned) \in Seq(Tokens) /\ SubSeq(reply, 1, arrived) \in Seq(Tokens)
    <3>1. TurnTypeOK
      BY <2>1 DEF TurnInv
    <3>2. reply \in Seq(Tokens) /\ Len(reply) \in Nat /\ arrived \in Nat /\ scanned \in Nat
          /\ scanned <= arrived /\ arrived <= Len(reply)
      BY <3>1, ReplyIsText
    <3>3. scanned \in 0 .. arrived /\ arrived \in 0 .. arrived
      BY <3>2
    <3>4. SubSeq(reply, 1, scanned) \in Seq(Tokens) /\ SubSeq(reply, 1, arrived) \in Seq(Tokens)
      BY <3>1, <3>3, ReplyIsText
    <3>5. QED
      BY <3>2, <3>4
  <2>3. scanned = 0 \/ reply[scanned] = "newline"
    BY <2>1 DEF TurnInv, Parsed
  <2>4. /\ NumberWith(SubSeq(reply, 1, arrived), word) = NumberWith(SubSeq(reply, 1, scanned), word)
        /\ NumberWith(SubSeq(reply, 1, Len(reply)), word) = NumberWith(SubSeq(reply, 1, scanned), word)
    BY <2>1, <2>2, <2>3, PrefixTells
  <2>5. SubSeq(reply, 1, Len(reply)) = reply
    BY <2>2, PrefixBegins
  <2>6. PICK n \in {scanned, arrived} : stats = Parse(SubSeq(reply, 1, n))
    BY <2>1 DEF TurnInv, Parsed
  <2>7. /\ stats.sessions = NumberWith(SubSeq(reply, 1, n), "session")
        /\ stats.bytes = NumberWith(SubSeq(reply, 1, n), "byte")
    BY <2>1, <2>2, <2>6, ParseIsTyped
  <2>8. QED
    BY <2>4, <2>5, <2>6, <2>7
<1>2. QED
  BY <1>1, TurnInvAlways, PTL

\* turn_stats.go:18-22, 31: stopping early gives the whole reply's numbers, and only
\* a death of coturn, or a run without a CPU window, may give those of a part of it;
\* if the read deadline, counted from the end of the window, is later than the
\* registry's, as 200 ms and 2 s are than 2 s.
THEOREM WholeReplyTold ==
  ASSUME CollectorTimeout < CPUWindow + ReadTimeout
  PROVE  TurnSpec => []NumbersOfWholeReply
<1>1. TurnInv => NumbersOfWholeReply
  <2>1. SUFFICES ASSUME TurnInv, outcome = "metrics", stats # NoStats, stats # Parse(reply)
                 PROVE  arrived < Len(reply) /\ (closed \/ "cpu" \notin metrics)
    BY DEF NumbersOfWholeReply
  <2>2. TurnTypeOK /\ Parsed
    BY <2>1 DEF TurnInv
  <2>3. /\ reply \in Seq(Tokens) /\ Len(reply) \in Nat /\ arrived \in Nat
        /\ arrived <= Len(reply) /\ scanned \in 0 .. Len(reply)
    BY <2>2, ReplyIsText
  <2>4. stats # Parse(SubSeq(reply, 1, scanned))
    BY <2>1, <2>2, <2>3, ParsedEarly DEF Parsed
  <2>5. /\ stats = Parse(SubSeq(reply, 1, arrived))
        /\ closed \/ (InTime /\ "cpu" \in metrics => outcome = "deadline")
    BY <2>1, <2>2, <2>4 DEF Parsed
  <2>6. arrived # Len(reply)
    <3>1. SubSeq(reply, 1, Len(reply)) = reply
      BY <2>3, PrefixBegins
    <3>2. QED
      BY <2>1, <2>5, <3>1
  <2>7. QED
    BY <2>1, <2>3, <2>5, <2>6 DEF InTime
<1>2. QED
  BY <1>1, TurnInvAlways, PTL
=============================================================================
