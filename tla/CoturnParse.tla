----------------------------- MODULE CoturnParse -----------------------------
(***************************************************************************)
(* parseCoturnStats and firstNumber, internal/collector/turn_stats.go.  A    *)
(* text is a sequence of tokens: the words that are looked for, digits, the   *)
(* decimal point, the end of a line, and anything else.                      *)
(***************************************************************************)
EXTENDS Integers, SequencesExt

Digits == {"1", "2"}
Tokens == Digits \cup {"session", "byte", "point", "newline", "other"}

\* The lines of the text, each with the place where it begins
LineStarts(text) == {1} \cup {i + 1 : i \in {j \in DOMAIN text : text[j] = "newline"}}
LineEnd(text, s) == CHOOSE e \in s - 1 .. Len(text) :
                      /\ e = Len(text) \/ text[e + 1] = "newline"
                      /\ \A i \in s .. e : text[i] # "newline"
Lines(text) ==
  {[start |-> s, words |-> SubSeq(text, s, LineEnd(text, s))] : s \in LineStarts(text)}

Points(number) == Cardinality({i \in DOMAIN number : number[i] = "point"})

\* From a line's first digit as far as digits and points go; two points are no
\* number.  The result has at most one element.
FirstNumber(line) ==
  {number \in {SubSeq(line, p[1], p[2]) : p \in
     {q \in (DOMAIN line) \X (DOMAIN line) :
        /\ q[1] <= q[2] /\ line[q[1]] \in Digits
        /\ \A i \in 1 .. q[1] - 1 : line[i] \notin Digits
        /\ \A i \in q[1] .. q[2] : line[i] \in Digits \cup {"point"}
        /\ q[2] < Len(line) => line[q[2] + 1] \notin Digits \cup {"point"}}} :
   Points(number) <= 1}

NoNumber == << >>

\* The lines that have both the word and a number
LinesWith(text, word) ==
  {l \in Lines(text) : word \in ToSet(l.words) /\ FirstNumber(l.words) # {}}

\* Mutant: a later line replaces what an earlier one said.
NumberWithLast(text, word) ==
  IF LinesWith(text, word) = {} THEN NoNumber
  ELSE LET last == CHOOSE l \in LinesWith(text, word) :
                     \A k \in LinesWith(text, word) : k.start <= l.start
       IN  CHOOSE number \in FirstNumber(last.words) : TRUE

\* What the first of them says
NumberWith(text, word) ==
  IF LinesWith(text, word) = {} THEN NoNumber
  ELSE LET first == CHOOSE l \in LinesWith(text, word) :
                      \A k \in LinesWith(text, word) : l.start <= k.start
       IN  CHOOSE number \in FirstNumber(first.words) : TRUE

NoStats == [sessions |-> NoNumber, bytes |-> NoNumber]

\* Mutant: one of the two is enough.
ParseEither(text) ==
  [sessions |-> NumberWith(text, "session"), bytes |-> NumberWith(text, "byte")]

\* The session count and the bytes relayed, if the text has both
Parse(text) ==
  IF NoNumber \in {NumberWith(text, "session"), NumberWith(text, "byte")} THEN NoStats
  ELSE [sessions |-> NumberWith(text, "session"), bytes |-> NumberWith(text, "byte")]
=============================================================================
