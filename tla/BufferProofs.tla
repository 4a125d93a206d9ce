---------------------------- MODULE BufferProofs ----------------------------
(***************************************************************************)
(* Proofs about the disk-backed buffer, for any number and any lengths of  *)
(* heartbeats, any cap and any sequence of calls and failures; at the end, *)
(* that it keeps its order, torn writes included, and that it implements   *)
(* the durable queue.                                                      *)
(***************************************************************************)
EXTENDS BufferRefinement, SequenceTheorems, Induction

(***************************************************************************)
(* The sum of the entries' weights, without induction: u[i] is the weight  *)
(* of the entries from the i-th on.                                        *)
(***************************************************************************)
IsSuffixSum(u, s) ==
  /\ u \in [1 .. Len(s) + 1 -> Nat]
  /\ u[Len(s) + 1] = 0
  /\ \A i \in 1 .. Len(s) : u[i] = Weight(s[i]) + u[i + 1]

SizeIs(s, n) == \E u : IsSuffixSum(u, s) /\ u[1] = n

LEMMA WeightIsNat ==
  ASSUME NEW s \in Seq(Texts), NEW i \in 1 .. Len(s)
  PROVE  s[i] \in Texts /\ Weight(s[i]) \in Nat
<1>1. s[i] \in Texts
  BY ElementOfSeq
<1>2. QED
  BY <1>1 DEF Texts, Weight

LEMMA SizeEmpty ==
  /\ SizeIs(<< >>, 0)
  /\ \A n : SizeIs(<< >>, n) => n = 0
<1>1. IsSuffixSum([i \in 1 .. 1 |-> 0], << >>)
  BY DEF IsSuffixSum
<1>2. SizeIs(<< >>, 0)
  BY <1>1 DEF SizeIs
<1>3. ASSUME NEW n, SizeIs(<< >>, n) PROVE n = 0
  BY <1>3 DEF SizeIs, IsSuffixSum
<1>4. QED
  BY <1>2, <1>3

LEMMA SizeAppend ==
  ASSUME NEW s \in Seq(Texts), NEW t \in Texts, NEW n, SizeIs(s, n)
  PROVE  SizeIs(Append(s, t), n + Weight(t))
<1>1. PICK u : IsSuffixSum(u, s) /\ u[1] = n
  BY DEF SizeIs
<1> DEFINE r == Append(s, t)
           v == [i \in 1 .. Len(r) + 1 |-> IF i = Len(r) + 1 THEN 0 ELSE u[i] + Weight(t)]
<1>2. /\ Len(s) \in Nat /\ Len(r) = Len(s) + 1
      /\ \A i \in 1 .. Len(s) : r[i] = s[i]
      /\ r[Len(s) + 1] = t
  BY AppendProperties
<1>3. Weight(t) \in Nat
  BY DEF Texts, Weight
<1>4. v \in [1 .. Len(r) + 1 -> Nat] /\ v[Len(r) + 1] = 0
  BY <1>1, <1>2, <1>3 DEF IsSuffixSum
<1>5. ASSUME NEW i \in 1 .. Len(r) PROVE v[i] = Weight(r[i]) + v[i + 1]
  <2>1. CASE i = Len(r)
    BY <1>1, <1>2, <1>3, <2>1 DEF IsSuffixSum
  <2>2. CASE i # Len(r)
    <3>1. i \in 1 .. Len(s) /\ i + 1 \in 1 .. Len(s) + 1 /\ r[i] = s[i]
      BY <1>2, <2>2
    <3>2. u[i] = Weight(s[i]) + u[i + 1] /\ u[i + 1] \in Nat /\ u[i] \in Nat
      BY <1>1, <1>2, <3>1 DEF IsSuffixSum
    <3>3. Weight(s[i]) \in Nat
      BY <3>1, WeightIsNat
    <3>4. v[i] = u[i] + Weight(t) /\ v[i + 1] = u[i + 1] + Weight(t)
      BY <1>2, <3>1
    <3>5. QED
      BY <1>3, <3>1, <3>2, <3>3, <3>4
  <2>3. QED
    BY <2>1, <2>2
<1>6. IsSuffixSum(v, r)
  BY <1>4, <1>5 DEF IsSuffixSum
<1>7. v[1] = n + Weight(t)
  BY <1>1, <1>2
<1>8. QED
  BY <1>6, <1>7 DEF SizeIs

LEMMA SizeTail ==
  ASSUME NEW s \in Seq(Texts), s # << >>, NEW n, SizeIs(s, n)
  PROVE  /\ n - Weight(Head(s)) \in Nat
         /\ SizeIs(Tail(s), n - Weight(Head(s)))
<1>1. PICK u : IsSuffixSum(u, s) /\ u[1] = n
  BY DEF SizeIs
<1> DEFINE r == Tail(s)
           v == [i \in 1 .. Len(r) + 1 |-> u[i + 1]]
<1>2. /\ Len(s) \in Nat /\ Len(s) >= 1 /\ Len(r) = Len(s) - 1
      /\ \A i \in 1 .. Len(r) : r[i] = s[i + 1]
      /\ Head(s) = s[1]
  BY HeadTailProperties, EmptySeq
<1>3. Weight(s[1]) \in Nat
  BY <1>2, WeightIsNat
<1>4. n = Weight(s[1]) + u[2] /\ u[2] \in Nat /\ n \in Nat
  BY <1>1, <1>2 DEF IsSuffixSum
<1>5. v \in [1 .. Len(r) + 1 -> Nat] /\ v[Len(r) + 1] = 0 /\ v[1] = u[2]
  BY <1>1, <1>2 DEF IsSuffixSum
<1>6. ASSUME NEW i \in 1 .. Len(r) PROVE v[i] = Weight(r[i]) + v[i + 1]
  BY <1>1, <1>2 DEF IsSuffixSum
<1>7. IsSuffixSum(v, r)
  BY <1>5, <1>6 DEF IsSuffixSum
<1>8. n - Weight(Head(s)) = u[2]
  BY <1>2, <1>3, <1>4
<1>9. QED
  BY <1>4, <1>5, <1>7, <1>8 DEF SizeIs

\* TotalWeight is the sum that SizeIs speaks of.
LEMMA TotalWeightIsSize ==
  ASSUME NEW s \in Seq(Texts), NEW n, SizeIs(s, n)
  PROVE  TotalWeight(s) = n
<1> DEFINE Dom == 1 .. Len(s) + 1
           IsSum(v) == v = [i \in Dom |-> IF i = Len(s) + 1 THEN 0 ELSE Weight(s[i]) + v[i + 1]]
<1>1. PICK u : IsSuffixSum(u, s) /\ u[1] = n
  BY DEF SizeIs
<1>2. Len(s) \in Nat
  OBVIOUS
<1>3. IsSum(u)
  BY <1>1, <1>2 DEF IsSuffixSum
<1>4. ASSUME NEW v, IsSum(v) PROVE v = u
  <2> DEFINE Differ == {k \in 0 .. Len(s) : v[Len(s) + 1 - k] # u[Len(s) + 1 - k]}
  <2>1. ASSUME Differ # {} PROVE FALSE
    <3>0. Differ \in SUBSET Nat
      BY <1>2
    <3>1. PICK k \in Differ : \A m \in Differ : k <= m
      <4> HIDE DEF Differ
      <4>1. QED
        BY <2>1, <3>0, LeastNumber
    <3>2. k # 0
      BY <1>2, <1>3, <1>4
    <3>3. k - 1 \in 0 .. Len(s) /\ k - 1 \notin Differ
      BY <1>2, <3>1, <3>2
    <3>4. v[Len(s) + 1 - k + 1] = u[Len(s) + 1 - k + 1]
      BY <1>2, <3>3
    <3>5. Len(s) + 1 - k \in 1 .. Len(s)
      BY <1>2, <3>2
    <3>6. v[Len(s) + 1 - k] = u[Len(s) + 1 - k]
      BY <1>2, <1>3, <1>4, <3>4, <3>5
    <3>7. QED
      BY <3>1, <3>6
  <2>2. \A i \in Dom : v[i] = u[i]
    <3>1. ASSUME NEW i \in Dom PROVE v[i] = u[i]
      <4>1. Len(s) + 1 - i \in 0 .. Len(s) /\ Len(s) + 1 - (Len(s) + 1 - i) = i
        BY <1>2
      <4>2. QED
        BY <2>1, <4>1
    <3>2. QED
      BY <3>1
  <2>3. QED
    BY <1>3, <1>4, <2>2
<1>5. TotalWeight(s) = u[1]
  <2>1. IsSum(CHOOSE v : IsSum(v))
    BY <1>3
  <2>2. (CHOOSE v : IsSum(v)) = u
    BY <1>4, <2>1
  <2>3. TotalWeight(s) = (CHOOSE v : IsSum(v))[1]
    BY DEF TotalWeight
  <2>4. QED
    BY <2>2, <2>3
<1>6. QED
  BY <1>1, <1>5

(***************************************************************************)
(* Sequences as sets of lines, and texts.                                  *)
(***************************************************************************)
LEMMA RangeAppend ==
  ASSUME NEW S, NEW s \in Seq(S), NEW t \in S
  PROVE  Range(Append(s, t)) = Range(s) \cup {t}
<1>1. /\ Append(s, t) \in Seq(S) /\ Len(Append(s, t)) = Len(s) + 1 /\ Len(s) \in Nat
      /\ \A i \in 1 .. Len(s) : Append(s, t)[i] = s[i]
      /\ Append(s, t)[Len(s) + 1] = t
  BY AppendProperties
<1>2. /\ Range(Append(s, t)) = {Append(s, t)[i] : i \in 1 .. Len(s) + 1}
      /\ Range(s) = {s[i] : i \in 1 .. Len(s)}
  BY <1>1, RangeEquality
<1>3. QED
  BY <1>1, <1>2

LEMMA RangeTail ==
  ASSUME NEW S, NEW s \in Seq(S), s # << >>
  PROVE  Range(s) = {Head(s)} \cup Range(Tail(s))
<1>1. /\ Tail(s) \in Seq(S) /\ Len(Tail(s)) = Len(s) - 1 /\ Len(s) \in Nat /\ Len(s) >= 1
      /\ \A i \in 1 .. Len(Tail(s)) : Tail(s)[i] = s[i + 1]
      /\ Head(s) = s[1]
  BY HeadTailProperties, EmptySeq
<1>2. /\ Range(Tail(s)) = {Tail(s)[i] : i \in 1 .. Len(s) - 1}
      /\ Range(s) = {s[i] : i \in 1 .. Len(s)}
  BY <1>1, RangeEquality
<1>3. Range(Tail(s)) \subseteq Range(s)
  <2>1. \A i \in 1 .. Len(s) - 1 : Tail(s)[i] = s[i + 1] /\ i + 1 \in 1 .. Len(s)
    BY <1>1
  <2>2. QED
    BY <1>2, <2>1
<1>4. ASSUME NEW x \in Range(s), x # s[1] PROVE x \in Range(Tail(s))
  <2>1. PICK i \in 1 .. Len(s) : x = s[i]
    BY <1>2
  <2>2. i - 1 \in 1 .. Len(s) - 1 /\ Tail(s)[i - 1] = s[i]
    BY <1>1, <1>4, <2>1
  <2>3. QED
    BY <1>2, <2>1, <2>2
<1>5. Head(s) \in Range(s)
  BY <1>1, <1>2
<1>6. QED
  BY <1>1, <1>3, <1>4, <1>5

LEMMA PrefixIsText ==
  ASSUME NEW h \in Heartbeats, NEW n \in Nat \ {0}
  PROVE  Prefix(h, n) \in Texts
BY DEF Prefix, Texts, Fragments

LEMMA PayloadIsText ==
  ASSUME NEW h \in Heartbeats
  PROVE  Payload(h) \in Texts
BY PrefixIsText, BufferAssumption DEF Payload

LEMMA GlueIsText ==
  ASSUME NEW s \in Texts, NEW t \in Texts
  PROVE  Glue(s, t) \in Texts
<1>1. s.frags \o t.frags \in Seq(Fragments)
  BY ConcatProperties DEF Texts
<1>2. QED
  BY <1>1 DEF Texts, Glue

LEMMA GlueToEmpty ==
  ASSUME NEW h \in Heartbeats
  PROVE  Glue(Empty, Payload(h)) = Payload(h)
<1>1. Payload(h).frags \in Seq(Fragments) /\ Payload(h).len \in Nat
  BY PayloadIsText DEF Texts
<1>2. << >> \o Payload(h).frags = Payload(h).frags
  BY <1>1, ConcatEmptySeq
<1>3. Payload(h) = [frags |-> Payload(h).frags, len |-> Payload(h).len]
  BY DEF Payload, Prefix
<1>4. Glue(Empty, Payload(h)) = [frags |-> << >> \o Payload(h).frags, len |-> 0 + Payload(h).len]
  BY DEF Glue, Empty
<1>5. QED
  BY <1>1, <1>2, <1>3, <1>4

LEMMA EmptyIsText == Empty \in Texts
BY DEF Empty, Texts

LEMMA FileLinesType ==
  ASSUME BufferTypeOK
  PROVE  FileLines \in Seq(Texts)
BY AppendProperties DEF BufferTypeOK, FileLines

LEMMA PayloadHoldsItself ==
  ASSUME NEW h \in Heartbeats
  PROVE  h \in HeartbeatsIn(Payload(h))
BY DEF HeartbeatsIn, Payload, Prefix, Range

(***************************************************************************)
(* Types, the accounting of size, and the cap.                             *)
(***************************************************************************)
CallInv ==
  /\ bpc \in {"append", "close"} => arg \in Heartbeats
  /\ bpc = "down" => entries = << >> /\ size = 0 /\ cursor = 0

SizeInv == BufferTypeOK /\ SizeIs(entries, size) /\ CapRespected /\ CallInv

LEMMA SizeInvInit == BufferInit => SizeInv
<1> SUFFICES ASSUME BufferInit PROVE SizeInv
  OBVIOUS
<1>1. BufferTypeOK
  <2>1. << >> \in Seq(Texts) /\ Empty \in Texts
    BY EmptySeq, EmptyIsText
  <2>2. QED
    BY <2>1 DEF BufferInit, BufferTypeOK, BufferPCs
<1>2. SizeIs(entries, size)
  BY SizeEmpty DEF BufferInit
<1>3. CapRespected /\ CallInv
  BY BufferAssumption DEF BufferInit, CapRespected, CallInv
<1>4. QED
  BY <1>1, <1>2, <1>3 DEF SizeInv

\* The steps that end the process
LEMMA SizeInvDie ==
  ASSUME SizeInv, Die
  PROVE  SizeInv'
<1>1. BufferTypeOK'
  <2>1. << >> \in Seq(Texts)
    BY EmptySeq
  <2>2. QED
    BY <2>1 DEF SizeInv, Die, BufferTypeOK, BufferPCs, fileVars, histVars
<1>2. SizeIs(entries', size')
  BY SizeEmpty DEF Die
<1>3. CapRespected' /\ CallInv'
  BY DEF Die, CapRespected, CallInv
<1>4. QED
  BY <1>1, <1>2, <1>3 DEF SizeInv

\* An entry is appended, read from the file or given by the caller.
LEMMA SizeInvGrow ==
  ASSUME SizeInv, NEW t \in Texts,
         entries' = Append(entries, t), size' = size + Weight(t)
  PROVE  entries' \in Seq(Texts) /\ size' \in Nat /\ SizeIs(entries', size')
<1>1. entries' \in Seq(Texts)
  BY AppendProperties DEF SizeInv, BufferTypeOK
<1>2. Weight(t) \in Nat
  BY DEF Texts, Weight
<1>3. SizeIs(entries', size')
  BY SizeAppend DEF SizeInv, BufferTypeOK
<1>4. QED
  BY <1>1, <1>2, <1>3 DEF SizeInv, BufferTypeOK

\* The oldest entry goes, dropped or popped.
LEMMA SizeInvShrink ==
  ASSUME SizeInv, entries # << >>,
         entries' = Tail(entries), size' = size - Weight(Head(entries))
  PROVE  /\ entries' \in Seq(Texts) /\ size' \in Nat /\ SizeIs(entries', size')
         /\ size' <= size
<1>1. entries' \in Seq(Texts) /\ Head(entries) = entries[1] /\ 1 \in 1 .. Len(entries)
  BY HeadTailProperties, EmptySeq DEF SizeInv, BufferTypeOK
<1>2. Weight(Head(entries)) \in Nat
  BY <1>1, WeightIsNat DEF SizeInv, BufferTypeOK
<1>3. size' \in Nat /\ SizeIs(entries', size')
  BY SizeTail DEF SizeInv, BufferTypeOK
<1>4. QED
  BY <1>1, <1>2, <1>3 DEF SizeInv, BufferTypeOK

\* A call returns, the queue and the file being as they were.
LEMMA SizeInvReturn ==
  ASSUME SizeInv, size <= MaxBytes, Return, UNCHANGED <<memVars, fileVars, histVars>>
  PROVE  SizeInv'
<1>1. /\ entries' = entries /\ size' = size /\ lines' = lines /\ tail' = tail
      /\ owed' = owed /\ evicted' = evicted /\ torn' = torn
  BY DEF memVars, fileVars, histVars
<1>2. BufferTypeOK'
  BY <1>1 DEF Return, SizeInv, BufferTypeOK, BufferPCs
<1>3. SizeIs(entries', size')
  BY <1>1 DEF SizeInv
<1>4. CapRespected' /\ CallInv'
  BY <1>1 DEF Return, CapRespected, CallInv
<1>5. QED
  BY <1>2, <1>3, <1>4 DEF SizeInv

LEMMA SizeInvStep == SizeInv /\ [BufferNext]_bufVars => SizeInv'
<1> SUFFICES ASSUME SizeInv, [BufferNext]_bufVars PROVE SizeInv'
  OBVIOUS
<1> USE DEF SizeInv, BufferTypeOK, BufferPCs, CapRespected, CallInv,
            memVars, fileVars, callVars, histVars
<1>1. CASE Open
  BY <1>1 DEF Open
<1>2. CASE LoadLine
  <2>1. FileLines[cursor + 1] \in Texts
    BY <1>2, FileLinesType, ElementOfSeq DEF LoadLine
  <2>2. entries' \in Seq(Texts) /\ size' \in Nat /\ SizeIs(entries', size')
    BY <1>2, <2>1, SizeInvGrow DEF LoadLine
  <2>3. QED
    BY <1>2, <2>2 DEF LoadLine
<1>3. CASE LoadEnd
  BY <1>3 DEF LoadEnd
<1>4. CASE DropOldest
  <2>1. /\ entries' \in Seq(Texts) /\ size' \in Nat /\ SizeIs(entries', size')
    BY <1>4, SizeInvShrink DEF DropOldest, OverCap
  <2>2. QED
    BY <1>4, <2>1 DEF DropOldest
<1>5. CASE TrimEnd
  <2>1. size <= MaxBytes
    BY <1>5, SizeEmpty, BufferAssumption DEF TrimEnd, OverCap
  <2>2. CASE dropped
    BY <1>5, <2>1, <2>2 DEF TrimEnd
  <2>3. CASE ~dropped
    BY <1>5, <2>1, <2>3, SizeInvReturn DEF TrimEnd
  <2>4. QED
    BY <2>2, <2>3
<1>6. CASE Rewrite
  BY <1>6, EmptyIsText DEF Rewrite, Return
<1>7. CASE AppendWrite
  <2>1. lines' \in Seq(Texts)
    BY <1>7, PayloadIsText, GlueIsText, AppendProperties DEF AppendWrite
  <2>2. QED
    BY <1>7, <2>1, EmptyIsText DEF AppendWrite
<1>8. CASE AppendClose
  <2>1. entries' \in Seq(Texts) /\ size' \in Nat /\ SizeIs(entries', size')
    BY <1>8, PayloadIsText, SizeInvGrow DEF AppendClose
  <2>2. QED
    BY <1>8, <2>1 DEF AppendClose
<1>9. CASE LoadFails
  BY <1>9, SizeInvDie DEF LoadFails
<1>10. CASE RewriteFails
  <2>1. CASE caller = "load"
    BY <1>10, <2>1, SizeInvDie DEF RewriteFails
  <2>2. CASE caller # "load"
    BY <1>10, <2>2, SizeInvReturn DEF RewriteFails
  <2>3. QED
    BY <2>1, <2>2
<1>11. CASE AppendOpenFails \/ AppendCloseFails
  BY <1>11, SizeInvReturn DEF AppendOpenFails, AppendCloseFails
<1>12. ASSUME NEW n \in Nat, AppendShort(n) PROVE SizeInv'
  <2>1. n \in Nat \ {0}
    BY <1>12, BufferAssumption DEF AppendShort
  <2>2. tail' \in Texts
    BY <1>12, <2>1, PrefixIsText, GlueIsText DEF AppendShort
  <2>3. QED
    BY <1>12, <2>2 DEF AppendShort, Return
<1>13. ASSUME NEW h \in Heartbeats, AppendCall(h) PROVE SizeInv'
  BY <1>13 DEF AppendCall
<1>14. CASE Pop
  <2>1. /\ entries' \in Seq(Texts) /\ size' \in Nat /\ SizeIs(entries', size')
        /\ size' <= size
    BY <1>14, SizeInvShrink DEF Pop
  <2>2. QED
    BY <1>14, <2>1, BufferAssumption DEF Pop
<1>15. CASE PersistCall
  BY <1>15 DEF PersistCall
<1>16. CASE Exit \/ Crash
  BY <1>16, SizeInvDie DEF Exit, Crash
<1>17. CASE UNCHANGED bufVars
  BY <1>17 DEF bufVars
<1>18. QED
  BY <1>1, <1>2, <1>3, <1>4, <1>5, <1>6, <1>7, <1>8, <1>9, <1>10, <1>11, <1>12,
     <1>13, <1>14, <1>15, <1>16, <1>17
  DEF BufferNext, ClientAppends, AllButAppends, BufferStep, BufferFault

LEMMA SizeInvAlways == BufferSpec => []SizeInv
BY SizeInvInit, SizeInvStep, PTL DEF BufferSpec

\* Every variable of the buffer has its type; in particular size, which the
\* code only ever adjusts, never goes below zero (buffer.go:113, 146).
THEOREM BufferTypeCorrect == BufferSpec => []BufferTypeOK
<1>1. SizeInv => BufferTypeOK
  BY DEF SizeInv
<1>2. QED
  BY <1>1, SizeInvAlways, PTL

\* buffer.go:141-151: whatever fails, and after any number of restarts, the
\* queue is within the cap between two calls.
THEOREM BufferCapRespected == BufferSpec => []CapRespected
<1>1. SizeInv => CapRespected
  BY DEF SizeInv
<1>2. QED
  BY <1>1, SizeInvAlways, PTL

\* buffer.go:21: at every step size is the sum of the entries' weights.
THEOREM BufferSizeAccurate == BufferSpec => []SizeAccurate
<1>1. SizeInv => SizeAccurate
  BY TotalWeightIsSize DEF SizeInv, BufferTypeOK, SizeAccurate
<1>2. QED
  BY <1>1, SizeInvAlways, PTL

(***************************************************************************)
(* Durability, when no write stops in the middle of a line.                *)
(***************************************************************************)

\* While the file is being read, the queue is the part of it read so far.
LoadedSoFar ==
  /\ cursor <= Len(lines) /\ Len(entries) = cursor
  /\ \A i \in 1 .. cursor : entries[i] = lines[i]

InFile  == \A h \in owed : Payload(h) \in Range(lines)
InQueue == \A h \in owed : Payload(h) \in Range(entries)

\* Durable says what the file holds; it is inductive only together with what
\* the queue holds, from which the file is rewritten, and with the line of an
\* Append that has written it but not yet returned.
DurInv ==
  /\ SizeInv
  /\ tail = Empty
  /\ InFile
  /\ bpc \notin {"down", "load"} => InQueue
  /\ bpc = "load" => LoadedSoFar
  /\ bpc = "close" => Payload(arg) \in Range(lines)

LEMMA DurInvInit == BufferInit => DurInv
BY SizeInvInit DEF BufferInit, DurInv, InFile, InQueue, LoadedSoFar

\* The head leaves the queue, and with it only heartbeats that are in it.
LEMMA DurInvShrink ==
  ASSUME SizeInv, InFile, InQueue, entries # << >>,
         entries' = Tail(entries), owed' = owed \ HeartbeatsIn(Head(entries)),
         lines' = lines
  PROVE  InFile' /\ InQueue'
<1>1. InFile'
  BY DEF InFile
<1>2. ASSUME NEW h \in owed' PROVE Payload(h) \in Range(entries')
  <2>1. h \in Heartbeats /\ Payload(h) \in Range(entries)
    BY DEF SizeInv, BufferTypeOK, InQueue
  <2>2. Payload(h) # Head(entries)
    BY <2>1, PayloadHoldsItself
  <2>3. QED
    BY <2>1, <2>2, RangeTail DEF SizeInv, BufferTypeOK
<1>3. QED
  BY <1>1, <1>2 DEF InQueue

\* A step from a state that DurInv describes leads to another, or it is the
\* write that stops in the middle of a line.
LEMMA DurInvStep == DurInv /\ [BufferNext]_bufVars => DurInv' \/ torn'
<1> SUFFICES ASSUME DurInv, [BufferNext]_bufVars PROVE DurInv' \/ torn'
  OBVIOUS
<1>0. SizeInv'
  BY SizeInvStep DEF DurInv
<1>a. entries \in Seq(Texts) /\ lines \in Seq(Texts) /\ FileLines = lines
  BY DEF DurInv, SizeInv, BufferTypeOK, FileLines
<1> USE DEF memVars, fileVars, callVars, histVars
<1>1. CASE Open
  <2>1. entries = << >> /\ cursor' = 0 /\ Len(lines) \in Nat
    BY <1>1, <1>a, LenProperties DEF Open, DurInv, SizeInv, CallInv
  <2>2. LoadedSoFar'
    BY <1>1, <2>1 DEF Open, LoadedSoFar
  <2>3. QED
    BY <1>0, <1>1, <2>2 DEF Open, DurInv, InFile
<1>2. CASE LoadLine
  <2>1. /\ bpc = "load" /\ bpc' = "load" /\ cursor < Len(lines) /\ cursor' = cursor + 1
        /\ entries' = Append(entries, lines[cursor + 1])
        /\ lines' = lines /\ tail' = tail /\ owed' = owed /\ arg' = arg
    BY <1>2, <1>a DEF LoadLine
  <2>2. LoadedSoFar /\ cursor \in Nat /\ Len(lines) \in Nat
    BY <2>1, <1>a, LenProperties DEF DurInv, SizeInv, BufferTypeOK
  <2>3. lines[cursor + 1] \in Texts
    BY <1>a, <2>1, <2>2, ElementOfSeq
  <2>4. /\ Len(entries') = Len(entries) + 1
        /\ \A i \in 1 .. Len(entries) : entries'[i] = entries[i]
        /\ entries'[Len(entries) + 1] = lines[cursor + 1]
    BY <1>a, <2>1, <2>3, AppendProperties
  <2>5. LoadedSoFar'
    BY <2>1, <2>2, <2>4 DEF LoadedSoFar
  <2>6. QED
    BY <1>0, <2>1, <2>5 DEF DurInv, InFile
<1>3. CASE LoadEnd
  <2>1. LoadedSoFar /\ cursor = Len(lines)
    BY <1>3, <1>a DEF LoadEnd, DurInv
  <2>2. Range(entries) = Range(lines)
    BY <1>a, <2>1, RangeEquality DEF LoadedSoFar
  <2>3. InQueue
    BY <2>2 DEF DurInv, InFile, InQueue
  <2>4. QED
    BY <1>0, <1>3, <2>3 DEF LoadEnd, DurInv, InFile, InQueue
<1>4. CASE DropOldest
  <2>1. InFile' /\ InQueue'
    BY <1>4, DurInvShrink DEF DropOldest, OverCap, DurInv
  <2>2. QED
    BY <1>0, <1>4, <2>1 DEF DropOldest, DurInv
<1>5. CASE TrimEnd
  BY <1>0, <1>5 DEF TrimEnd, Return, DurInv, InFile, InQueue
<1>6. CASE Rewrite
  BY <1>0, <1>6 DEF Rewrite, Return, DurInv, InFile, InQueue
<1>7. CASE AppendWrite
  <2>1. arg \in Heartbeats /\ Payload(arg) \in Texts
    BY <1>7, PayloadIsText DEF AppendWrite, DurInv, SizeInv, CallInv
  <2>2. Glue(tail, Payload(arg)) = Payload(arg)
    BY <2>1, GlueToEmpty DEF DurInv
  <2>3. lines' = Append(lines, Payload(arg))
    BY <1>7, <2>2 DEF AppendWrite
  <2>4. Range(lines') = Range(lines) \cup {Payload(arg)}
    BY <1>a, <2>1, <2>3, RangeAppend
  <2>5. QED
    BY <1>0, <1>7, <2>4 DEF AppendWrite, DurInv, InFile, InQueue
<1>8. CASE AppendClose
  <2>1. arg \in Heartbeats /\ Payload(arg) \in Texts
    BY <1>8, PayloadIsText DEF AppendClose, DurInv, SizeInv, CallInv
  <2>2. Range(entries') = Range(entries) \cup {Payload(arg)}
    BY <1>8, <1>a, <2>1, RangeAppend DEF AppendClose
  <2>3. QED
    BY <1>0, <1>8, <2>2 DEF AppendClose, DurInv, InFile, InQueue
<1>9. CASE LoadFails \/ Exit \/ Crash
  BY <1>0, <1>9 DEF LoadFails, Exit, Crash, Die, DurInv, InFile
<1>10. CASE RewriteFails
  <2>1. CASE Die
    BY <1>0, <2>1 DEF Die, DurInv, InFile
  <2>2. CASE Return /\ UNCHANGED <<memVars, fileVars, histVars>>
    BY <1>0, <1>10, <2>2 DEF RewriteFails, Return, DurInv, InFile, InQueue
  <2>3. QED
    BY <1>10, <2>1, <2>2 DEF RewriteFails
<1>11. CASE AppendOpenFails \/ AppendCloseFails
  BY <1>0, <1>11 DEF AppendOpenFails, AppendCloseFails, Return, DurInv, InFile, InQueue
<1>12. ASSUME NEW n, AppendShort(n) PROVE torn'
  BY <1>12 DEF AppendShort
<1>13. ASSUME NEW h \in Heartbeats, AppendCall(h) PROVE DurInv'
  BY <1>0, <1>13 DEF AppendCall, DurInv, InFile, InQueue
<1>14. CASE Pop
  <2>1. InFile' /\ InQueue'
    BY <1>14, DurInvShrink DEF Pop, DurInv
  <2>2. QED
    BY <1>0, <1>14, <2>1 DEF Pop, DurInv
<1>15. CASE PersistCall
  BY <1>0, <1>15 DEF PersistCall, DurInv, InFile, InQueue
<1>16. CASE UNCHANGED bufVars
  BY <1>0, <1>16 DEF bufVars, DurInv, InFile, InQueue, LoadedSoFar
<1>17. QED
  BY <1>1, <1>2, <1>3, <1>4, <1>5, <1>6, <1>7, <1>8, <1>9, <1>10, <1>11, <1>12,
     <1>13, <1>14, <1>15, <1>16
  DEF BufferNext, ClientAppends, AllButAppends, BufferStep, BufferFault

\* A file once torn is remembered as such: no step takes it back.
LEMMA TornStays == torn /\ [BufferNext]_bufVars => torn'
<1> USE DEF memVars, fileVars, callVars, histVars, Return, Die
<1> SUFFICES ASSUME torn, [BufferNext]_bufVars PROVE torn'
  OBVIOUS
<1>1. CASE Open \/ BufferStep
  BY <1>1 DEF Open, BufferStep, LoadLine, LoadEnd, DropOldest, TrimEnd, Rewrite,
              AppendWrite, AppendClose
<1>2. CASE LoadFails \/ RewriteFails \/ AppendOpenFails \/ AppendCloseFails
  BY <1>2 DEF LoadFails, RewriteFails, AppendOpenFails, AppendCloseFails
<1>3. ASSUME NEW n, AppendShort(n) PROVE torn'
  BY <1>3 DEF AppendShort
<1>4. ASSUME NEW h \in Heartbeats, AppendCall(h) PROVE torn'
  BY <1>4 DEF AppendCall
<1>5. CASE Pop \/ PersistCall \/ Exit \/ Crash
  BY <1>5 DEF Pop, PersistCall, Exit, Crash
<1>6. CASE UNCHANGED bufVars
  BY <1>6 DEF bufVars
<1>7. QED
  BY <1>1, <1>2, <1>3, <1>4, <1>5, <1>6
  DEF BufferNext, ClientAppends, AllButAppends, BufferFault

LEMMA DurInvAlways == BufferSpec => [](torn \/ DurInv)
<1>1. BufferInit => torn \/ DurInv
  BY DurInvInit
<1>2. (torn \/ DurInv) /\ [BufferNext]_bufVars => (torn \/ DurInv)'
  BY DurInvStep, TornStays
<1>3. QED
  BY <1>1, <1>2, PTL DEF BufferSpec

\* buffer.go:13-15: as long as no write has stopped in the middle of a line, the
\* file always holds every heartbeat that was appended and neither popped nor
\* dropped to fit, whatever else fails and whenever the process dies.
THEOREM BufferDurable == BufferSpec => []Durable
<1>1. torn \/ DurInv => Durable
  BY DEF DurInv, Durable, OnDisk, InFile, FileLines
<1>2. QED
  BY <1>1, DurInvAlways, PTL

\* buffer.go:13-15: under the same condition, a queue that is ready for a call
\* holds every heartbeat it owes, after any number of restarts.
THEOREM BufferRecovered == BufferSpec => []Recovered
<1>1. torn \/ DurInv => Recovered
  BY DEF DurInv, Recovered, InQueue
<1>2. QED
  BY <1>1, DurInvAlways, PTL
(***************************************************************************)
(* What a torn write does not destroy.                                     *)
(***************************************************************************)

\* While the file is being read, the queue is the part of it read so far, an
\* unterminated last line included.
ReadSoFar ==
  /\ cursor <= Len(FileLines) /\ Len(entries) = cursor
  /\ \A i \in 1 .. cursor : entries[i] = FileLines[i]

\* h's complete bytes are in some line of s.
Holds(s, h) == \E t \in Range(s) : h \in HeartbeatsIn(t)

\* BytesKept speaks of the file; what goes into the file comes from the queue,
\* and an Append's line is in it before the heartbeat is owed.
BytesInv ==
  /\ SizeInv
  /\ \A h \in owed : Holds(FileLines, h)
  /\ bpc \notin {"down", "load"} => \A h \in owed : Holds(entries, h)
  /\ bpc = "load" => ReadSoFar
  /\ bpc = "close" => Holds(FileLines, arg)

LEMMA GlueKeepsBoth ==
  ASSUME NEW s \in Texts, NEW t \in Texts
  PROVE  HeartbeatsIn(Glue(s, t)) = HeartbeatsIn(s) \cup HeartbeatsIn(t)
<1>1. Range(s.frags \o t.frags) = Range(s.frags) \cup Range(t.frags)
  BY RangeConcatenation DEF Texts
<1>2. Glue(s, t).frags = s.frags \o t.frags
  BY DEF Glue
<1>3. QED
  BY <1>1, <1>2 DEF HeartbeatsIn

LEMMA HoldsAfterAppend ==
  ASSUME NEW s \in Seq(Texts), NEW t \in Texts, NEW h
  PROVE  Holds(Append(s, t), h) <=> Holds(s, h) \/ h \in HeartbeatsIn(t)
BY RangeAppend DEF Holds

LEMMA HoldsAfterTail ==
  ASSUME NEW s \in Seq(Texts), s # << >>, NEW h, Holds(s, h), h \notin HeartbeatsIn(Head(s))
  PROVE  Holds(Tail(s), h)
BY RangeTail DEF Holds

\* Whatever is written behind the end of the file, all that was in it stays.
LEMMA HoldsAfterWrite ==
  ASSUME BufferTypeOK, NEW t \in Texts, NEW h
  PROVE  Holds(Append(lines, Glue(tail, t)), h) <=> Holds(FileLines, h) \/ h \in HeartbeatsIn(t)
<1>1. lines \in Seq(Texts) /\ tail \in Texts /\ Glue(tail, t) \in Texts
  BY GlueIsText DEF BufferTypeOK
<1>2. HeartbeatsIn(Glue(tail, t)) = HeartbeatsIn(tail) \cup HeartbeatsIn(t)
  BY <1>1, GlueKeepsBoth
<1>3. CASE tail = Empty
  <2>1. HeartbeatsIn(Empty) = {}
    BY DEF HeartbeatsIn, Empty, Range
  <2>2. QED
    BY <1>1, <1>2, <1>3, <2>1, HoldsAfterAppend DEF FileLines
<1>4. CASE tail # Empty
  BY <1>1, <1>2, <1>4, HoldsAfterAppend DEF FileLines
<1>5. QED
  BY <1>3, <1>4

LEMMA BytesInvStep == BytesInv /\ [BufferNext]_bufVars => BytesInv'
<1> SUFFICES ASSUME BytesInv, [BufferNext]_bufVars PROVE BytesInv'
  OBVIOUS
<1> USE DEF memVars, fileVars, callVars, histVars
<1>0. SizeInv'
  BY SizeInvStep DEF BytesInv
<1>a. BufferTypeOK /\ entries \in Seq(Texts) /\ FileLines \in Seq(Texts)
  BY FileLinesType DEF BytesInv, SizeInv, BufferTypeOK
<1>b. lines' = lines /\ tail' = tail => FileLines' = FileLines
  BY DEF FileLines
<1>1. CASE Open
  <2>1. entries = << >> /\ cursor' = 0 /\ Len(FileLines) \in Nat
    BY <1>1, <1>a, LenProperties DEF Open, BytesInv, SizeInv, CallInv
  <2>2. ReadSoFar'
    BY <1>1, <1>b, <2>1 DEF Open, ReadSoFar
  <2>3. QED
    BY <1>0, <1>1, <1>b, <2>2 DEF Open, BytesInv
<1>2. CASE LoadLine
  <2>1. /\ bpc = "load" /\ bpc' = "load" /\ cursor < Len(FileLines) /\ cursor' = cursor + 1
        /\ entries' = Append(entries, FileLines[cursor + 1])
        /\ lines' = lines /\ tail' = tail /\ owed' = owed /\ arg' = arg
    BY <1>2 DEF LoadLine
  <2>2. ReadSoFar /\ cursor \in Nat /\ Len(FileLines) \in Nat
    BY <2>1, <1>a, LenProperties DEF BytesInv, BufferTypeOK
  <2>3. FileLines[cursor + 1] \in Texts
    BY <1>a, <2>1, <2>2, ElementOfSeq
  <2>4. /\ Len(entries') = Len(entries) + 1
        /\ \A i \in 1 .. Len(entries) : entries'[i] = entries[i]
        /\ entries'[Len(entries) + 1] = FileLines[cursor + 1]
    BY <1>a, <2>1, <2>3, AppendProperties
  <2>5. ReadSoFar'
    BY <1>b, <2>1, <2>2, <2>4 DEF ReadSoFar
  <2>6. QED
    BY <1>0, <1>b, <2>1, <2>5 DEF BytesInv
<1>3. CASE LoadEnd
  <2>1. ReadSoFar /\ cursor = Len(FileLines)
    BY <1>3 DEF LoadEnd, BytesInv
  <2>2. Range(entries) = Range(FileLines)
    BY <1>a, <2>1, RangeEquality DEF ReadSoFar
  <2>3. QED
    BY <1>0, <1>3, <1>b, <2>2 DEF LoadEnd, BytesInv, Holds
<1>4. CASE DropOldest \/ Pop
  <2>1. /\ entries # << >> /\ entries' = Tail(entries) /\ bpc' = bpc /\ bpc \in {"trim", "idle"}
        /\ owed' = owed \ HeartbeatsIn(Head(entries)) /\ lines' = lines /\ tail' = tail
    BY <1>4 DEF DropOldest, OverCap, Pop
  <2>2. \A h \in owed' : Holds(entries', h)
    BY <1>a, <2>1, HoldsAfterTail DEF BytesInv
  <2>3. QED
    BY <1>0, <1>b, <2>1, <2>2 DEF BytesInv
<1>5. CASE TrimEnd \/ AppendOpenFails \/ AppendCloseFails \/ PersistCall
  BY <1>0, <1>5, <1>b
  DEF TrimEnd, AppendOpenFails, AppendCloseFails, PersistCall, Return, BytesInv, Holds
<1>6. CASE Rewrite
  <2>1. FileLines' = entries
    BY <1>6 DEF Rewrite, FileLines
  <2>2. QED
    BY <1>0, <1>6, <2>1 DEF Rewrite, Return, BytesInv, Holds
<1>7. CASE AppendWrite
  <2>1. arg \in Heartbeats /\ Payload(arg) \in Texts
    BY <1>7, PayloadIsText DEF AppendWrite, BytesInv, SizeInv, CallInv
  <2>2. /\ FileLines' = Append(lines, Glue(tail, Payload(arg)))
        /\ owed' = owed /\ entries' = entries /\ arg' = arg /\ bpc' = "close" /\ bpc = "append"
    BY <1>7 DEF AppendWrite, FileLines
  <2>3. \A h : Holds(FileLines', h) <=> Holds(FileLines, h) \/ h \in HeartbeatsIn(Payload(arg))
    BY <1>a, <2>1, <2>2, HoldsAfterWrite
  <2>4. Holds(FileLines', arg)
    BY <2>1, <2>3, PayloadHoldsItself
  <2>5. QED
    BY <1>0, <2>2, <2>3, <2>4 DEF BytesInv
<1>8. CASE AppendClose
  <2>1. arg \in Heartbeats /\ Payload(arg) \in Texts
    BY <1>8, PayloadIsText DEF AppendClose, BytesInv, SizeInv, CallInv
  <2>2. \A h : Holds(entries', h) <=> Holds(entries, h) \/ h \in HeartbeatsIn(Payload(arg))
    BY <1>8, <1>a, <2>1, HoldsAfterAppend DEF AppendClose
  <2>3. /\ Holds(entries', arg) /\ bpc = "close" /\ bpc' = "trim" /\ owed' = owed \cup {arg}
        /\ FileLines' = FileLines
    BY <1>8, <1>b, <2>1, <2>2, PayloadHoldsItself DEF AppendClose
  <2>4. QED
    BY <1>0, <2>2, <2>3 DEF BytesInv
<1>9. CASE LoadFails \/ Exit \/ Crash
  BY <1>0, <1>9, <1>b DEF LoadFails, Exit, Crash, Die, BytesInv
<1>10. CASE RewriteFails
  <2>1. CASE Die
    BY <1>0, <1>b, <2>1 DEF Die, BytesInv
  <2>2. CASE Return /\ UNCHANGED <<memVars, fileVars, histVars>>
    BY <1>0, <1>b, <1>10, <2>2 DEF RewriteFails, Return, BytesInv, Holds
  <2>3. QED
    BY <1>10, <2>1, <2>2 DEF RewriteFails
<1>11. ASSUME NEW n, AppendShort(n) PROVE BytesInv'
  <2>1. /\ arg \in Heartbeats /\ n \in Nat \ {0} /\ bpc = "append" /\ bpc' = "idle"
        /\ tail' = Glue(tail, Prefix(arg, n)) /\ lines' = lines
        /\ owed' = owed /\ entries' = entries
    BY <1>11, BufferAssumption DEF AppendShort, Return, BytesInv, SizeInv, CallInv
  <2>2. Prefix(arg, n) \in Texts
    BY <2>1, PrefixIsText
  <2>3. tail' # Empty
    <3>1. tail'.len = tail.len + n /\ tail.len \in Nat
      BY <1>a, <2>1 DEF Glue, Prefix, BufferTypeOK, Texts
    <3>2. QED
      BY <2>1, <3>1 DEF Empty
  <2>4. FileLines' = Append(lines, Glue(tail, Prefix(arg, n)))
    BY <2>1, <2>3 DEF FileLines
  <2>5. \A h : Holds(FileLines, h) => Holds(FileLines', h)
    BY <1>a, <2>2, <2>4, HoldsAfterWrite
  <2>6. QED
    BY <1>0, <2>1, <2>5 DEF BytesInv, Holds
<1>12. ASSUME NEW h \in Heartbeats, AppendCall(h) PROVE BytesInv'
  BY <1>0, <1>12, <1>b DEF AppendCall, BytesInv, Holds
<1>13. CASE UNCHANGED bufVars
  BY <1>0, <1>13, <1>b DEF bufVars, BytesInv, Holds, ReadSoFar
<1>14. QED
  BY <1>1, <1>2, <1>3, <1>4, <1>5, <1>6, <1>7, <1>8, <1>9, <1>10, <1>11, <1>12, <1>13
  DEF BufferNext, ClientAppends, AllButAppends, BufferStep, BufferFault

LEMMA BytesInvAlways == BufferSpec => []BytesInv
<1>1. BufferInit => BytesInv
  BY SizeInvInit DEF BufferInit, BytesInv
<1>2. QED
  BY <1>1, BytesInvStep, PTL DEF BufferSpec

\* buffer.go:78 and 86-89: even after writes that stopped in the middle of a
\* line, the complete bytes of every heartbeat owed are somewhere in the file.
THEOREM BufferBytesKept == BufferSpec => []BytesKept
<1>1. BytesInv => BytesKept
  BY DEF BytesInv, BytesKept, Holds
<1>2. QED
  BY <1>1, BytesInvAlways, PTL

(***************************************************************************)
(* The order of the file and of the queue, and the durable queue.          *)
(***************************************************************************)

\* A line that is read or written is never empty.
NonEmpty == {t \in Texts : t.frags # << >>}

\* No line begins with a heartbeat built after h.
NoneStartsAfter(h, s) == \A t \in Range(s) : FirstIn(t) <= h

\* The order of the file and that of the queue depend on each other; and while a
\* heartbeat is being appended, neither has a later one.
OrderInv ==
  /\ SizeInv
  /\ entries \in Seq(NonEmpty) /\ lines \in Seq(NonEmpty) /\ tail \in NonEmpty \cup {Empty}
  /\ InOrder(entries) /\ InOrder(FileLines)
  /\ bpc = "load" => ReadSoFar
  /\ bpc \in {"append", "close"} => NoneStartsAfter(arg, entries)
  /\ bpc = "append" => NoneStartsAfter(arg, FileLines)

----------------------------------------------------------------------------
\* Sequences of lines

LEMMA FirstIsHeartbeat ==
  ASSUME NEW t \in NonEmpty
  PROVE  /\ 1 \in DOMAIN t.frags
         /\ FirstIn(t) \in Heartbeats /\ FirstIn(t) \in Nat
<1>1. t.frags \in Seq(Fragments) /\ t.frags # << >>
  BY DEF NonEmpty, Texts
<1>2. 1 \in DOMAIN t.frags /\ t.frags[1] \in Fragments
  BY <1>1, EmptySeq, LenProperties, ElementOfSeq
<1>3. QED
  BY <1>2 DEF FirstIn, Fragments, Heartbeats

LEMMA InOrderAppend ==
  ASSUME NEW s \in Seq(NonEmpty), NEW t \in NonEmpty
  PROVE  InOrder(Append(s, t)) <=> InOrder(s) /\ NoneStartsAfter(FirstIn(t), s)
<1>1. /\ DOMAIN Append(s, t) = 1 .. Len(s) + 1 /\ Len(s) \in Nat /\ DOMAIN s = 1 .. Len(s)
      /\ \A i \in 1 .. Len(s) : Append(s, t)[i] = s[i]
      /\ Append(s, t)[Len(s) + 1] = t
  BY AppendProperties, LenProperties
<1>2. Range(s) = {s[i] : i \in 1 .. Len(s)}
  BY RangeEquality
<1>3. ASSUME InOrder(Append(s, t))
      PROVE  InOrder(s) /\ NoneStartsAfter(FirstIn(t), s)
  <2>1. ASSUME NEW i \in DOMAIN s, NEW j \in DOMAIN s, i < j
        PROVE  FirstIn(s[i]) <= FirstIn(s[j])
    BY <1>1, <1>3, <2>1 DEF InOrder
  <2>2. ASSUME NEW i \in 1 .. Len(s)
        PROVE  FirstIn(s[i]) <= FirstIn(t)
    BY <1>1, <1>3 DEF InOrder
  <2>3. QED
    BY <1>2, <2>1, <2>2 DEF InOrder, NoneStartsAfter
<1>4. ASSUME InOrder(s), NoneStartsAfter(FirstIn(t), s),
             NEW i \in 1 .. Len(s) + 1, NEW j \in 1 .. Len(s) + 1, i < j
      PROVE  FirstIn(Append(s, t)[i]) <= FirstIn(Append(s, t)[j])
  <2>1. i \in 1 .. Len(s) /\ Append(s, t)[i] = s[i]
    BY <1>1, <1>4
  <2>2. CASE j \in 1 .. Len(s)
    BY <1>1, <1>4, <2>1, <2>2 DEF InOrder
  <2>3. CASE j = Len(s) + 1
    BY <1>1, <1>2, <1>4, <2>1, <2>3 DEF NoneStartsAfter
  <2>4. QED
    BY <1>1, <2>2, <2>3
<1>5. QED
  BY <1>1, <1>3, <1>4 DEF InOrder

LEMMA InOrderTail ==
  ASSUME NEW s \in Seq(NonEmpty), s # << >>, InOrder(s)
  PROVE  Tail(s) \in Seq(NonEmpty) /\ InOrder(Tail(s))
<1>1. /\ Tail(s) \in Seq(NonEmpty) /\ Len(Tail(s)) = Len(s) - 1 /\ Len(s) \in Nat
      /\ \A i \in 1 .. Len(Tail(s)) : Tail(s)[i] = s[i + 1]
      /\ DOMAIN Tail(s) = 1 .. Len(Tail(s)) /\ DOMAIN s = 1 .. Len(s)
  BY HeadTailProperties, LenProperties
<1>2. QED
  BY <1>1 DEF InOrder

LEMMA FileIsNonEmpty ==
  ASSUME lines \in Seq(NonEmpty), tail \in NonEmpty \cup {Empty}
  PROVE  FileLines \in Seq(NonEmpty)
BY AppendProperties DEF FileLines

\* A write continues the last line if it is unterminated, else begins one.
LEMMA FirstWritten ==
  ASSUME tail \in NonEmpty \cup {Empty}, arg \in Heartbeats, NEW n \in Nat \ {0}
  PROVE  /\ Glue(tail, Prefix(arg, n)) \in NonEmpty
         /\ FirstIn(Glue(tail, Prefix(arg, n))) = IF tail = Empty THEN arg ELSE FirstIn(tail)
<1> DEFINE f == [hb |-> arg, n |-> n]
           g == Glue(tail, Prefix(arg, n))
<1>1. f \in Fragments /\ tail \in Texts /\ Prefix(arg, n) \in Texts
  BY PrefixIsText, EmptyIsText DEF NonEmpty, Fragments
<1>2. g.frags = tail.frags \o << f >> /\ tail.frags \in Seq(Fragments) /\ g \in Texts
  BY <1>1, GlueIsText DEF Glue, Prefix, Texts
<1>3. g \in NonEmpty
  <2>1. Len(g.frags) # 0 /\ g.frags # << >>
    BY <1>1, <1>2
  <2>2. QED
    BY <1>2, <2>1 DEF NonEmpty
<1>4. CASE tail = Empty
  <2>1. g.frags[1] = f
    BY <1>1, <1>2, <1>4 DEF Empty
  <2>2. QED
    BY <1>3, <1>4, <2>1 DEF FirstIn
<1>5. CASE tail # Empty
  <2>1. tail \in NonEmpty
    BY <1>5
  <2>2. g.frags[1] = tail.frags[1]
    BY <1>1, <1>2, <2>1, FirstIsHeartbeat
  <2>3. QED
    BY <1>3, <1>5, <2>2 DEF FirstIn
<1>6. QED
  BY <1>4, <1>5

LEMMA WriteInOrder ==
  ASSUME OrderInv, bpc = "append", NEW n \in Nat \ {0}
  PROVE  /\ Glue(tail, Prefix(arg, n)) \in NonEmpty
         /\ InOrder(Append(lines, Glue(tail, Prefix(arg, n))))
<1> DEFINE g == Glue(tail, Prefix(arg, n))
<1>1. /\ g \in NonEmpty
      /\ FirstIn(g) = IF tail = Empty THEN arg ELSE FirstIn(tail)
  BY FirstWritten DEF OrderInv, SizeInv, CallInv
<1>2. CASE tail = Empty
  <2>1. FirstIn(g) = arg /\ FileLines = lines
    BY <1>1, <1>2 DEF FileLines
  <2>2. QED
    BY <1>1, <2>1, InOrderAppend DEF OrderInv
<1>3. CASE tail # Empty
  <2>1. tail \in NonEmpty /\ FileLines = Append(lines, tail) /\ FirstIn(g) = FirstIn(tail)
    BY <1>1, <1>3 DEF OrderInv, FileLines
  <2>2. InOrder(lines) /\ NoneStartsAfter(FirstIn(tail), lines)
    BY <2>1, InOrderAppend DEF OrderInv
  <2>3. QED
    BY <1>1, <2>1, <2>2, InOrderAppend DEF OrderInv
<1>4. QED
  BY <1>2, <1>3

----------------------------------------------------------------------------
\* The invariant

LEMMA OrderStarts == BufferInit => OrderInv
<1> SUFFICES ASSUME BufferInit PROVE OrderInv
  OBVIOUS
<1>1. SizeInv /\ entries = << >> /\ FileLines = << >> /\ lines = << >>
  BY SizeInvInit DEF BufferInit, FileLines
<1>2. << >> \in Seq(NonEmpty) /\ InOrder(<< >>)
  BY EmptySeq DEF InOrder
<1>3. QED
  BY <1>1, <1>2 DEF BufferInit, OrderInv

\* The client appends no heartbeat older than what is in the queue or the file.
LEMMA AppendCallInOrder ==
  ASSUME OrderInv, NEW h \in Heartbeats, Newest(h)
  PROVE  NoneStartsAfter(h, entries) /\ NoneStartsAfter(h, FileLines)
<1>1. FileLines \in Seq(NonEmpty) /\ entries \in Seq(NonEmpty)
  BY FileIsNonEmpty DEF OrderInv
<1>2. Range(entries) \subseteq NonEmpty /\ Range(FileLines) \subseteq NonEmpty
  BY <1>1, RangeOfSeq
<1>3. ASSUME NEW t \in Range(entries) \cup Range(FileLines)
      PROVE  FirstIn(t) <= h
  <2>1. 1 \in DOMAIN t.frags
    BY <1>2, FirstIsHeartbeat
  <2>2. FirstIn(t) \in Nat /\ h \in Nat
    BY <1>2, FirstIsHeartbeat DEF Heartbeats
  <2>3. QED
    BY <2>1, <2>2 DEF Newest, FirstIn
<1>4. QED
  BY <1>3 DEF NoneStartsAfter

\* The rest of the invariant, apart from the accounting of size.
OrderNext ==
  /\ entries' \in Seq(NonEmpty) /\ lines' \in Seq(NonEmpty) /\ tail' \in NonEmpty \cup {Empty}
  /\ InOrder(entries') /\ InOrder(FileLines')
  /\ bpc' = "load" => ReadSoFar'
  /\ bpc' \in {"append", "close"} => NoneStartsAfter(arg', entries')
  /\ bpc' = "append" => NoneStartsAfter(arg', FileLines')

LEMMA OrderStep ==
  ASSUME OrderInv, [BufferNext]_bufVars
  PROVE  OrderNext
<1> USE DEF memVars, fileVars, callVars, histVars
<1>a. entries \in Seq(NonEmpty) /\ lines \in Seq(NonEmpty) /\ FileLines \in Seq(NonEmpty)
  BY FileIsNonEmpty DEF OrderInv
<1>b. lines' = lines /\ tail' = tail => FileLines' = FileLines
  BY DEF FileLines
<1>c. << >> \in Seq(NonEmpty) /\ InOrder(<< >>)
  BY EmptySeq DEF InOrder
<1>1. CASE Open
  <2>1. entries = << >> /\ cursor' = 0 /\ Len(FileLines) \in Nat
    BY <1>1, <1>a, LenProperties DEF Open, OrderInv, SizeInv, CallInv
  <2>2. ReadSoFar'
    BY <1>1, <1>b, <2>1 DEF Open, ReadSoFar
  <2>3. QED
    BY <1>1, <1>b, <2>2 DEF Open, OrderInv, OrderNext
<1>2. CASE LoadLine
  <2>1. /\ bpc = "load" /\ bpc' = "load" /\ cursor < Len(FileLines) /\ cursor' = cursor + 1
        /\ entries' = Append(entries, FileLines[cursor + 1])
        /\ lines' = lines /\ tail' = tail
    BY <1>2 DEF LoadLine
  <2>2. ReadSoFar /\ cursor \in Nat /\ Len(FileLines) \in Nat
    BY <1>a, <2>1, LenProperties DEF OrderInv, SizeInv, BufferTypeOK
  <2>3. FileLines[cursor + 1] \in NonEmpty
    BY <1>a, <2>1, <2>2, ElementOfSeq
  <2>4. /\ entries' \in Seq(NonEmpty) /\ Len(entries') = Len(entries) + 1
        /\ \A i \in 1 .. Len(entries) : entries'[i] = entries[i]
        /\ entries'[Len(entries) + 1] = FileLines[cursor + 1]
    BY <1>a, <2>1, <2>3, AppendProperties
  <2>5. ReadSoFar'
    BY <1>b, <2>1, <2>2, <2>4 DEF ReadSoFar
  <2>6. InOrder(entries')
    <3>1. /\ DOMAIN entries' = 1 .. cursor' /\ cursor' <= Len(FileLines)
          /\ DOMAIN FileLines = 1 .. Len(FileLines)
          /\ \A i \in 1 .. cursor' : entries'[i] = FileLines[i]
      BY <1>a, <1>b, <2>1, <2>4, <2>5, LenProperties DEF ReadSoFar
    <3>2. QED
      BY <2>1, <2>2, <3>1 DEF OrderInv, InOrder
  <2>7. QED
    BY <1>b, <2>1, <2>4, <2>5, <2>6 DEF OrderInv, OrderNext
<1>3. CASE DropOldest \/ Pop
  <2>1. entries' \in Seq(NonEmpty) /\ InOrder(entries')
    BY <1>3, <1>a, InOrderTail DEF DropOldest, OverCap, Pop, OrderInv
  <2>2. QED
    BY <1>3, <1>b, <2>1 DEF DropOldest, Pop, OrderInv, OrderNext
<1>4. CASE LoadEnd \/ TrimEnd \/ PersistCall \/ AppendOpenFails \/ AppendCloseFails
  BY <1>4, <1>b DEF LoadEnd, TrimEnd, PersistCall, AppendOpenFails, AppendCloseFails,
                    Return, OrderInv, OrderNext
<1>5. CASE Rewrite
  <2>1. FileLines' = entries
    BY <1>5 DEF Rewrite, FileLines
  <2>2. QED
    BY <1>5, <1>a, <2>1 DEF Rewrite, Return, OrderInv, OrderNext
<1>6. CASE AppendWrite
  <2>1. arg \in Heartbeats /\ PayloadLen[arg] \in Nat \ {0}
    BY <1>6, BufferAssumption DEF AppendWrite, OrderInv, SizeInv, CallInv
  <2>2. /\ lines' = Append(lines, Glue(tail, Payload(arg))) /\ tail' = Empty
        /\ FileLines' = lines'
    BY <1>6 DEF AppendWrite, FileLines
  <2>3. lines' \in Seq(NonEmpty) /\ InOrder(lines')
    BY <1>6, <1>a, <2>1, <2>2, WriteInOrder, AppendProperties DEF AppendWrite, Payload
  <2>4. QED
    BY <1>6, <2>2, <2>3 DEF AppendWrite, OrderInv, OrderNext
<1>7. ASSUME NEW n, AppendShort(n)
      PROVE  OrderNext
  <2>1. n \in Nat \ {0} /\ bpc = "append" /\ tail' = Glue(tail, Prefix(arg, n)) /\ lines' = lines
    BY <1>7, BufferAssumption DEF AppendShort, OrderInv, SizeInv, CallInv
  <2>2. tail' \in NonEmpty /\ InOrder(Append(lines', tail'))
    BY <2>1, WriteInOrder
  <2>3. tail' # Empty
    BY <2>2 DEF NonEmpty, Empty
  <2>4. FileLines' = Append(lines', tail')
    BY <2>3 DEF FileLines
  <2>5. QED
    BY <1>7, <2>1, <2>2, <2>4 DEF AppendShort, Return, OrderInv, OrderNext
<1>8. CASE AppendClose
  <2>1. arg \in Heartbeats /\ PayloadLen[arg] \in Nat \ {0}
    BY <1>8, BufferAssumption DEF AppendClose, OrderInv, SizeInv, CallInv
  <2>2. Payload(arg) \in NonEmpty /\ FirstIn(Payload(arg)) = arg
    BY <2>1, PayloadIsText DEF NonEmpty, Payload, Prefix, FirstIn
  <2>3. entries' \in Seq(NonEmpty) /\ InOrder(entries')
    BY <1>8, <1>a, <2>2, InOrderAppend, AppendProperties DEF AppendClose, OrderInv
  <2>4. QED
    BY <1>8, <1>b, <2>3 DEF AppendClose, OrderInv, OrderNext
<1>9. CASE LoadFails \/ Exit \/ Crash
  BY <1>9, <1>b, <1>c DEF LoadFails, Exit, Crash, Die, OrderInv, OrderNext
<1>10. CASE RewriteFails
  BY <1>10, <1>b, <1>c DEF RewriteFails, Die, Return, OrderInv, OrderNext
<1>11. ASSUME NEW h \in Heartbeats, Newest(h), AppendCall(h)
       PROVE  OrderNext
  BY <1>11, <1>b, AppendCallInOrder DEF AppendCall, OrderInv, OrderNext
<1>12. CASE UNCHANGED bufVars
  BY <1>12, <1>b DEF bufVars, OrderInv, OrderNext, ReadSoFar
<1>13. QED
  BY <1>1, <1>2, <1>3, <1>4, <1>5, <1>6, <1>7, <1>8, <1>9, <1>10, <1>11, <1>12
  DEF BufferNext, ClientAppends, AllButAppends, BufferStep, BufferFault

LEMMA OrderInductive == OrderInv /\ [BufferNext]_bufVars => OrderInv'
<1> SUFFICES ASSUME OrderInv, [BufferNext]_bufVars PROVE OrderInv'
  OBVIOUS
<1>1. SizeInv'
  BY SizeInvStep DEF OrderInv
<1>2. OrderNext
  BY OrderStep
<1>3. QED
  BY <1>1, <1>2 DEF OrderInv, OrderNext, NoneStartsAfter

\* buffer.go:20: the queue and the file stay in the order in which the heartbeats
\* were built, whatever fails, torn writes included, and across restarts.
THEOREM BufferKeepsOrder == BufferSpec => []OldestFirst
<1>1. OrderInv => OldestFirst
  BY DEF OrderInv, OldestFirst
<1>2. QED
  BY <1>1, OrderStarts, OrderInductive, PTL DEF BufferSpec

(***************************************************************************)
(* The suffixes of a queue, and the longest of them within the cap.        *)
(***************************************************************************)
LEMMA SuffixesOfTail ==
  ASSUME NEW s \in Seq(Texts), s # << >>
  PROVE  Sequence!Suffixes(s) = {s} \cup Sequence!Suffixes(Tail(s))
<1> DEFINE n == Len(s)
           r == Tail(s)
<1>1. n \in Nat /\ n >= 1 /\ r \in Seq(Texts) /\ Len(r) = n - 1
  BY HeadTailProperties, EmptySeq
<1>2. SubSeq(s, 1, n) = s
  BY SubSeqFull
<1>3. ASSUME NEW l \in 2 .. n PROVE SubSeq(s, l, n) = SubSeq(r, l - 1, n - 1)
  <2>1. /\ SubSeq(s, l, n) \in Seq(Texts) /\ Len(SubSeq(s, l, n)) = n - l + 1
        /\ \A i \in 1 .. n - l + 1 : SubSeq(s, l, n)[i] = s[l + i - 1]
    BY <1>1, SubSeqProperties
  <2>2. /\ SubSeq(r, l - 1, n - 1) \in Seq(Texts) /\ Len(SubSeq(r, l - 1, n - 1)) = n - l + 1
        /\ \A i \in 1 .. n - l + 1 : SubSeq(r, l - 1, n - 1)[i] = r[l - 1 + i - 1]
    BY <1>1, SubSeqProperties
  <2>3. \A i \in 1 .. n - l + 1 : r[l - 1 + i - 1] = s[l + i - 1]
    BY <1>1, HeadTailProperties
  <2>4. QED
    BY <2>1, <2>2, <2>3, SeqEqual
<1>4. Sequence!Suffixes(r) = {SubSeq(r, l, n - 1) : l \in 1 .. n - 1} \cup {<< >>}
  BY <1>1 DEF Sequence!Suffixes
<1>5. Sequence!Suffixes(s) = {SubSeq(s, l, n) : l \in 1 .. n} \cup {<< >>}
  BY DEF Sequence!Suffixes
<1>6. {SubSeq(s, l, n) : l \in 2 .. n} = {SubSeq(r, l, n - 1) : l \in 1 .. n - 1}
  <2>1. \A l \in 1 .. n - 1 : l + 1 \in 2 .. n /\ SubSeq(s, l + 1, n) = SubSeq(r, l, n - 1)
    BY <1>1, <1>3
  <2>2. \A l \in 2 .. n : l - 1 \in 1 .. n - 1
    BY <1>1
  <2>3. QED
    BY <1>3, <2>1, <2>2
<1>7. {SubSeq(s, l, n) : l \in 1 .. n} = {s} \cup {SubSeq(s, l, n) : l \in 2 .. n}
  <2>1. 1 .. n = {1} \cup 2 .. n
    BY <1>1
  <2>2. QED
    BY <1>2, <2>1
<1>8. QED
  BY <1>4, <1>5, <1>6, <1>7
LEMMA FullSuffix ==
  ASSUME NEW s \in Seq(Texts)
  PROVE  /\ s \in Sequence!Suffixes(s)
         /\ \A t \in Sequence!Suffixes(s) :
              t \in Seq(Texts) /\ Len(t) <= Len(s) /\ (Len(t) = Len(s) => t = s)
<1>1. Len(s) \in Nat /\ SubSeq(s, 1, Len(s)) = s
  BY SubSeqFull
<1>2. Sequence!Suffixes(s) = {SubSeq(s, l, Len(s)) : l \in 1 .. Len(s)} \cup {<< >>}
  BY DEF Sequence!Suffixes
<1>3. s \in Sequence!Suffixes(s)
  <2>1. CASE s = << >>
    BY <1>2, <2>1
  <2>2. CASE s # << >>
    BY <2>2, SuffixesOfTail
  <2>3. QED
    BY <2>1, <2>2
<1>4. ASSUME NEW l \in 1 .. Len(s)
      PROVE  /\ SubSeq(s, l, Len(s)) \in Seq(Texts)
             /\ Len(SubSeq(s, l, Len(s))) <= Len(s)
             /\ Len(SubSeq(s, l, Len(s))) = Len(s) => SubSeq(s, l, Len(s)) = s
  <2>1. SubSeq(s, l, Len(s)) \in Seq(Texts) /\ Len(SubSeq(s, l, Len(s))) = Len(s) - l + 1
    BY <1>1, SubSeqProperties
  <2>2. QED
    BY <1>1, <2>1
<1>5. << >> \in Seq(Texts) /\ Len(<< >>) <= Len(s) /\ (Len(<< >>) = Len(s) => << >> = s)
  BY <1>1, EmptySeq
<1>6. QED
  BY <1>2, <1>3, <1>4, <1>5

\* A queue within the cap is kept as it is.
LEMMA KeptWhole ==
  ASSUME NEW s \in Seq(Texts), TotalWeight(s) <= MaxBytes
  PROVE  NewestWithinCap(s) = s
<1> DEFINE Longest(x) == \A t \in SuffixesWithinCap(s) : Len(t) <= Len(x)
<1>1. s \in SuffixesWithinCap(s) /\ Longest(s)
  BY FullSuffix DEF SuffixesWithinCap
<1>2. ASSUME NEW x \in SuffixesWithinCap(s), Longest(x) PROVE x = s
  <2>1. Len(s) <= Len(x)
    BY <1>1, <1>2
  <2>2. x \in Sequence!Suffixes(s) /\ x \in Seq(Texts) /\ Len(x) <= Len(s)
    BY FullSuffix DEF SuffixesWithinCap
  <2>3. Len(s) \in Nat /\ Len(x) \in Nat
    BY <2>2, LenProperties
  <2>4. QED
    BY <2>1, <2>2, <2>3, FullSuffix
<1>3. QED
  BY <1>1, <1>2 DEF NewestWithinCap

\* What is kept of a queue over the cap is kept of it without its oldest entry.
LEMMA KeptOfTail ==
  ASSUME NEW s \in Seq(Texts), s # << >>, ~(TotalWeight(s) <= MaxBytes)
  PROVE  NewestWithinCap(s) = NewestWithinCap(Tail(s))
<1>1. SuffixesWithinCap(s) = SuffixesWithinCap(Tail(s))
  BY SuffixesOfTail DEF SuffixesWithinCap
<1>2. QED
  BY <1>1 DEF NewestWithinCap

(***************************************************************************)
(* The refinement: what each step of the buffer is to its caller.          *)
(***************************************************************************)

\* What is left of a queue that dropOldestToFit has done with is the whole of it.
LEMMA TrimmedIsKept ==
  ASSUME SizeInv, ~OverCap
  PROVE  NewestWithinCap(entries) = entries
<1>1. entries \in Seq(Texts) /\ SizeIs(entries, size)
  BY DEF SizeInv, BufferTypeOK
<1>2. TotalWeight(entries) = size
  BY <1>1, TotalWeightIsSize
<1>3. size <= MaxBytes
  <2>1. CASE entries = << >>
    BY <1>1, <2>1, SizeEmpty, BufferAssumption
  <2>2. CASE entries # << >>
    BY <2>2, BufferAssumption DEF OverCap, SizeInv, BufferTypeOK
  <2>3. QED
    BY <2>1, <2>2
<1>4. QED
  BY <1>1, <1>2, <1>3, KeptWhole

\* A drop changes nothing of what will be left.
LEMMA DropKeeps ==
  ASSUME SizeInv, OverCap
  PROVE  NewestWithinCap(Tail(entries)) = NewestWithinCap(entries)
<1>1. entries \in Seq(Texts) /\ SizeIs(entries, size) /\ size \in Nat
  BY DEF SizeInv, BufferTypeOK
<1>2. TotalWeight(entries) = size /\ ~(size <= MaxBytes) /\ entries # << >>
  BY <1>1, TotalWeightIsSize, BufferAssumption DEF OverCap
<1>3. QED
  BY <1>1, <1>2, KeptOfTail

LEMMA QueueStarts == BufferInit => Queue!QueueInit
BY DEF BufferInit, Queue!QueueInit, Queue!Nothing, Running, FileLines

\* The queue's own step, a stutter, or the step that breaks the storage
QueueMoves == Queue!QueueNext \/ torn' \/ UNCHANGED Queue!queueVars

LEMMA QueueStep ==
  ASSUME DurInv, [BufferNext]_bufVars
  PROVE  QueueMoves
<1> USE DEF memVars, fileVars, callVars, histVars, Running, Queue!Nothing
<1>a. /\ entries \in Seq(Texts) /\ lines \in Seq(Texts) /\ tail = Empty /\ FileLines = lines
      /\ bpc \in BufferPCs /\ SizeInv
  BY DEF DurInv, SizeInv, BufferTypeOK, FileLines
<1>b. lines' = lines /\ tail' = tail => FileLines' = FileLines
  BY DEF FileLines
<1>1. CASE Open \/ LoadLine
  BY <1>1, <1>b DEF Open, LoadLine, QueueMoves, Queue!queueVars
<1>2. CASE LoadEnd
  <2>1. LoadedSoFar /\ cursor = Len(lines)
    BY <1>2, <1>a DEF LoadEnd, DurInv
  <2>2. entries = lines
    BY <1>a, <2>1, SeqEqual DEF LoadedSoFar
  <2>3. Queue!Start
    BY <1>2, <1>a, <1>b, <2>2 DEF LoadEnd, Queue!Start
  <2>4. QED
    BY <2>3 DEF QueueMoves, Queue!QueueNext
<1>3. CASE DropOldest
  <2>1. NewestWithinCap(entries') = NewestWithinCap(entries)
    BY <1>3, <1>a, DropKeeps DEF DropOldest
  <2>2. QED
    BY <1>3, <1>b, <2>1 DEF DropOldest, QueueMoves, Queue!queueVars
<1>4. CASE TrimEnd
  <2>1. NewestWithinCap(entries) = entries /\ entries' = entries
    BY <1>4, <1>a, TrimmedIsKept DEF TrimEnd
  <2>2. CASE dropped
    BY <1>4, <1>b, <2>1, <2>2 DEF TrimEnd, QueueMoves, Queue!queueVars
  <2>3. CASE ~dropped
    <3>1. Queue!Return
      BY <1>4, <1>b, <2>1, <2>3 DEF TrimEnd, Return, Queue!Return
    <3>2. QED
      BY <3>1 DEF QueueMoves, Queue!QueueNext
  <2>4. QED
    BY <2>2, <2>3
<1>5. CASE Rewrite
  <2>1. FileLines' = entries
    BY <1>5 DEF Rewrite, FileLines
  <2>2. Queue!Compact
    BY <1>5, <2>1 DEF Rewrite, Return, Queue!Compact
  <2>3. QED
    BY <2>2 DEF QueueMoves, Queue!QueueNext
<1>6. CASE RewriteFails
  <2>1. CASE Die
    <3>1. Queue!Stop
      BY <1>6, <1>b, <2>1 DEF RewriteFails, Die, Queue!Stop
    <3>2. QED
      BY <3>1 DEF QueueMoves, Queue!QueueNext
  <2>2. CASE Return /\ UNCHANGED <<memVars, fileVars, histVars>>
    <3>1. Queue!Return
      BY <1>6, <1>b, <2>2 DEF RewriteFails, Return, Queue!Return
    <3>2. QED
      BY <3>1 DEF QueueMoves, Queue!QueueNext
  <2>3. QED
    BY <1>6, <2>1, <2>2 DEF RewriteFails
<1>7. CASE AppendOpenFails \/ AppendCloseFails
  <2>1. Queue!Return
    BY <1>7, <1>b DEF AppendOpenFails, AppendCloseFails, Return, Queue!Return
  <2>2. QED
    BY <2>1 DEF QueueMoves, Queue!QueueNext
<1>8. CASE AppendWrite
  <2>1. arg \in Heartbeats /\ Glue(tail, Payload(arg)) = Payload(arg)
    BY <1>8, <1>a, GlueToEmpty DEF AppendWrite, SizeInv, CallInv
  <2>2. FileLines' = Append(FileLines, Payload(arg))
    BY <1>8, <1>a, <2>1 DEF AppendWrite, FileLines
  <2>3. Queue!Write(Payload(arg))
    BY <1>8, <2>2 DEF AppendWrite, Queue!Write
  <2>4. QED
    BY <2>1, <2>3 DEF QueueMoves, Queue!QueueNext
<1>9. CASE AppendClose
  <2>1. arg \in Heartbeats /\ Payload(arg) \in Texts
    BY <1>9, <1>a, PayloadIsText DEF AppendClose, SizeInv, CallInv
  <2>2. entries' = entries \o <<Payload(arg)>>
    BY <1>9, <1>a, <2>1, AppendIsConcat DEF AppendClose
  <2>3. Queue!Accept
    BY <1>9, <1>b, <2>2 DEF AppendClose, Queue!Accept
  <2>4. QED
    BY <2>3 DEF QueueMoves, Queue!QueueNext
<1>10. ASSUME NEW n, AppendShort(n) PROVE QueueMoves
  BY <1>10 DEF AppendShort, QueueMoves
<1>11. CASE Pop
  <2>1. Queue!Take
    BY <1>11, <1>b DEF Pop, Queue!Take
  <2>2. QED
    BY <2>1 DEF QueueMoves, Queue!QueueNext
<1>12. CASE PersistCall \/ \E h \in Heartbeats : AppendCall(h)
  <2>1. Queue!Call
    BY <1>12, <1>b DEF PersistCall, AppendCall, Queue!Call
  <2>2. QED
    BY <2>1 DEF QueueMoves, Queue!QueueNext
<1>13. CASE LoadFails \/ Exit \/ Crash
  <2>1. bpc \in {"down", "load"} => UNCHANGED Queue!queueVars
    BY <1>13, <1>b DEF LoadFails, Exit, Crash, Die, Queue!queueVars
  <2>2. bpc \notin {"down", "load"} => Queue!Stop
    BY <1>13, <1>b DEF LoadFails, Exit, Crash, Die, Queue!Stop
  <2>3. QED
    BY <2>1, <2>2 DEF QueueMoves, Queue!QueueNext
<1>14. CASE UNCHANGED bufVars
  BY <1>14, <1>b DEF bufVars, QueueMoves, Queue!queueVars
<1>15. QED
  BY <1>1, <1>2, <1>3, <1>4, <1>5, <1>6, <1>7, <1>8, <1>9, <1>10, <1>11, <1>12, <1>13, <1>14
  DEF BufferNext, ClientAppends, AllButAppends, BufferStep, BufferFault

\* buffer.go:13-20: through every failure of a call and every end of the process
\* the disk-backed buffer is a bounded durable queue, until a write stops in the
\* middle of a line.
THEOREM BufferImplementsQueue == BufferSpec => ImplementsQueue
<1>1. (torn \/ DurInv) /\ [BufferNext]_bufVars
        => [Queue!QueueNext \/ torn']_(Queue!queueVars)
  BY QueueStep, TornStays DEF QueueMoves
<1>2. QED
  BY <1>1, QueueStarts, DurInvAlways, PTL DEF BufferSpec, ImplementsQueue, Queue!QueueSpec
=============================================================================
