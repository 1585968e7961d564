--------------------------- MODULE ScanLogsProofs ---------------------------
(***************************************************************************)
(* For every chain, node limit and filter, ScanLogs implements a log       *)
(* stream: the consumer gets the logs of the whole range in order, without *)
(* duplicates or gaps, for as long as the scan lasts.                      *)
(***************************************************************************)
EXTENDS ScanLogs, SequenceTheorems, TLAPS

\* CountUpTo counts the logs up to a block.
LEMMA CountUpToIsCount ==
  ASSUME NEW b \in -1 .. LastBlock
  PROVE  /\ CountUpTo(b) \in 0 .. Len(Chain)
         /\ \A i \in 1 .. Len(Chain) : i <= CountUpTo(b) <=> Chain[i] <= b
BY ChainAssumption DEF CountUpTo

\* More blocks have at least as many logs.
LEMMA CountUpToMonotone ==
  ASSUME NEW a \in -1 .. LastBlock, NEW b \in -1 .. LastBlock, a <= b
  PROVE  CountUpTo(a) <= CountUpTo(b)
<1>1. /\ CountUpTo(a) \in 0 .. Len(Chain)
      /\ CountUpTo(b) \in 0 .. Len(Chain)
      /\ \A i \in 1 .. Len(Chain) : i <= CountUpTo(a) <=> Chain[i] <= a
      /\ \A i \in 1 .. Len(Chain) : i <= CountUpTo(b) <=> Chain[i] <= b
  BY CountUpToIsCount
<1>2. \A i \in 1 .. Len(Chain) : Chain[i] \in Nat
  BY ChainAssumption, ElementOfSeq
<1>3. Len(Chain) \in Nat
  BY ChainAssumption, LenProperties
<1>4. CASE CountUpTo(a) = 0
  BY <1>1, <1>3, <1>4
<1>5. CASE CountUpTo(a) # 0
  <2>1. CountUpTo(a) \in 1 .. Len(Chain)
    BY <1>1, <1>3, <1>5
  <2>2. Chain[CountUpTo(a)] <= a
    BY <1>1, <2>1
  <2>3. Chain[CountUpTo(a)] <= b
    BY <1>2, <2>1, <2>2
  <2>. QED
    BY <1>1, <2>1, <2>3
<1>. QED BY <1>4, <1>5

\* The logs of a range are the positions after those of the blocks before it.
LEMMA GetLogsSeq ==
  ASSUME NEW f \in 0 .. LastBlock, NEW u \in f - 1 .. LastBlock
  PROVE  /\ CountUpTo(u) \in Nat /\ CountUpTo(f - 1) \in Nat
         /\ CountUpTo(f - 1) <= CountUpTo(u)
         /\ GetLogs(f, u) \in Seq(Nat)
         /\ Len(GetLogs(f, u)) = CountUpTo(u) - CountUpTo(f - 1)
         /\ \A k \in 1 .. Len(GetLogs(f, u)) : GetLogs(f, u)[k] = CountUpTo(f - 1) + k
<1> DEFINE m == CountUpTo(f - 1)
           n == CountUpTo(u)
<1>1. m \in Nat /\ n \in Nat /\ m <= n
  <2>1. Len(Chain) \in Nat
    BY ChainAssumption, LenProperties
  <2>2. f - 1 \in -1 .. LastBlock /\ u \in -1 .. LastBlock /\ f - 1 <= u
    BY RangeAssumption
  <2>. QED
    BY <2>1, <2>2, CountUpToIsCount, CountUpToMonotone
<1> HIDE DEF m, n
<1>2. /\ [k \in 1 .. n - m |-> m + k] \in Seq(Nat)
      /\ Len([k \in 1 .. n - m |-> m + k]) = n - m
      /\ \A j \in 1 .. n - m : [k \in 1 .. n - m |-> m + k][j] = m + j
  BY <1>1
<1>3. GetLogs(f, u) = [k \in 1 .. n - m |-> m + k]
  BY DEF GetLogs, m, n
<1>. QED
  BY <1>1, <1>2, <1>3 DEF m, n

\* A range that ends before it begins has no logs.
LEMMA GetLogsEmpty ==
  ASSUME NEW f \in 0 .. LastBlock, NEW u \in -1 .. f - 1
  PROVE  GetLogs(f, u) = <<>>
<1>1. u \in -1 .. LastBlock /\ f - 1 \in -1 .. LastBlock /\ u <= f - 1
  BY RangeAssumption
<1>2. CountUpTo(u) <= CountUpTo(f - 1)
  BY <1>1, CountUpToMonotone
<1>3. CountUpTo(u) \in Int /\ CountUpTo(f - 1) \in Int
  BY <1>1, CountUpToIsCount
<1>4. 1 .. CountUpTo(u) - CountUpTo(f - 1) = 1 .. 0
  BY <1>2, <1>3
<1>. QED
  BY <1>4 DEF GetLogs

\* The answers for two adjacent ranges make up the answer for both.
LEMMA GetLogsConcat ==
  ASSUME NEW f \in 0 .. LastBlock, NEW g \in f .. LastBlock, NEW u \in g .. LastBlock
  PROVE  GetLogs(f, g - 1) \o GetLogs(g, u) = GetLogs(f, u)
<1>1. /\ g \in 0 .. LastBlock /\ g - 1 \in f - 1 .. LastBlock
      /\ u \in g - 1 .. LastBlock /\ u \in f - 1 .. LastBlock
  BY RangeAssumption
<1> DEFINE a == GetLogs(f, g - 1)
           b == GetLogs(g, u)
           c == GetLogs(f, u)
           l == CountUpTo(f - 1)
           m == CountUpTo(g - 1)
           n == CountUpTo(u)
<1>2. /\ a \in Seq(Nat) /\ Len(a) = m - l /\ \A k \in 1 .. Len(a) : a[k] = l + k
      /\ b \in Seq(Nat) /\ Len(b) = n - m /\ \A k \in 1 .. Len(b) : b[k] = m + k
      /\ c \in Seq(Nat) /\ Len(c) = n - l /\ \A k \in 1 .. Len(c) : c[k] = l + k
      /\ l \in Nat /\ m \in Nat /\ n \in Nat /\ l <= m /\ m <= n
  BY <1>1, GetLogsSeq
<1> HIDE DEF a, b, c, l, m, n
<1>3. /\ a \o b \in Seq(Nat)
      /\ Len(a \o b) = n - l
      /\ \A i \in 1 .. n - l : (a \o b)[i] = IF i <= m - l THEN a[i] ELSE b[i - (m - l)]
  <2>1. /\ a \o b \in Seq(Nat)
        /\ Len(a \o b) = Len(a) + Len(b)
        /\ \A i \in 1 .. Len(a) + Len(b) :
             (a \o b)[i] = IF i <= Len(a) THEN a[i] ELSE b[i - Len(a)]
    BY <1>2, ConcatProperties, Zenon
  <2>2. Len(a) + Len(b) = n - l
    BY <1>2
  <2>. QED
    BY <1>2, <2>1, <2>2, Zenon
<1>4. ASSUME NEW i \in 1 .. n - l
      PROVE  (a \o b)[i] = c[i]
  <2>1. c[i] = l + i
    BY <1>2
  <2>2. CASE i <= m - l
    BY <1>2, <1>3, <2>1, <2>2
  <2>3. CASE ~(i <= m - l)
    <3>1. (a \o b)[i] = b[i - (m - l)]
      BY <1>3, <2>3, Zenon
    <3>2. i - (m - l) \in 1 .. Len(b)
      BY <1>2, <2>3
    <3>3. b[i - (m - l)] = m + (i - (m - l))
      BY <1>2, <3>2, Zenon
    <3>. QED
      BY <1>2, <2>1, <3>1, <3>3
  <2>. QED
    BY <2>2, <2>3
<1>5. a \o b = c
  BY <1>2, <1>3, <1>4, SeqEqual
<1>. QED
  BY <1>5 DEF a, b, c

\* An answer has exactly the logs of the blocks it is for: they are in chain
\* order, each is in one of these blocks, and none of these blocks' logs is
\* missing. This is what the node of the model answers to eth_getLogs.
THEOREM GetLogsExact ==
  ASSUME NEW f \in 0 .. LastBlock, NEW u \in f .. LastBlock,
         NEW i \in 1 .. Len(Chain)
  PROVE  (\E k \in 1 .. Len(GetLogs(f, u)) : GetLogs(f, u)[k] = i)
           <=> (f <= Chain[i] /\ Chain[i] <= u)
<1> DEFINE a == GetLogs(f, u)
           m == CountUpTo(f - 1)
           n == CountUpTo(u)
<1>1. u \in f - 1 .. LastBlock /\ f - 1 \in -1 .. LastBlock /\ u \in -1 .. LastBlock
  BY RangeAssumption
<1>2. /\ Len(a) = n - m /\ \A k \in 1 .. Len(a) : a[k] = m + k
      /\ m \in Nat /\ n \in Nat /\ m <= n
  BY <1>1, GetLogsSeq
<1>3. (i <= m <=> Chain[i] <= f - 1) /\ (i <= n <=> Chain[i] <= u)
  BY <1>1, CountUpToIsCount
<1>4. Chain[i] \in Nat /\ i \in Nat /\ Len(Chain) \in Nat
  BY ChainAssumption, ElementOfSeq, LenProperties
<1> HIDE DEF a, m, n
<1>5. (\E k \in 1 .. n - m : m + k = i) <=> i \in m + 1 .. n
  <2>1. ASSUME i \in m + 1 .. n
        PROVE  i - m \in 1 .. n - m /\ m + (i - m) = i
    BY <1>2, <1>4, <2>1
  <2>2. ASSUME NEW k \in 1 .. n - m, m + k = i
        PROVE  i \in m + 1 .. n
    BY <1>2, <1>4, <2>2
  <2>. QED
    BY <2>1, <2>2
<1>6. i \in m + 1 .. n <=> f <= Chain[i] /\ Chain[i] <= u
  BY <1>2, <1>3, <1>4
<1>7. (\E k \in 1 .. Len(a) : a[k] = i) <=> (\E k \in 1 .. n - m : m + k = i)
  BY <1>2
<1>. QED
  BY <1>5, <1>6, <1>7 DEF a
-----------------------------------------------------------------------------
\* The inductive invariant: the type invariant bounds the blocks that Covered
\* relates the yielded logs to.
IInv == TypeOK /\ Covered

\* A scan starts with nothing yielded, and is done at once if the range is empty.
LEMMA InitIInv == Init => IInv
<1> SUFFICES ASSUME Init PROVE IInv
  OBVIOUS
<1>1. /\ filter.from \in 0 .. LastBlock /\ filter.to \in 0 .. LastBlock
      /\ RangeAssumption
  BY RangeAssumption DEF Init, Filters
<1>2. TypeOK
  BY <1>1, EmptySeq DEF Init, TypeOK, RangeAssumption, Final
<1>3. pc = "ask" => filter.from <= from /\ from <= filter.to /\ logs = <<>>
                      /\ yielded = GetLogs(filter.from, from - 1)
  <2>1. GetLogs(filter.from, filter.from - 1) = <<>>
    BY <1>1, GetLogsEmpty DEF RangeAssumption
  <2>. QED
    BY <1>1, <2>1 DEF Init
<1>4. pc = "done" => yielded = GetLogs(filter.from, filter.to)
  <2>1. pc = "done" => filter.to \in -1 .. filter.from - 1
    BY <1>1 DEF Init, RangeAssumption
  <2>. QED
    BY <1>1, <2>1, GetLogsEmpty DEF Init
<1>. QED
  BY <1>2, <1>3, <1>4 DEF IInv, Covered, Init

\* Halving keeps the step between minLogRange and maxLogRange.
LEMMA HalvingBounds ==
  ASSUME NEW s \in MinLogRange .. MaxLogRange
  PROVE  Higher(s \div 2, MinLogRange) \in MinLogRange .. MaxLogRange
BY RangeAssumption DEF Higher

\* The chunk that is asked for lies within the filter's range.
LEMMA ChunkBounds ==
  ASSUME TypeOK, from <= filter.to
  PROVE  ChunkTo \in Nat /\ from <= ChunkTo /\ ChunkTo <= filter.to /\ filter.to <= LastBlock
BY RangeAssumption DEF TypeOK, Filters, ChunkTo, Lower

\* A chunk that is yielded is part of the answer for the whole range, and the
\* chunk after it starts where it ended.
LEMMA EndChunkCovers ==
  ASSUME IInv, NEW u \in Nat, filter.from <= u, u <= filter.to, EndChunk(u),
         filter' = filter, logs' = <<>>, yielded' = GetLogs(filter.from, u)
  PROVE  Covered' /\ pc' \in {"ask", "done"} /\ from' \in Nat
<1>1. CASE u = filter.to
  BY <1>1 DEF EndChunk, Covered, IInv, TypeOK
<1>2. CASE u # filter.to
  <2>1. filter.to \in Nat /\ filter.from \in Nat
    BY DEF IInv, TypeOK, Filters
  <2>2. pc' = "ask" /\ from' = u + 1 /\ from' - 1 = u
    BY <1>2 DEF EndChunk
  <2>3. filter.from <= from' /\ from' <= filter.to /\ from' \in Nat
    BY <1>2, <2>1, <2>2
  <2>. QED
    BY <2>2, <2>3 DEF Covered
<1>. QED BY <1>1, <1>2

\* Moving the next log from the chunk to the consumer keeps their concatenation.
LEMMA MoveHead ==
  ASSUME NEW s \in Seq(Nat), NEW r \in Seq(Nat), r # <<>>
  PROVE  /\ Append(s, Head(r)) \o Tail(r) = s \o r
         /\ Append(s, Head(r)) \in Seq(Nat) /\ Tail(r) \in Seq(Nat)
<1> DEFINE a == Append(s, Head(r))
           b == Tail(r)
<1>1. /\ Head(r) \in Nat /\ Head(r) = r[1] /\ b \in Seq(Nat) /\ Len(b) = Len(r) - 1
      /\ \A i \in 1 .. Len(b) : b[i] = r[i + 1]
  BY HeadTailProperties
<1>2. /\ a \in Seq(Nat) /\ Len(a) = Len(s) + 1 /\ a[Len(s) + 1] = r[1]
      /\ \A i \in 1 .. Len(s) : a[i] = s[i]
  BY <1>1, AppendProperties
<1>3. Len(s) \in Nat /\ Len(r) \in Nat /\ Len(b) \in Nat
  BY <1>1, LenProperties
<1> HIDE DEF a, b
<1>4. /\ a \o b \in Seq(Nat) /\ Len(a \o b) = Len(a) + Len(b)
      /\ \A i \in 1 .. Len(a) + Len(b) :
           (a \o b)[i] = IF i <= Len(a) THEN a[i] ELSE b[i - Len(a)]
  BY <1>1, <1>2, ConcatProperties, Zenon
<1>5. /\ s \o r \in Seq(Nat) /\ Len(s \o r) = Len(s) + Len(r)
      /\ \A i \in 1 .. Len(s) + Len(r) :
           (s \o r)[i] = IF i <= Len(s) THEN s[i] ELSE r[i - Len(s)]
  BY ConcatProperties, Zenon
<1>6. Len(a) + Len(b) = Len(s) + Len(r)
  BY <1>1, <1>2, <1>3
<1>7. ASSUME NEW i \in 1 .. Len(s) + Len(r)
      PROVE  (a \o b)[i] = (s \o r)[i]
  <2>0. i \in 1 .. Len(a) + Len(b) /\ i \in Nat
    BY <1>3, <1>6
  <2>1. CASE i <= Len(s)
    <3>1. i <= Len(a) /\ i \in 1 .. Len(s)
      BY <1>2, <1>3, <2>0, <2>1
    <3>2. (a \o b)[i] = a[i]
      BY <1>4, <2>0, <3>1
    <3>3. (s \o r)[i] = s[i]
      BY <1>5, <2>0, <2>1
    <3>. QED
      BY <1>2, <3>1, <3>2, <3>3
  <2>2. CASE i = Len(s) + 1
    <3>1. i <= Len(a) /\ ~(i <= Len(s)) /\ i - Len(s) = 1
      BY <1>2, <1>3, <2>0, <2>2
    <3>2. (a \o b)[i] = a[i]
      BY <1>4, <2>0, <3>1
    <3>3. (s \o r)[i] = r[1]
      BY <1>5, <2>0, <3>1
    <3>. QED
      BY <1>2, <2>2, <3>2, <3>3
  <2>3. CASE i > Len(s) + 1
    <3>1. i - Len(a) \in 1 .. Len(b) /\ i - Len(a) + 1 = i - Len(s)
          /\ ~(i <= Len(a)) /\ ~(i <= Len(s))
      BY <1>1, <1>2, <1>3, <2>3
    <3>2. b[i - Len(a)] = r[i - Len(s)]
      BY <1>1, <3>1, Zenon
    <3>. QED
      BY <1>4, <1>5, <1>6, <3>1, <3>2, Zenon
  <2>4. i <= Len(s) \/ i = Len(s) + 1 \/ i > Len(s) + 1
    <3>1. \A p, q \in Nat : \A j \in 1 .. p + q : j <= p \/ j = p + 1 \/ j > p + 1
      OBVIOUS
    <3>. QED
      BY <1>3, <3>1, Zenon
  <2>. QED BY <2>1, <2>2, <2>3, <2>4, Zenon
<1>8. a \o b = s \o r
  BY <1>4, <1>5, <1>6, <1>7, SeqEqual, Zenon
<1>. QED
  BY <1>1, <1>2, <1>8 DEF a, b

\* Every step preserves the invariant.
LEMMA NextIInv == IInv /\ [Next]_vars => IInv'
<1> SUFFICES ASSUME IInv, [Next]_vars PROVE IInv'
  OBVIOUS
<1>0. /\ filter.from \in 0 .. LastBlock /\ filter.to \in 0 .. LastBlock
      /\ from \in Nat /\ LastBlock \in Nat
  BY RangeAssumption DEF IInv, TypeOK, Filters
<1>1. CASE AnswerLogs
  <2>1. /\ filter.from <= from /\ from <= filter.to
        /\ yielded = GetLogs(filter.from, from - 1)
        /\ yielded \in Seq(Nat)
    BY <1>1 DEF IInv, Covered, AnswerLogs, TypeOK
  <2>2. ChunkTo \in Nat /\ from <= ChunkTo /\ ChunkTo <= filter.to
    BY <2>1, ChunkBounds DEF IInv
  <2>3. from \in filter.from .. LastBlock /\ ChunkTo \in from .. LastBlock
    BY <1>0, <2>1, <2>2
  <2>4. yielded \o GetLogs(from, ChunkTo) = GetLogs(filter.from, ChunkTo)
    BY <1>0, <2>1, <2>3, GetLogsConcat
  <2>5. GetLogs(from, ChunkTo) \in Seq(Nat)
    <3>1. from \in 0 .. LastBlock /\ ChunkTo \in from - 1 .. LastBlock
      BY <1>0, <2>3
    <3>. QED
      BY <3>1, GetLogsSeq
  <2>6. CASE logs' = <<>>
    <3>1. yielded' = GetLogs(filter.from, ChunkTo)
      BY <1>1, <2>1, <2>4, <2>6, ConcatEmptySeq DEF AnswerLogs
    <3>2. EndChunk(ChunkTo) /\ filter' = filter
      BY <1>1, <2>6 DEF AnswerLogs, node
    <3>3. Covered' /\ pc' \in {"ask", "done"} /\ from' \in Nat
      <4>1. filter.from <= ChunkTo
        BY <1>0, <2>1, <2>2
      <4>. QED
        BY <2>2, <2>6, <3>1, <3>2, <4>1, EndChunkCovers
    <3>4. TypeOK'
      BY <1>1, <2>2, <2>6, <3>3, EmptySeq DEF IInv, TypeOK, AnswerLogs, node, Final
    <3>. QED
      BY <3>3, <3>4 DEF IInv
  <2>7. CASE logs' # <<>>
    <3>1. TypeOK'
      BY <1>1, <2>2, <2>5, <2>7 DEF IInv, TypeOK, AnswerLogs, node
    <3>2. Covered'
      BY <1>1, <2>1, <2>2, <2>4, <2>7 DEF Covered, AnswerLogs, node
    <3>. QED
      BY <3>1, <3>2 DEF IInv
  <2>. QED BY <2>6, <2>7
<1>2. ASSUME HandleRPCError, pc = "ask", faults' \in 0 .. MaxFaults
      PROVE  IInv'
  <2>1. TypeOK'
    BY <1>2, HalvingBounds DEF IInv, TypeOK, HandleRPCError, node, Final
  <2>2. Covered'
    BY <1>2 DEF IInv, Covered, HandleRPCError, node
  <2>. QED BY <2>1, <2>2 DEF IInv
<1>3. CASE AnswerTooWide
  BY <1>2, <1>3 DEF AnswerTooWide, IInv, TypeOK
<1>4. CASE AnswerOtherError
  <2>1. faults' \in 0 .. MaxFaults
    BY <1>4, RangeAssumption DEF AnswerOtherError, IInv, TypeOK
  <2>. QED
    BY <1>2, <1>4, <2>1 DEF AnswerOtherError
<1>5. CASE CallFails
  <2>1. TypeOK'
    BY <1>5, RangeAssumption DEF CallFails, IInv, TypeOK, node, Final
  <2>2. Covered'
    BY <1>5 DEF CallFails, IInv, Covered, node
  <2>. QED BY <2>1, <2>2 DEF IInv
<1>6. CASE YieldLog
  <2>1. /\ filter.from <= from /\ from <= chunkTo /\ chunkTo <= filter.to
        /\ logs # <<>> /\ yielded \o logs = GetLogs(filter.from, chunkTo)
        /\ logs \in Seq(Nat) /\ yielded \in Seq(Nat)
    BY <1>6 DEF IInv, TypeOK, Covered, YieldLog
  <2>2. yielded' \o logs' = yielded \o logs /\ yielded' \in Seq(Nat) /\ logs' \in Seq(Nat)
    BY <1>6, <2>1, MoveHead DEF YieldLog
  <2>3. chunkTo \in Nat /\ filter.from <= chunkTo
    BY <1>0, <2>1 DEF IInv, TypeOK
  <2>4. CASE logs' = <<>> /\ EndChunk(chunkTo)
    <3>1. yielded' = GetLogs(filter.from, chunkTo)
      BY <2>1, <2>2, <2>4, ConcatEmptySeq
    <3>2. Covered' /\ pc' \in {"ask", "done"} /\ from' \in Nat
      BY <1>6, <2>1, <2>3, <2>4, <3>1, EndChunkCovers DEF YieldLog, node
    <3>3. TypeOK'
      BY <1>6, <2>2, <3>2 DEF IInv, TypeOK, YieldLog, node, Final
    <3>. QED
      BY <3>2, <3>3 DEF IInv
  <2>5. CASE logs' # <<>> /\ UNCHANGED <<pc, from>>
    <3>1. TypeOK'
      BY <1>6, <2>2, <2>5 DEF IInv, TypeOK, YieldLog, node
    <3>2. Covered'
      BY <1>6, <2>1, <2>2, <2>5 DEF Covered, YieldLog, node
    <3>. QED
      BY <3>1, <3>2 DEF IInv
  <2>6. CASE pc' = "stopped" /\ UNCHANGED from
    <3>1. TypeOK'
      BY <1>6, <2>2, <2>6 DEF IInv, TypeOK, YieldLog, node, Final
    <3>2. Covered'
      BY <2>6 DEF Covered
    <3>. QED
      BY <3>1, <3>2 DEF IInv
  <2>. QED
    BY <1>6, <2>4, <2>5, <2>6 DEF YieldLog
<1>7. CASE Finished \/ UNCHANGED vars
  BY <1>7 DEF Finished, IInv, TypeOK, Covered, vars, node
<1>. QED
  BY <1>1, <1>3, <1>4, <1>5, <1>6, <1>7 DEF Next

\* Type correctness of the scan.
THEOREM TypeCorrect == Spec => []TypeOK
<1>1. IInv => TypeOK
  BY DEF IInv
<1>. QED
  BY <1>1, InitIInv, NextIInv, PTL DEF Spec

\* What the consumer got, and what is yet to be yielded of the chunk, is always
\* the answer for the range up to the last block that was asked for, and a scan
\* that is done has yielded the logs of the whole range.
THEOREM CoveredInvariant == Spec => []Covered
<1>1. IInv => Covered
  BY DEF IInv
<1>. QED
  BY <1>1, InitIInv, NextIInv, PTL DEF Spec
-----------------------------------------------------------------------------
\* A log of the chunk that is yielded next is the next log of the whole range.
LEMMA NextLog ==
  ASSUME IInv, pc = "yield"
  PROVE  LET all == GetLogs(filter.from, filter.to) IN
         /\ Len(yielded) < Len(all)
         /\ Head(logs) = all[Len(yielded) + 1]
<1> DEFINE all == GetLogs(filter.from, filter.to)
           part == GetLogs(filter.from, chunkTo)
<1>1. /\ filter.from \in 0 .. LastBlock /\ filter.to \in 0 .. LastBlock
      /\ filter.from <= from /\ from <= chunkTo /\ chunkTo <= filter.to
      /\ logs # <<>> /\ yielded \o logs = part
      /\ logs \in Seq(Nat) /\ yielded \in Seq(Nat)
      /\ from \in Nat /\ chunkTo \in Int /\ LastBlock \in Nat
  BY RangeAssumption DEF IInv, TypeOK, Covered, Filters
<1>2. /\ chunkTo \in filter.from - 1 .. LastBlock
      /\ filter.to \in filter.from - 1 .. LastBlock
      /\ chunkTo \in -1 .. LastBlock /\ filter.to \in -1 .. LastBlock
  BY <1>1
<1>3. CountUpTo(chunkTo) <= CountUpTo(filter.to)
  BY <1>1, <1>2, CountUpToMonotone
<1>4. /\ Len(part) = CountUpTo(chunkTo) - CountUpTo(filter.from - 1)
      /\ \A k \in 1 .. Len(part) : part[k] = CountUpTo(filter.from - 1) + k
      /\ Len(all) = CountUpTo(filter.to) - CountUpTo(filter.from - 1)
      /\ \A k \in 1 .. Len(all) : all[k] = CountUpTo(filter.from - 1) + k
      /\ CountUpTo(chunkTo) \in Nat /\ CountUpTo(filter.to) \in Nat
      /\ CountUpTo(filter.from - 1) \in Nat
  BY <1>1, <1>2, GetLogsSeq
<1> HIDE DEF all, part
<1>5. /\ Len(part) = Len(yielded) + Len(logs)
      /\ \A i \in 1 .. Len(yielded) + Len(logs) :
           part[i] = IF i <= Len(yielded) THEN yielded[i] ELSE logs[i - Len(yielded)]
  BY <1>1, ConcatProperties, Zenon
<1>6. /\ Len(yielded) \in Nat /\ Len(logs) \in Nat \ {0} /\ Head(logs) = logs[1]
  BY <1>1, EmptySeq, LenProperties, HeadTailProperties
<1>7. /\ Len(yielded) + 1 \in 1 .. Len(part) /\ Len(yielded) + 1 \in 1 .. Len(all)
      /\ ~(Len(yielded) + 1 <= Len(yielded)) /\ Len(yielded) + 1 - Len(yielded) = 1
  BY <1>3, <1>4, <1>5, <1>6
<1>8. part[Len(yielded) + 1] = logs[1]
  <2> DEFINE i == Len(yielded) + 1
  <2>1. i \in 1 .. Len(yielded) + Len(logs)
    BY <1>6
  <2>2. ~(i <= Len(yielded)) /\ i - Len(yielded) = 1
    BY <1>7
  <2> HIDE DEF i
  <2>3. part[i] = logs[i - Len(yielded)]
    BY <1>5, <2>1, <2>2
  <2>. QED
    BY <2>2, <2>3 DEF i
<1>9. all[Len(yielded) + 1] = part[Len(yielded) + 1]
  BY <1>4, <1>7, Zenon
<1>10. Len(yielded) < Len(all)
  BY <1>6, <1>7
<1>. QED
  BY <1>6, <1>8, <1>9, <1>10 DEF all

\* ScanLogs implements the log stream: an answer with logs, a halving, and a
\* chunk without logs before the last are no steps of the stream, a yielded log
\* delivers the next log of the whole range, and the rest end it.
THEOREM Implementation == Spec => StreamSpec
<1>1. Init => Stream!Init
  <2> SUFFICES ASSUME Init PROVE Stream!Init
    OBVIOUS
  <2>1. pc = "done" => yielded = GetLogs(filter.from, filter.to)
    BY InitIInv DEF IInv, Covered
  <2>. QED
    BY <2>1 DEF Init, Stream!Init, Status, Final
<1>2. IInv /\ IInv' /\ [Next]_vars => [Stream!Next]_Stream!vars
  <2> SUFFICES ASSUME IInv, IInv', [Next]_vars
               PROVE  [Stream!Next]_Stream!vars
    OBVIOUS
  <2> DEFINE all == GetLogs(filter.from, filter.to)
  <2>0. ASSUME filter' = filter
        PROVE  all' = all
    BY <2>0 DEF GetLogs, CountUpTo
  <2>1. ASSUME filter' = filter, yielded' = yielded, pc \notin Final,
               pc' \in {"ask", "yield", "done", "failed"}
        PROVE  [Stream!Next]_Stream!vars
    <3>1. pc' = "done" => yielded' = all
      BY <2>0, <2>1 DEF IInv, Covered
    <3>. QED
      BY <2>0, <2>1, <3>1 DEF Stream!Next, Stream!End, Stream!vars, Status, Final
  <2>2. CASE AnswerLogs
    BY <2>1, <2>2 DEF AnswerLogs, EndChunk, node, Final
  <2>3. CASE AnswerTooWide \/ AnswerOtherError
    BY <2>1, <2>3 DEF AnswerTooWide, AnswerOtherError, HandleRPCError, node, Final
  <2>4. CASE CallFails
    BY <2>1, <2>4 DEF CallFails, node, Final
  <2>5. CASE YieldLog
    <3>1. Len(yielded) < Len(all) /\ Head(logs) = all[Len(yielded) + 1]
      BY <2>5, NextLog DEF YieldLog
    <3>2. all' = all /\ yielded' = Append(yielded, all[Len(yielded) + 1])
      BY <2>0, <2>5, <3>1 DEF YieldLog, node
    <3>3. pc = "yield" /\ pc' \in {"ask", "yield", "done", "stopped"}
      BY <2>5 DEF YieldLog, EndChunk
    <3>4. pc' = "done" => yielded' = all
      BY <3>2 DEF IInv, Covered
    <3>. QED
      BY <3>1, <3>2, <3>3, <3>4 DEF Stream!Next, Stream!Deliver, Status, Final
  <2>6. CASE Finished \/ UNCHANGED vars
    BY <2>0, <2>6 DEF Finished, vars, node, Stream!vars, Status
  <2>. QED
    BY <2>2, <2>3, <2>4, <2>5, <2>6 DEF Next
<1>. QED
  BY <1>1, <1>2, InitIInv, NextIInv, PTL DEF Spec, StreamSpec, Stream!Spec
\* A chunk is refused for its size only if its step is over the node's limit, and
\* half of that isn't far below it.
LEMMA HalvingForCause ==
  ASSUME TypeOK, NarrowsForCause, AnswerTooWide
  PROVE  NarrowsForCause'
<1>1. /\ step \in Nat /\ limit \in Nat /\ MinLogRange \in Nat
      /\ from \in Nat /\ filter.to \in Nat /\ faults \in Nat
  BY RangeAssumption DEF TypeOK, Filters
<1>2. ChunkTo - from + 1 <= step
  BY <1>1 DEF ChunkTo, Lower
<1>3. limit < step /\ pc = "ask" /\ limit' = limit /\ faults' = faults
  BY <1>1, <1>2 DEF AnswerTooWide, HandleRPCError, node, ChunkTo, Lower
<1>4. CASE step > MinLogRange
  <2>1. step' = Higher(step \div 2, MinLogRange) /\ pc' = pc
    BY <1>4 DEF AnswerTooWide, HandleRPCError
  <2>2. 2 * step' >= limit
    BY <1>1, <1>3, <2>1 DEF Higher
  <2>. QED BY <1>3, <2>1, <2>2 DEF NarrowsForCause
<1>5. CASE ~(step > MinLogRange)
  <2>1. step' = step /\ limit < MinLogRange
    BY <1>1, <1>3, <1>5 DEF AnswerTooWide, HandleRPCError
  <2>. QED BY <1>3, <2>1 DEF NarrowsForCause
<1>. QED BY <1>4, <1>5

\* A scan never takes smaller chunks than the node's limit and its transient
\* errors make it, and fails only because of these, for every limit and chain.
THEOREM NarrowsOnlyForCause == Spec => []NarrowsForCause
<1>1. Init => NarrowsForCause
  BY DEF Init, NarrowsForCause
<1>2. TypeOK /\ NarrowsForCause /\ [Next]_vars => NarrowsForCause'
  <2> SUFFICES ASSUME TypeOK, NarrowsForCause, [Next]_vars PROVE NarrowsForCause'
    OBVIOUS
  <2>1. faults \in Nat
    BY RangeAssumption DEF TypeOK
  <2>2. CASE AnswerLogs
    BY <2>2 DEF AnswerLogs, EndChunk, node, NarrowsForCause
  <2>3. CASE AnswerTooWide
    BY <2>3, HalvingForCause
  <2>4. CASE AnswerOtherError \/ CallFails
    <3>1. faults' = faults + 1
      BY <2>4 DEF AnswerOtherError, CallFails
    <3>2. faults' > 0
      BY <2>1, <3>1
    <3>. QED BY <3>2 DEF NarrowsForCause
  <2>5. CASE YieldLog
    BY <2>5 DEF YieldLog, EndChunk, node, NarrowsForCause
  <2>6. CASE Finished \/ UNCHANGED vars
    BY <2>6 DEF Finished, vars, node, NarrowsForCause
  <2>. QED BY <2>2, <2>3, <2>4, <2>5, <2>6 DEF Next
<1>. QED BY <1>1, <1>2, TypeCorrect, PTL DEF Spec
=============================================================================
