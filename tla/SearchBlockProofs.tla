------------------------- MODULE SearchBlockProofs -------------------------
(***************************************************************************)
(* SearchBlock finds the last block before the searched time on every      *)
(* chain with timestamps that never decrease, whatever its length, with at *)
(* most twice the probes of a binary search.                               *)
(***************************************************************************)
EXTENDS SearchBlock, OrdersProofs

\* The inductive invariant: while the search probes, and when it ends, lo and hi
\* bracket the searched time, and it only ends when they are adjacent or when an
\* end of the chain refused it.
Ends ==
  /\ pc = "found" => hi - lo = 1
  /\ pc = "probe" => hi - lo > 1
  /\ pc = "genesis" => hi = Latest /\ ~(Time(Latest) < t)
  /\ pc = "too late" => Time(Latest) < t
  /\ pc = "too early" => ~(Time(0) < t)

IInv == TypeOK /\ Bracketed /\ Ends

\* The budget of the estimates is a number.
LEMMA BudgetType ==
  ASSUME NEW n
  PROVE  BitLen(n) \in Nat
<1>1. IsFiniteSet(0 .. Width - 1)
  BY ChainsAssumption, FS_Interval
<1>2. {k \in 0 .. Width - 1 : 2 ^ k <= n} \in SUBSET (0 .. Width - 1)
  OBVIOUS
<1>. QED
  BY <1>1, <1>2, FS_Subset, FS_CardinalityType DEF BitLen

\* What the chain is: at least one block, and timestamps that never decrease.
LEMMA ChainFacts ==
  ASSUME TypeOK
  PROVE  /\ Latest \in Nat
         /\ \A n \in 0 .. Latest : Time(n) \in Nat
         /\ \A m, n \in 0 .. Latest : m <= n => Time(m) <= Time(n)
         /\ t \in Nat
<1>1. /\ times \in Seq(Nat) /\ Len(times) > 0 /\ t \in Nat
      /\ \A i, j \in 1 .. Len(times) : i <= j => times[i] <= times[j]
  BY ChainsAssumption DEF TypeOK
<1>2. Len(times) \in Nat /\ \A i \in 1 .. Len(times) : times[i] \in Nat
  BY <1>1, LenProperties, ElementOfSeq
<1>3. Latest \in Nat /\ Latest + 1 = Len(times)
  BY <1>1, <1>2 DEF Latest
<1>4. \A n \in 0 .. Latest : n + 1 \in 1 .. Len(times)
  BY <1>3
<1>5. \A n \in 0 .. Latest : Time(n) \in Nat
  BY <1>2, <1>4 DEF Time
<1>6. \A m, n \in 0 .. Latest : m <= n => Time(m) <= Time(n)
  <2>1. ASSUME NEW m \in 0 .. Latest, NEW n \in 0 .. Latest, m <= n
        PROVE  m + 1 \in 1 .. Len(times) /\ n + 1 \in 1 .. Len(times) /\ m + 1 <= n + 1
    BY <1>3, <2>1
  <2>. QED
    BY <1>1, <2>1 DEF Time
<1>. QED
  BY <1>1, <1>3, <1>5, <1>6

\* An estimate from two blocks at different times is a block number.
LEMMA EstimateType ==
  ASSUME TypeOK, NEW a \in 0 .. Latest, NEW b \in 0 .. Latest, Time(a) # Time(b)
  PROVE  Estimate(a, b) \in Nat
<1> DEFINE blocks == Higher(a, b) - Lower(a, b)
           seconds == Higher(Time(a), Time(b)) - Lower(Time(a), Time(b))
           scaled == (t - Time(b)) * blocks
<1>1. /\ Latest \in Nat /\ Time(a) \in Nat /\ Time(b) \in Nat /\ t \in Nat
  BY ChainFacts
<1>2. blocks \in Nat /\ seconds \in Nat \ {0}
  BY <1>1 DEF Higher, Lower
<1>3. scaled \in Int
  BY <1>1, <1>2
<1> HIDE DEF scaled, seconds
<1>4. scaled \div seconds \in Int
  BY <1>2, <1>3
<1>5. b + (scaled \div seconds) \in Int
  BY <1>1, <1>4
<1>6. Estimate(a, b) = Higher(b + (scaled \div seconds), 0)
  BY DEF Estimate, scaled, seconds
<1>. QED
  BY <1>5, <1>6 DEF Higher

\* The guess is always strictly between lo and hi, so every probe narrows them.
LEMMA GuessBetween ==
  ASSUME IInv, pc = "probe"
  PROVE  Guess \in lo + 1 .. hi - 1
<1>1. /\ lo \in 0 .. Latest /\ hi \in 0 .. Latest /\ prev \in 0 .. Latest /\ last \in 0 .. Latest
      /\ Latest \in Nat /\ Time(lo) \in Nat /\ Time(hi) \in Nat /\ t \in Nat
  BY ChainFacts DEF IInv, TypeOK
<1>2. Time(lo) # Time(hi)
  BY <1>1 DEF IInv, Bracketed
<1>3. Estimate(lo, hi) \in Nat
  BY <1>1, <1>2, EstimateType DEF IInv
<1>4. Time(prev) # Time(last) => Estimate(prev, last) \in Nat
  BY <1>1, EstimateType DEF IInv
<1>5. lo + (hi - lo) \div 2 \in Nat
  BY <1>1
<1>6. \A g \in Nat : Lower(Higher(g, lo + 1), hi - 1) \in lo + 1 .. hi - 1
  <2>1. hi - lo > 1
    BY DEF IInv, Ends
  <2>. QED
    BY <1>1, <2>1 DEF Lower, Higher
<1>7. PICK g \in Nat : Guess = Lower(Higher(g, lo + 1), hi - 1)
  <2> DEFINE usable == Time(prev) # Time(last) /\ lo <= Estimate(prev, last) /\ Estimate(prev, last) <= hi
  <2>1. CASE probes >= Budget
    BY <1>5, <2>1 DEF Guess
  <2>2. CASE ~(probes >= Budget) /\ usable
    BY <1>4, <2>2 DEF Guess
  <2>3. CASE ~(probes >= Budget) /\ ~usable
    BY <1>3, <2>3 DEF Guess
  <2>. QED BY <2>1, <2>2, <2>3
<1>. QED BY <1>6, <1>7

\* A search starts with the whole chain ahead of it.
LEMMA InitIInv == Init => IInv
<1> SUFFICES ASSUME Init PROVE IInv
  OBVIOUS
<1>1. Len(times) \in Nat /\ Len(times) > 0
  BY ChainsAssumption, LenProperties DEF Init
<1>2. 0 \in 0 .. Latest
  BY <1>1 DEF Latest
<1>. QED
  BY <1>2 DEF Init, IInv, TypeOK, Bracketed, Ends, Results

\* Every step preserves the invariant.
LEMMA NextIInv == IInv /\ [Next]_vars => IInv'
<1> SUFFICES ASSUME IInv, [Next]_vars PROVE IInv'
  OBVIOUS
<1>1. /\ Latest \in Nat /\ 0 \in 0 .. Latest /\ Latest \in 0 .. Latest
      /\ \A n \in 0 .. Latest : Time(n) \in Nat
      /\ t \in Nat /\ lo \in 0 .. Latest /\ hi \in 0 .. Latest
  BY ChainFacts DEF IInv, TypeOK
<1>2. ASSUME times' = times
      PROVE  Latest' = Latest
  BY <1>2 DEF Latest
<1>3. CASE FetchLatest
  BY <1>1, <1>3 DEF FetchLatest, IInv, TypeOK, Bracketed, Ends, Latest, Time, Results
<1>4. CASE FetchGenesis
  <2>1. hi = Latest /\ ~(Time(Latest) < t)
    BY <1>4 DEF FetchGenesis, IInv, Ends
  <2>2. TypeOK'
    BY <1>1, <1>4 DEF FetchGenesis, Continue, IInv, TypeOK, Latest, Results
  <2>3. CASE Time(0) < t
    <3>1. hi > 0
      BY <1>1, <2>1, <2>3
    <3>2. \/ pc' = "probe" /\ hi - 0 > 1
          \/ pc' = "found" /\ hi - 0 = 1
      BY <1>1, <1>4, <2>3, <3>1 DEF FetchGenesis, Continue
    <3>3. lo' = 0 /\ hi' = hi /\ Time(lo)' = Time(0) /\ Time(hi)' = Time(hi) /\ t' = t
      BY <1>4 DEF FetchGenesis, Time
    <3>4. Bracketed'
      BY <2>1, <2>3, <3>1, <3>3 DEF Bracketed
    <3>5. Ends'
      BY <3>2, <3>3 DEF Ends
    <3>. QED
      BY <2>2, <3>4, <3>5 DEF IInv
  <2>4. CASE ~(Time(0) < t)
    BY <1>4, <2>2, <2>4 DEF FetchGenesis, IInv, Bracketed, Ends, Time
  <2>. QED BY <2>3, <2>4
<1>5. CASE Probe
  <2> DEFINE n == Guess
  <2>1. n \in lo + 1 .. hi - 1
    BY <1>5, GuessBetween DEF Probe
  <2>2. n \in 0 .. Latest /\ lo < n /\ n < hi
    BY <1>1, <2>1
  <2>3. Narrow(n)
    BY <1>5 DEF Probe
  <2>4. lo < hi /\ Time(lo) < t /\ ~(Time(hi) < t)
    BY <1>5 DEF Probe, IInv, Bracketed
  <2>5. probes' \in Nat
    BY <2>3, BudgetType DEF Narrow, Lower, ProbeCap, Budget, IInv, TypeOK
  <2> HIDE DEF n
  <2>6. /\ lo' \in 0 .. Latest /\ hi' \in 0 .. Latest /\ lo' < hi'
        /\ Time(lo') < t /\ ~(Time(hi') < t)
    BY <1>1, <2>2, <2>3, <2>4 DEF Narrow
  <2>7. \/ pc' = "probe" /\ hi' - lo' > 1
        \/ pc' = "found" /\ hi' - lo' = 1
    <3>1. pc' = Continue(lo', hi')
      BY <2>3 DEF Narrow
    <3>2. lo' \in Int /\ hi' \in Int /\ lo' < hi'
      BY <1>1, <2>6
    <3>3. hi' - lo' > 1 \/ hi' - lo' = 1
      <4>1. \A l, h \in Int : l < h => h - l > 1 \/ h - l = 1
        OBVIOUS
      <4>. QED
        BY <3>2, <4>1, Zenon
    <3>. QED
      BY <3>1, <3>2, <3>3 DEF Continue
  <2>8. TypeOK'
    BY <2>2, <2>3, <2>5, <2>6, <2>7 DEF Narrow, IInv, TypeOK, Latest, Results
  <2>9. Bracketed' /\ Ends'
    BY <2>3, <2>6, <2>7 DEF Narrow, Bracketed, Ends, Time
  <2>. QED BY <2>8, <2>9 DEF IInv
<1>6. CASE CallFails
  BY <1>6 DEF CallFails, IInv, TypeOK, Bracketed, Ends, Latest, Results
<1>7. CASE UNCHANGED vars
  BY <1>7 DEF vars, IInv, TypeOK, Bracketed, Ends, Latest, Time
<1>. QED
  BY <1>3, <1>4, <1>5, <1>6, <1>7 DEF Next

\* Type correctness of the search.
THEOREM TypeCorrect == Spec => []TypeOK
<1>1. IInv => TypeOK
  BY DEF IInv
<1>. QED
  BY <1>1, InitIInv, NextIInv, PTL DEF Spec

\* lo stays before the searched time, and hi at or after it.
THEOREM BracketedInvariant == Spec => []Bracketed
<1>1. IInv => Bracketed
  BY DEF IInv
<1>. QED
  BY <1>1, InitIInv, NextIInv, PTL DEF Spec

\* On every chain, a search that finds a block has found the last one that is
\* strictly before the searched time.
THEOREM Correct == Spec => []FindsLastBlockBefore
<1>1. IInv => FindsLastBlockBefore
  <2> SUFFICES ASSUME IInv, pc = "found", NEW n \in 0 .. Latest, Time(n) < t
               PROVE  Time(lo) < t /\ n <= lo
    BY DEF FindsLastBlockBefore, IInv, Bracketed
  <2>1. /\ lo \in 0 .. Latest /\ hi \in 0 .. Latest /\ hi - lo = 1
        /\ Time(lo) < t /\ ~(Time(hi) < t)
    BY DEF IInv, TypeOK, Ends, Bracketed
  <2>2. /\ Latest \in Nat /\ t \in Nat /\ Time(n) \in Nat /\ Time(hi) \in Nat
        /\ hi <= n => Time(hi) <= Time(n)
    BY <2>1, ChainFacts DEF IInv
  <2>3. ~(hi <= n)
    BY <2>1, <2>2
  <2>. QED
    BY <2>1, <2>2, <2>3
<1>. QED
  BY <1>1, InitIInv, NextIInv, PTL DEF Spec

\* On every chain, a search is only refused if no block is before the searched
\* time, or if all known ones are.
THEOREM Refusals == Spec => []RefusalsJustified
<1>1. IInv => RefusalsJustified
  <2> SUFFICES ASSUME IInv, NEW n \in 0 .. Latest
               PROVE  /\ pc = "too late" => Time(n) < t
                      /\ pc = "too early" => ~(Time(n) < t)
    BY DEF RefusalsJustified
  <2>1. /\ Latest \in Nat /\ t \in Nat /\ Time(n) \in Nat
        /\ Time(0) \in Nat /\ Time(Latest) \in Nat
        /\ Time(0) <= Time(n) /\ Time(n) <= Time(Latest)
    BY ChainFacts DEF IInv
  <2>2. /\ pc = "too late" => Time(Latest) < t
        /\ pc = "too early" => ~(Time(0) < t)
    BY DEF IInv, Ends
  <2>3. ASSUME Time(Latest) < t PROVE Time(n) < t
    BY <2>1, <2>3
  <2>4. ASSUME ~(Time(0) < t) PROVE ~(Time(n) < t)
    BY <2>1, <2>4
  <2>. QED
    BY <2>2, <2>3, <2>4
<1>. QED
  BY <1>1, InitIInv, NextIInv, PTL DEF Spec
-----------------------------------------------------------------------------
(* How many blocks are probed *)

\* The bits of n are enough to tell n from smaller numbers.
LEMMA BitsSuffice ==
  ASSUME NEW n \in Nat, n < 2 ^ Width
  PROVE  n < 2 ^ BitLen(n)
<1> DEFINE powers == {k \in 0 .. Width - 1 : 2 ^ k <= n}
           m == BitLen(n)
<1> SUFFICES ASSUME ~(n < 2 ^ m) PROVE FALSE
  OBVIOUS
<1>1. Width \in Nat /\ m \in Nat /\ m = Cardinality(powers)
  BY ChainsAssumption, BudgetType DEF BitLen
<1>2. IsFiniteSet(0 .. Width - 1) /\ Cardinality(0 .. Width - 1) = Width
  <2>1. 0 \in Int /\ Width - 1 \in Int /\ (0 > Width - 1 => Width = 0) /\ Width - 1 - 0 + 1 = Width
    BY <1>1
  <2> QED BY <2>1, FS_Interval
<1>3. IsFiniteSet(powers) /\ m <= Width
  BY <1>1, <1>2, FS_Subset
<1> HIDE DEF m
<1>4. 2 ^ m \in Nat /\ 2 ^ m <= n
  BY <1>1, PowerDoubles
<1>5. m # Width
  BY <1>4, ChainsAssumption, PowerDoubles
<1>6. \A k \in 0 .. m : k \in powers
  <2> SUFFICES ASSUME NEW k \in 0 .. m PROVE k \in powers
    OBVIOUS
  <2>1. k \in Nat /\ k <= m /\ k \in 0 .. Width - 1
    BY <1>1, <1>3, <1>5
  <2>2. 2 ^ k <= 2 ^ m /\ 2 ^ k \in Nat
    BY <1>1, <2>1, PowerGrows, PowerDoubles
  <2>3. 2 ^ k <= n
    BY <1>4, <2>2
  <2> QED BY <2>1, <2>3
<1>7. 0 .. m \in SUBSET powers
  BY <1>6
<1>8. Cardinality(0 .. m) <= m
  BY <1>1, <1>3, <1>7, FS_Subset
<1>9. Cardinality(0 .. m) = m + 1
  <2>1. 0 \in Int /\ m \in Int /\ ~(0 > m) /\ m - 0 + 1 = m + 1
    BY <1>1
  <2> QED BY <2>1, FS_Interval
<1> QED BY <1>1, <1>8, <1>9

\* The range halves at every probe after those of the budget, which at most leave
\* all of the chain.
Halves(probed) ==
  probed < Budget \/ \E e \in Nat : e + probed = 2 * Budget /\ hi - lo <= 2 ^ e

BInv ==
  /\ probes <= 2 * Budget
  /\ pc \in {"latest", "genesis"} => probes = 0
  /\ pc = "probe" => Halves(probes)

LEMMA WholeChain ==
  ASSUME TypeOK
  PROVE  /\ Budget \in Nat /\ Latest \in Nat
         /\ \A l, h \in 0 .. Latest : h - l <= 2 ^ Budget
<1>1. Budget \in Nat /\ Latest \in Nat
  BY BudgetType, ChainFacts DEF Budget
<1>2. Latest < 2 ^ Width
  <2>1. times \in Seq(Nat) /\ Len(times) <= 2 ^ Width /\ Width \in Nat
    BY ChainsAssumption DEF TypeOK
  <2>2. Len(times) \in Nat /\ 2 ^ Width \in Nat
    BY <2>1, LenProperties, PowerDoubles
  <2> QED BY <2>1, <2>2 DEF Latest
<1>3. Latest < 2 ^ Budget /\ 2 ^ Budget \in Nat
  BY <1>1, <1>2, BitsSuffice, PowerDoubles DEF Budget
<1>4. \A l, h \in 0 .. Latest : h - l <= Latest
  BY <1>1
<1> QED
  <2> SUFFICES ASSUME NEW l \in 0 .. Latest, NEW h \in 0 .. Latest PROVE h - l <= 2 ^ Budget
    BY <1>1
  <2>1. h - l \in Int /\ h - l <= Latest
    BY <1>1, <1>4
  <2> QED BY <1>1, <1>3, <2>1

\* After the budget, the probed block is the middle one.
LEMMA Bisects ==
  ASSUME IInv, pc = "probe", probes >= Budget
  PROVE  Guess = lo + (hi - lo) \div 2
<1>1. lo \in Nat /\ hi \in Nat /\ hi - lo > 1
  BY ChainFacts DEF IInv, TypeOK, Ends
<1>2. lo + (hi - lo) \div 2 \in lo + 1 .. hi - 1
  BY <1>1
<1>3. \A g \in lo + 1 .. hi - 1 : Lower(Higher(g, lo + 1), hi - 1) = g
  BY <1>1 DEF Lower, Higher
<1> QED BY <1>2, <1>3 DEF Guess

LEMMA ProbeHalves ==
  ASSUME IInv, IInv', BInv, Probe
  PROVE  BInv'
<1>1. /\ Budget \in Nat /\ Latest \in Nat /\ probes \in Nat /\ pc = "probe" /\ Halves(probes)
      /\ lo \in 0 .. Latest /\ hi \in 0 .. Latest /\ hi - lo > 1
  BY WholeChain DEF Probe, IInv, TypeOK, BInv, Ends
<1>2. UNCHANGED times
  BY DEF Probe, Narrow
<1>3. Budget' = Budget /\ Latest' = Latest
  BY <1>2 DEF Budget, Latest
<1>4. probes' = Lower(probes + 1, 2 * Budget + 1)
  BY DEF Probe, Narrow, ProbeCap
<1>5. lo' \in 0 .. Latest /\ hi' \in 0 .. Latest
  BY <1>3 DEF IInv, TypeOK
<1>6. pc' \in {"probe", "found"}
  BY DEF Probe, Narrow, Continue
<1>7. CASE probes < Budget
  <2>1. probes' = probes + 1 /\ probes + 1 <= Budget
    BY <1>1, <1>4, <1>7 DEF Lower
  <2>2. hi' - lo' <= 2 ^ Budget
    BY <1>5, WholeChain DEF IInv
  <2>3. CASE probes + 1 < Budget
    BY <1>1, <1>3, <1>6, <2>1, <2>3 DEF BInv, Halves
  <2>4. CASE probes + 1 = Budget
    <3>1. Budget + probes' = 2 * Budget /\ probes' <= 2 * Budget
      BY <1>1, <2>1, <2>4
    <3> QED BY <1>1, <1>3, <1>6, <2>2, <3>1 DEF BInv, Halves
  <2> QED BY <1>1, <2>1, <2>3, <2>4
<1>8. CASE ~(probes < Budget)
  <2>1. PICK e \in Nat : e + probes = 2 * Budget /\ hi - lo <= 2 ^ e
    BY <1>1, <1>8 DEF Halves
  <2>2. e # 0
    <3>1. 2 ^ 0 = 1
      OBVIOUS
    <3>2. \A l, h \in Int : h - l > 1 => ~(h - l <= 1)
      OBVIOUS
    <3>3. lo \in Int /\ hi \in Int
      BY <1>1
    <3>4. e = 0 => hi - lo <= 1
      BY <2>1, <3>1, Zenon
    <3> QED BY <1>1, <3>2, <3>3, <3>4, Zenon
  <2>3. PICK f \in Nat : e = f + 1
    <3>1. e - 1 \in Nat /\ e = e - 1 + 1
      BY <2>2
    <3> QED BY <3>1
  <2>4. 2 ^ f \in Nat /\ 2 ^ e = 2 * 2 ^ f
    BY <2>3, PowerDoubles
  <2>5. probes' = probes + 1 /\ f + probes' = 2 * Budget /\ probes' <= 2 * Budget
    BY <1>1, <1>4, <2>1, <2>3 DEF Lower
  <2>6. \/ hi' = hi /\ lo' = lo + (hi - lo) \div 2
        \/ lo' = lo /\ hi' = lo + (hi - lo) \div 2
    <3>1. Guess = lo + (hi - lo) \div 2
      BY <1>1, <1>8, Bisects
    <3> QED BY <3>1 DEF Probe, Narrow
  <2>7. hi' - lo' <= 2 ^ f
    <3>1. \A l, h, x \in Nat : h - l <= 2 * x =>
            h - (l + (h - l) \div 2) <= x /\ (l + (h - l) \div 2) - l <= x
      OBVIOUS
    <3>2. hi - (lo + (hi - lo) \div 2) <= 2 ^ f /\ (lo + (hi - lo) \div 2) - lo <= 2 ^ f
      <4>1. lo \in Nat /\ hi \in Nat
        BY <1>1
      <4>2. hi - lo <= 2 * 2 ^ f
        BY <2>1, <2>4, Zenon
      <4> DEFINE x == 2 ^ f
      <4>3. x \in Nat /\ hi - lo <= 2 * x
        BY <2>4, <4>2
      <4> HIDE DEF x
      <4>4. hi - (lo + (hi - lo) \div 2) <= x /\ (lo + (hi - lo) \div 2) - lo <= x
        BY <3>1, <4>1, <4>3
      <4> QED BY <4>4, Zenon DEF x
    <3> DEFINE mid == lo + (hi - lo) \div 2
               x == 2 ^ f
    <3>3. hi - mid <= x /\ mid - lo <= x
      BY <3>2, Zenon
    <3>4. (hi' = hi /\ lo' = mid) \/ (lo' = lo /\ hi' = mid)
      BY <2>6
    <3> HIDE DEF mid, x
    <3>5. hi' - lo' <= x
      BY <3>3, <3>4
    <3> QED BY <3>5 DEF x
  <2> QED BY <1>3, <1>6, <2>5, <2>7 DEF BInv, Halves
<1> QED BY <1>7, <1>8

LEMMA NextBInv == IInv /\ IInv' /\ BInv /\ [Next]_vars => BInv'
<1> SUFFICES ASSUME IInv, IInv', BInv, [Next]_vars PROVE BInv'
  OBVIOUS
<1>1. Budget \in Nat /\ Latest \in Nat /\ probes \in Nat
  BY WholeChain DEF IInv, TypeOK
<1>2. ASSUME times' = times PROVE Budget' = Budget
  BY <1>2 DEF Budget, Latest
<1>3. CASE FetchLatest
  BY <1>1, <1>2, <1>3 DEF FetchLatest, BInv
<1>4. CASE FetchGenesis
  <2>0. UNCHANGED <<times, hi, probes>> /\ pc = "genesis" /\ lo' = 0
    BY <1>4 DEF FetchGenesis
  <2>1. probes' = 0 /\ Budget' = Budget /\ lo' = 0 /\ hi' = hi /\ hi \in 0 .. Latest /\ 0 \in 0 .. Latest
    BY <1>1, <1>2, <2>0 DEF BInv, IInv, TypeOK
  <2>2. hi' - lo' <= 2 ^ Budget
    BY <2>1, WholeChain DEF IInv
  <2>3. CASE Budget = 0
    <3>1. 0 + probes' = 2 * Budget' /\ 0 \in Nat /\ hi' - lo' <= 2 ^ 0
      BY <2>1, <2>2, <2>3
    <3>2. Halves(probes)'
      BY <3>1 DEF Halves
    <3> QED BY <1>1, <1>4, <2>1, <3>2 DEF FetchGenesis, Continue, BInv
  <2>4. CASE Budget # 0
    <3>1. Halves(probes)'
      BY <1>1, <2>1, <2>4 DEF Halves
    <3> QED BY <1>1, <1>4, <2>1, <3>1 DEF FetchGenesis, Continue, BInv
  <2> QED BY <2>3, <2>4
<1>5. CASE Probe
  BY <1>5, ProbeHalves
<1>6. CASE CallFails
  BY <1>1, <1>2, <1>6 DEF CallFails, BInv
<1>7. CASE UNCHANGED vars
  BY <1>7, <1>2 DEF vars, BInv, Halves
<1> QED BY <1>3, <1>4, <1>5, <1>6, <1>7 DEF Next

\* On every chain, and wherever interpolation leads, the search probes at most
\* twice as many blocks as the bits of the latest block's number: from the
\* budget on, the range halves at every probe.
THEOREM ProbesBounded == Spec => []AtMostTwiceBisection
<1>1. Init => BInv
  <2> SUFFICES ASSUME Init PROVE BInv
    OBVIOUS
  <2>1. Budget \in Nat
    BY BudgetType DEF Budget
  <2> QED BY <2>1 DEF Init, BInv
<1>2. BInv => AtMostTwiceBisection
  BY DEF BInv, AtMostTwiceBisection
<1> QED BY <1>1, <1>2, InitIInv, NextIInv, NextBInv, PTL DEF Spec
=============================================================================
