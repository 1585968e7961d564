---------------------------- MODULE SearchBlock ----------------------------
(***************************************************************************)
(* ethrpc.Client.SearchBlock (internal/ethrpc/search.go): an interpolation *)
(* search for the last block with a timestamp strictly before a time,      *)
(* which falls back to bisection once a binary search would have finished. *)
(*                                                                         *)
(* A block is abstracted to its number and timestamp. The chain above the  *)
(* latest block when the search starts plays no part in it.                *)
(***************************************************************************)
EXTENDS Integers, Sequences, FiniteSets

CONSTANTS
  Chains,       \* the chains: sequences of timestamps, that of block 0 first
  SearchTimes,  \* the times to search for
  Width         \* the bits of a block number: 64 in the code

\* Chains give each block a timestamp that is not before its parent's, and may
\* give several blocks the same one. Numbers of blocks fit in their type.
ASSUME ChainsAssumption ==
  /\ Chains \subseteq Seq(Nat)
  /\ \A c \in Chains :
       /\ Len(c) > 0 /\ Len(c) <= 2 ^ Width
       /\ \A i, j \in 1 .. Len(c) : i <= j => c[i] <= c[j]
  /\ SearchTimes \subseteq Nat
  /\ Width \in Nat

VARIABLES
  times,        \* the timestamps of blocks 0 to the latest one
  t,            \* the searched time
  pc,           \* "latest" and "genesis" fetch the ends, then "probe", or a result
  lo, hi,       \* the closest blocks known to be before t, and not before t
  prev, last,   \* the last two blocks that were fetched
  probes        \* the probes so far, not counting the ends

vars == <<times, t, pc, lo, hi, prev, last, probes>>

Latest == Len(times) - 1
Time(n) == times[n + 1]

Lower(a, b) == IF a <= b THEN a ELSE b
Higher(a, b) == IF a >= b THEN a ELSE b

\* bits.Len64: the number of bits that n takes, and of powers of 2 up to n.
BitLen(n) == Cardinality({k \in 0 .. Width - 1 : 2 ^ k <= n})

Results == {"found", "too late", "too early", "error"}

TypeOK ==
  /\ times \in Chains /\ t \in SearchTimes
  /\ pc \in {"latest", "genesis", "probe"} \cup Results
  /\ {lo, hi, prev, last} \subseteq 0 .. Latest
  /\ probes \in Nat

Init ==
  /\ times \in Chains
  /\ t \in SearchTimes
  /\ pc = "latest"
  /\ lo = 0 /\ hi = 0 /\ prev = 0 /\ last = 0
  /\ probes = 0

\* Mutant: a refusal at t.
FetchLatestStrict ==
  /\ pc = "latest"
  /\ hi' = Latest
  /\ pc' = IF Time(Latest) <= t THEN "too late" ELSE "genesis"
  /\ UNCHANGED <<times, t, lo, prev, last, probes>>

\* The latest block must not be before t: a later one could be before t too.
FetchLatest ==
  /\ pc = "latest"
  /\ hi' = Latest
  /\ pc' = IF Time(Latest) < t THEN "too late" ELSE "genesis"
  /\ UNCHANGED <<times, t, lo, prev, last, probes>>

\* Mutants: the search stops with a block between lo and hi, or never.
ContinueTooShort(l, h) == IF h - l > 2 THEN "probe" ELSE "found"
ContinueForever(l, h) == IF h - l > 0 THEN "probe" ELSE "found"

\* The search is over when no block is between lo and hi.
Continue(l, h) == IF h - l > 1 THEN "probe" ELSE "found"

\* The genesis block must be before t.
FetchGenesis ==
  /\ pc = "genesis"
  /\ lo' = 0
  /\ prev' = 0
  /\ last' = hi
  /\ pc' = IF Time(0) < t THEN Continue(0, hi) ELSE "too early"
  /\ UNCHANGED <<times, t, hi, probes>>

\* The block that would be at t if block times were steady from a to b, rounded
\* down, and 0 if that is before the genesis block.
Estimate(a, b) ==
  LET blocks == Higher(a, b) - Lower(a, b)
      seconds == Higher(Time(a), Time(b)) - Lower(Time(a), Time(b))
  IN  Higher(b + ((t - Time(b)) * blocks) \div seconds, 0)

Budget == BitLen(Latest)

\* Bound: the count of probes stops here, where AtMostTwiceBisection has failed.
ProbeCap == 2 * Budget + 1

\* Mutant: no budget for the estimates.
GuessByInterpolation ==
  LET near == Estimate(prev, last)
      usable == Time(prev) # Time(last) /\ lo <= near /\ near <= hi
      guess == IF usable THEN near ELSE Estimate(lo, hi)
  IN  Lower(Higher(guess, lo + 1), hi - 1)

\* The next block to fetch: the estimate from the last two blocks, or from lo
\* and hi if that is out of range, or the middle once the budget is used up.
\* The last two lines keep it strictly between lo and hi.
Guess ==
  LET near == Estimate(prev, last)
      usable == Time(prev) # Time(last) /\ lo <= near /\ near <= hi
      guess == IF probes >= Budget THEN lo + (hi - lo) \div 2
               ELSE IF usable THEN near
               ELSE Estimate(lo, hi)
  IN  Lower(Higher(guess, lo + 1), hi - 1)

\* Fetching block n narrows the range from its side of t.
Narrow(n) ==
  /\ IF Time(n) < t
     THEN lo' = n /\ UNCHANGED hi
     ELSE hi' = n /\ UNCHANGED lo
  /\ prev' = last
  /\ last' = n
  /\ probes' = Lower(probes + 1, ProbeCap)
  /\ pc' = Continue(lo', hi')
  /\ UNCHANGED <<times, t>>

Probe == pc = "probe" /\ Narrow(Guess)

\* Any of the calls can fail.
CallFails ==
  /\ pc \in {"latest", "genesis", "probe"}
  /\ pc' = "error"
  /\ UNCHANGED <<times, t, lo, hi, prev, last, probes>>

Next == FetchLatest \/ FetchGenesis \/ Probe \/ CallFails

Spec == Init /\ [][Next]_vars

\* Calls that don't fail return at some point.
FairSpec == Spec /\ WF_vars(FetchLatest \/ FetchGenesis \/ Probe)
-----------------------------------------------------------------------------
\* The result is the last block with a timestamp strictly before t, whatever the
\* block times are, equal timestamps and long gaps included.
FindsLastBlockBefore ==
  pc = "found" =>
    /\ Time(lo) < t
    /\ \A n \in 0 .. Latest : Time(n) < t => n <= lo

\* A search is only refused if t has no last block before it on this chain, or
\* if that block isn't known yet.
RefusalsJustified ==
  /\ pc = "too late" => \A n \in 0 .. Latest : Time(n) < t
  /\ pc = "too early" => \A n \in 0 .. Latest : ~(Time(n) < t)

\* The search keeps lo before t, and hi at or after t.
Bracketed ==
  pc \in {"probe", "found"} => lo < hi /\ Time(lo) < t /\ ~(Time(hi) < t)

\* The search fetches at most about twice as many headers as a binary search.
AtMostTwiceBisection == probes <= 2 * Budget

\* Every search ends, as every probe narrows the range.
Termination == <>(pc \in Results)
=============================================================================
