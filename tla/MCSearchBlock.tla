--------------------------- MODULE MCSearchBlock ---------------------------
(***************************************************************************)
(* SearchBlock for TLC: every chain of up to 6 blocks with timestamps up   *)
(* to 5, and chains of 20 to 33 blocks with long stretches of one          *)
(* timestamp, on which interpolation alone would probe nearly every block. *)
(***************************************************************************)
EXTENDS SearchBlock

ShortChains ==
  UNION {{c \in [1 .. n -> 0 .. 5] : \A i \in 1 .. n - 1 : c[i] <= c[i + 1]} : n \in 1 .. 6}

\* The genesis block, then blocks at time 1, blocks at time 2, and blocks at 60.
Plateau(n, i, j) == [k \in 1 .. n |-> IF k = 1 THEN 0 ELSE IF k < i THEN 1 ELSE IF k < j THEN 2 ELSE 60]
PlateauChains == {Plateau(n, i, j) : n \in {20, 33}, i \in 2 .. 20, j \in 15 .. 33}

MCChains == ShortChains \cup PlateauChains
MCSearchTimes == 0 .. 6 \cup {59, 60, 61}
=============================================================================
