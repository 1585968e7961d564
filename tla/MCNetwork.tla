---------------------------- MODULE MCNetwork -----------------------------
(* Three callers of two chains. The first node that the list has for Mainnet *)
(* serves Gnosis Chain, and the second can't be used.                        *)
EXTENDS Network

CONSTANTS c1, c2

MCAsks ==
  {[c \in Callers |-> IF c \in asking THEN "gnosis" ELSE "mainnet"] : asking \in {{}, {c1}, {c1, c2}}}

MCServes == [n1 |-> "mainnet", n2 |-> "gnosis", n3 |-> "gnosis", ws |-> "mainnet"]

MCListed == [mainnet |-> <<"n2", "ws", "n1">>, gnosis |-> <<"n3", "n2">>]

Nowhere == [h \in {} |-> "n1"]

MCConfigurations == {Nowhere, [mainnet |-> "n1"], [mainnet |-> "n2"]}
=============================================================================
