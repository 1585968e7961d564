---------------------------- MODULE MCExecutions ----------------------------
(* Executions for TLC, on its own: onchain transactions that execute one     *)
(* Safe transaction, or one that executes another before it ends.            *)
EXTENDS Executions

Frame(f) == [fields |-> f, reverted |-> FALSE]

Shape(direct, frames, ends) == [direct |-> direct, frames |-> frames, ends |-> ends, fakes |-> <<>>]

MCShapes ==
  {Shape(<<f>>, <<Frame(f)>>, <<1>>) : f \in Fields} \cup
  {Shape(<<f>>, <<Frame(f), Frame(g)>>, <<2, 1>>) : f, g \in Fields}
=============================================================================
