----------------------------- MODULE SafeCalls -----------------------------
(* The calls that a Safe transaction makes, as internal/checks decodes them. *)
(* An address is the name of what is there, and a call's data is a record of *)
(* what the checks tell apart:                                               *)
(*   fn      the function that its selector names, or "none" for no data     *)
(*   len     whether it is "short" for fn's arguments, "exact", or "long"    *)
(*   dirty   whether an argument's upper bytes aren't zero                   *)
(*   arg     the owner or handler that it adds: "zero", "sentinel", "other"  *)
(*   decodes, txs  for multiSend, whether its argument decodes, and the      *)
(*                 transactions that are packed in it                        *)
(* A packed transaction's "cut" is how much of it is there: all of it        *)
(* ("no"), the data but for its end ("data"), less than any byte of its      *)
(* data's length that isn't zero ("head"), or so little that it is ignored   *)
(* ("tail"). Its value is that with zeros for what isn't there, and so is    *)
(* the arg of data that is "short".                                          *)
EXTENDS Integers, Sequences, SequencesExt

CONSTANTS
  Call,          \* calls that transactions make, closed under decoding batches
  Nesting,       \* how deep the batches in each of them nest,
  DeepestBatch,  \* and may nest: what is packed in a call's data is less than it
  MaxUint256     \* the largest amount

\* Addresses of MultiSend and MultiSendCallOnly. 1.3.0 and 1.4.1 are alike.
MultiSends ==
  [multiSend   |-> [version |-> "1.4.1", callOnly |-> FALSE],
   callOnly    |-> [version |-> "1.4.1", callOnly |-> TRUE],
   multiSend15 |-> [version |-> "1.5.0", callOnly |-> FALSE],
   callOnly15  |-> [version |-> "1.5.0", callOnly |-> TRUE]]

IsMultiSend(a) == a \in DOMAIN MultiSends

NoData == [fn |-> "none", len |-> "exact", dirty |-> FALSE, arg |-> "other",
           decodes |-> TRUE, txs |-> <<>>]

Data(fn) == [NoData EXCEPT !.fn = fn]

RevertingMultiSend(to) ==
  [to |-> to, value |-> 0, data |-> NoData, op |-> "call", kind |-> "root"]

EmptyMultiSend(to) ==
  [to |-> to, value |-> 0, data |-> Data("multiSend"), op |-> "delegatecall", kind |-> "root"]

-----------------------------------------------------------------------------

\* The memory past the end of the packed transactions is zero: data that ends
\* early goes on with zeros, and so has all its arguments.
Padded(t) ==
  CASE t.cut = "no"   -> t.data
    [] t.cut = "data" -> [t.data EXCEPT !.len = IF @ = "short" THEN "exact" ELSE "long"]
    [] t.cut = "head" -> NoData

\* Only the last transaction isn't whole.
Transactions(data) ==
  IF data.txs # <<>> /\ Last(data.txs).cut = "tail" THEN Front(data.txs) ELSE data.txs

\* A transaction that makes the MultiSend revert: more than maxDataLength
\* bytes, or an operation that it doesn't have.
Invalid(ms, t) ==
  \/ t.huge /\ t.cut # "head"
  \/ t.op \notin (IF ms.callOnly THEN {"call"} ELSE {"call", "delegatecall"})

\* The call that a MultiSend makes for a transaction.
Batched(safe, ms, t) ==
  [to   |-> IF t.to = "zero" /\ ms.version = "1.5.0" THEN safe ELSE t.to, value |-> t.value,
   data |-> Padded(t), op |-> t.op, kind |-> "batched"]

Makes(calls) == [reverts |-> FALSE, calls |-> calls]
Reverts      == [reverts |-> TRUE, calls |-> <<>>]

\* MultiSend has no fallback, and only runs in a delegate call.
RevertsAlways(c) ==
  c.data.fn # "multiSend" \/ (c.op = "call" /\ ~MultiSends[c.to].callOnly)

ExpandMultiSendCall(safe, call) ==
  LET expand[c \in Call] ==
        IF ~IsMultiSend(c.to) THEN Makes(<<c>>)
        ELSE IF RevertsAlways(c) THEN Reverts
        ELSE IF c.op # "delegatecall" \/ ~c.data.decodes THEN Makes(<<c>>)
        ELSE LET ms   == MultiSends[c.to]
                 txs  == Transactions(c.data)
                 subs == [i \in DOMAIN txs |-> expand[Batched(safe, ms, txs[i])]]
             IN IF \E i \in DOMAIN txs : Invalid(ms, txs[i]) \/ subs[i].reverts
                THEN Reverts
                ELSE Makes(FlattenSeq([i \in DOMAIN subs |-> subs[i].calls]))
  IN expand[call]

\* The transaction's own call, and the calls that the Safe makes for it.
OwnCall(tx) == [to |-> tx.to, value |-> tx.value, data |-> tx.data, op |-> tx.op, kind |-> "root"]

ExpandTransactionCalls(tx) ==
  LET e == ExpandMultiSendCall(tx.safe, OwnCall(tx))
  IN IF e.reverts THEN <<RevertingMultiSend(tx.to)>>
     ELSE IF e.calls = <<>> THEN <<EmptyMultiSend(tx.to)>>
     ELSE e.calls

\* The largest gas refund that a transaction allows, as a call: of ether if the
\* gas token is the zero address.
RefundAmount(tx) ==
  LET paid == (tx.safeTxGas + tx.baseGas) * tx.gasPrice
  IN IF paid > MaxUint256 THEN MaxUint256 ELSE paid

GasRefund(tx) ==
  IF tx.gasToken = "zero"
  THEN [to |-> tx.refundReceiver, value |-> RefundAmount(tx), data |-> NoData,
        op |-> "call", kind |-> "refund"]
  ELSE [to |-> tx.gasToken, value |-> 0, data |-> Data("transfer"), op |-> "call", kind |-> "refund"]

\* Every call that checks judge. The caller has checked that no amount of tx is
\* missing.
Components(tx) ==
  ExpandTransactionCalls(tx) \o (IF tx.gasPrice = 0 THEN <<>> ELSE <<GasRefund(tx)>>)
=============================================================================
