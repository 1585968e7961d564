----------------------------- MODULE CallReader -----------------------------
(* internal/checks: a CallReader, which reports the calls of transactions of *)
(* one Safe with the accounts that they are to, as of one block, as `arbot   *)
(* calls` does for a request's transaction, and `arbot executions -calls`    *)
(* for each one that the Safe executed. Each account is read once.           *)
EXTENDS SafeCalls, FiniteSets

CONSTANTS
  Txs,       \* Safe transactions that the reader is asked about
  Safe,      \* the reader's Safe,
  Chain,     \* its chain,
  Covered,   \* and whether the Charter covers it
  HasCode    \* addresses with code at the reader's block

VARIABLES
  tx,        \* the transaction that is being reported
  toRead,    \* accounts left to read for it
  codes,     \* accounts whose code the reader keeps
  safeRead,  \* whether it keeps the Safe's account
  report,    \* the last report
  status,    \* "idle", "reading", or "error", which ends the command
  reads      \* how often each account's code was read

vars == <<tx, toRead, codes, safeRead, report, status, reads>>

NoReport == [target |-> "none", calls |-> <<>>]

Init ==
  /\ tx \in Txs /\ toRead = <<>> /\ codes = {} /\ safeRead = FALSE
  /\ report = NoReport /\ status = "idle"
  /\ reads = [a \in {} |-> 0]

\* Asks for a report: the Safe's account, unless it was read, the target's, and
\* that of each call are read, in order.
Calls ==
  /\ status = "idle"
  /\ \E t \in Txs :
       /\ tx' = t /\ report' = NoReport
       /\ IF t.missing \/ t.safe # Safe \/ t.chain # Chain
          THEN status' = "error" /\ UNCHANGED toRead
          ELSE /\ status' = "reading"
               /\ toRead' = (IF safeRead THEN <<>> ELSE <<Safe, "slot 0">>) \o <<t.to>>
                            \o [k \in DOMAIN Components(t) |-> Components(t)[k].to]
  /\ UNCHANGED <<codes, safeRead, reads>>

Count(a) == [b \in DOMAIN reads \cup {a} |-> (IF b \in DOMAIN reads THEN reads[b] ELSE 0)
                                             + (IF b = a THEN 1 ELSE 0)]

\* Mutant: the Safe's code is taken to be known, as the Safe made the calls.
KnownOrSafe(a) == a \in codes \/ a = Safe

Known(a) == a \in codes

\* Reads the next account, unless it is kept. The storage of the Safe is read
\* once, after which its account is kept.
ReadAccount ==
  /\ status = "reading" /\ toRead # <<>>
  /\ toRead' = Tail(toRead)
  /\ LET a == Head(toRead)
     IN IF a = "slot 0" THEN safeRead' = TRUE /\ UNCHANGED <<codes, reads>>
        ELSE /\ UNCHANGED safeRead
             /\ IF Known(a) THEN UNCHANGED <<codes, reads>>
                ELSE codes' = codes \cup {a} /\ reads' = Count(a)
  /\ UNCHANGED <<tx, report, status>>

ReadFails ==
  /\ status = "reading" /\ toRead # <<>>
  /\ ~Known(Head(toRead))
  /\ status' = "error"
  /\ UNCHANGED <<tx, toRead, codes, safeRead, report, reads>>

ContractAt(a) ==
  IF IsMultiSend(a) THEN (IF MultiSends[a].callOnly THEN "MultiSendCallOnly" ELSE "MultiSend")
  ELSE IF a = "singleton" THEN "Safe" ELSE "none"

Account(a) ==
  [address |-> a, self |-> a = Safe,
   contract |-> IF Covered /\ a \in HasCode THEN ContractAt(a) ELSE "none"]

\* What a root call that stands for the transaction's own call is reported as.
Placeholder(t, c) ==
  IF c.kind # "root" \/ c = OwnCall(t) THEN ""
  ELSE IF c = RevertingMultiSend(c.to) THEN "reverting"
  ELSE IF c = EmptyMultiSend(c.to) THEN "empty"
  ELSE ""

Reported(t, c) == [kind |-> c.kind, placeholder |-> Placeholder(t, c), to |-> Account(c.to)]

Report ==
  /\ status = "reading" /\ toRead = <<>>
  /\ status' = "idle"
  /\ report' = [target |-> tx.to,
                calls |-> [k \in DOMAIN Components(tx) |-> Reported(tx, Components(tx)[k])]]
  /\ UNCHANGED <<tx, toRead, codes, safeRead, reads>>

Next == Calls \/ ReadAccount \/ ReadFails \/ Report

Spec == Init /\ [][Next]_vars

-----------------------------------------------------------------------------

\* A report is of accounts that were all read, by this report or one before it,
\* each once. A call is labelled a placeholder exactly if it stands for the
\* transaction's own call and isn't it, which the own call of a transaction can be
\* equal to: the reported calls show every call that the Safe makes
\* (CallReader.Calls, CallReader.code, expandTransactionCalls).
ReportsWhatItRead ==
  /\ \A a \in DOMAIN reads : reads[a] = 1
  /\ report # NoReport =>
       /\ {report.target, Safe} \cup {report.calls[k].to.address : k \in DOMAIN report.calls} \subseteq codes
       /\ safeRead
       /\ \A k \in DOMAIN report.calls :
            (report.calls[k].placeholder # "") <=>
               /\ report.calls[k].kind = "root"
               /\ ExpandMultiSendCall(tx.safe, OwnCall(tx)).calls = <<>>
               /\ Components(tx)[k] # OwnCall(tx)
=============================================================================
