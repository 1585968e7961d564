----------------------------- MODULE Executions -----------------------------
(* internal/executions: how `arbot executions` finds the Safe transactions   *)
(* that a Safe executed, whose logs have only their hashes, and decodes each *)
(* from the first source that has one with its hash. The onchain             *)
(* transactions that execute them are the chain's: each makes frames, calls  *)
(* of execTransaction in the order that they start, which end, and so are    *)
(* logged, in an order of their own if one executes another, and which may   *)
(* revert. A hash is the pair of the fields and the nonce that it is of.     *)
EXTENDS Sequences, Functions, Orders

CONSTANTS
  Fields,      \* fields of Safe transactions, other than the nonce
  Shapes,      \* onchain transactions: [direct, frames, ends, fakes]
  FirstNonce,  \* the Safe's nonce before the blocks that are searched
  MaxTxs,      \* bound on the onchain transactions in them
  HasService   \* whether a Safe Transaction Service is configured

VARIABLES
  isL2,        \* whether the Safe logs SafeMultiSigTransaction
  chain,       \* the onchain transactions: [tx, start], the latter the nonce before it
  nonce,       \* the Safe's nonce after them
  executions,  \* the executions that the search finds: [tx, hash]
  k,           \* the execution that is decoded
  step,        \* "chain", the source that is tried, "done", or "error"
  nonceNext,   \* the Safe's nonce as read, Unread, or Unknown
  txs, traces, \* what is kept of the onchain transactions: calldata and calls
  found,       \* the sources and transactions of executions so far
  failed       \* the onchain transactions that couldn't be had: <<source, transaction>>

vars == <<isL2, chain, nonce, executions, k, step, nonceNext, txs, traces, found, failed>>

Unread  == -2
Unknown == -1

\* The calls of execTransaction that don't revert, in the order that they start.
Started(tx) == Part(tx.frames, {i \in DOMAIN tx.frames : ~tx.frames[i].reverted})

\* What an onchain transaction is: it is itself at most one call of the Safe, and
\* every execution that starts in it ends.
IsShape(tx) ==
  /\ tx.direct \in {<<>>} \cup {<<f>> : f \in Fields}
  /\ tx.frames \in Seq([fields : Fields, reverted : BOOLEAN])
  /\ DOMAIN tx.ends = DOMAIN Started(tx)

\* The hashes that an onchain transaction executes from nonce n on, in the order
\* that they start. Each execution uses the next nonce when it starts.
Hashes(tx, n) == [j \in DOMAIN Started(tx) |-> <<Started(tx)[j].fields, n + j - 1>>]

\* What is logged: executions as they end, and what a delegate call makes the
\* Safe log that isn't one.
Logged(tx, n) == [j \in DOMAIN tx.ends |-> Hashes(tx, n)[tx.ends[j]]] \o tx.fakes

Init ==
  /\ isL2 \in BOOLEAN
  /\ chain = <<>> /\ nonce = FirstNonce /\ executions = <<>>
  /\ k = 1 /\ step = "chain" /\ nonceNext = Unread
  /\ txs = <<>> /\ traces = <<>> /\ found = <<>> /\ failed = {}

Execute ==
  /\ step = "chain" /\ Len(chain) < MaxTxs
  /\ \E tx \in Shapes :
       /\ chain' = Append(chain, [tx |-> tx, start |-> nonce])
       /\ nonce' = nonce + Len(Started(tx))
       /\ executions' = executions \o
            [j \in DOMAIN Logged(tx, nonce) |-> [tx |-> Len(chain) + 1, hash |-> Logged(tx, nonce)[j]]]
  /\ UNCHANGED <<k, step, nonceNext, txs, traces, found, failed>>

\* The logs are scanned, as ScanLogs does, and each execution is decoded.
Find ==
  /\ step = "chain"
  /\ step' \in {IF executions = <<>> THEN "done" ELSE "event", "error"}
  /\ UNCHANGED <<chain, nonce, executions, k, nonceNext, txs, traces, found, failed>>

-----------------------------------------------------------------------------

E == executions[k]

\* The SafeMultiSigTransaction logs of an onchain transaction.
Events(t) == IF isL2 THEN Hashes(chain[t].tx, chain[t].start) ELSE <<>>

Matches(tx, want) == tx = want

\* The execution is decoded, or no source has its transaction.
Decoded(source, tx) ==
  /\ found' = Append(found, [source |-> source, transaction |-> tx])
  /\ k' = k + 1
  /\ step' = IF k = Len(executions) THEN "done" ELSE "event"

TryNext(source) == step' = source /\ UNCHANGED <<k, found>>

FromEvent ==
  /\ step = "event"
  /\ IF \E j \in DOMAIN Events(E.tx) : Matches(Events(E.tx)[j], E.hash)
     THEN Decoded("event", E.hash)
     ELSE TryNext("nonce")
  /\ UNCHANGED <<chain, nonce, executions, nonceNext, txs, traces, failed>>

NonceUnread == nonceNext = Unread

ReadNonce ==
  /\ step = "nonce" /\ NonceUnread
  /\ nonceNext' \in {nonce, Unknown}
  /\ UNCHANGED <<chain, nonce, executions, k, step, txs, traces, found, failed>>

\* Mutant: the nonce is counted from the one that the next execution will use.
CountedFromNext(j) == nonceNext - (Len(executions) - j)

\* The nonce that execution j used, if every execution up to the last block
\* used one, in the order of their logs.
Nonce(j) == nonceNext - (Len(executions) - j + 1)

ChooseSource ==
  /\ step = "nonce" /\ ~NonceUnread
  /\ TryNext(IF nonceNext # Unknown /\ Nonce(k) >= 0 THEN "calldata" ELSE "service")
  /\ UNCHANGED <<chain, nonce, executions, nonceNext, txs, traces, failed>>

\* The calls of execTransaction in inputs that have the hash of the execution.
Candidates(inputs) == {f \in Range(inputs) : Matches(<<f, Nonce(k)>>, E.hash)}

\* Keeps what the node has of an onchain transaction, or nothing if it fails.
Fetch(cache, has) ==
  IF E.tx \in DOMAIN cache
  THEN UNCHANGED <<cache, failed>>
  ELSE \E fails \in BOOLEAN :
         /\ cache' = [t \in DOMAIN cache \cup {E.tx} |->
                        IF t # E.tx THEN cache[t] ELSE IF fails THEN <<>> ELSE has]
         /\ failed' = failed \cup (IF fails THEN {<<step, E.tx>>} ELSE {})

\* From the calldata of an onchain transaction to the Safe.
FromCalldata ==
  /\ step = "calldata"
  /\ Fetch(txs, chain[E.tx].tx.direct)
  /\ IF Candidates(txs'[E.tx]) # {}
     THEN Decoded("calldata", <<CHOOSE f \in Candidates(txs'[E.tx]) : TRUE, Nonce(k)>>)
     ELSE TryNext("trace")
  /\ UNCHANGED <<chain, nonce, executions, nonceNext, traces>>

\* From a trace, of the calls that weren't undone.
CallsTo(tx) == [j \in DOMAIN Started(tx) |-> Started(tx)[j].fields]

FromTrace ==
  /\ step = "trace"
  /\ Fetch(traces, CallsTo(chain[E.tx].tx))
  /\ IF Candidates(traces'[E.tx]) # {}
     THEN Decoded("trace", <<CHOOSE f \in Candidates(traces'[E.tx]) : TRUE, Nonce(k)>>)
     ELSE TryNext("service")
  /\ UNCHANGED <<chain, nonce, executions, nonceNext, txs>>

\* Mutant: what the service has for a hash is taken to have that hash.
Trusted(tx, want) == TRUE

\* Whether a transaction that the service sent is the one that was asked for.
ServiceMatches(tx, want) == Matches(tx, want)

\* The service has the transaction, or another, or none, or fails.
FromService ==
  /\ step = "service"
  /\ \/ \E tx \in {E.hash} \cup (Fields \X {0}) :
          HasService /\ ServiceMatches(tx, E.hash) /\ Decoded("service", tx)
     \/ Decoded("", <<>>)
  /\ UNCHANGED <<chain, nonce, executions, nonceNext, txs, traces, failed>>

Next ==
  /\ UNCHANGED isL2
  /\ \/ Execute \/ Find \/ FromEvent \/ ReadNonce \/ ChooseSource
     \/ FromCalldata \/ FromTrace \/ FromService

Spec == Init /\ [][Next]_vars

-----------------------------------------------------------------------------

\* A transaction is only reported if the Safe logged its hash, with its nonce,
\* whatever the service claims, and however the nonces were worked out
\* (matches, candidate).
ReportsWhatWasLogged ==
  \A j \in DOMAIN found : found[j].source # "" => found[j].transaction = executions[j].hash

IsPlain(tx) == tx.fakes = <<>> /\ \A j \in DOMAIN tx.ends : tx.ends[j] = j

Plain == \A t \in DOMAIN chain : IsPlain(chain[t].tx)

\* The first source that has execution j, and that the node didn't fail to send:
\* the calldata and the trace take the nonce, and the trace has every execution.
FirstThatAnswers(j) ==
  LET t      == executions[j].tx
      direct == chain[t].tx.direct = <<executions[j].hash[1]>>
      Answered(source) == nonceNext # Unknown /\ <<source, t>> \notin failed
  IN IF isL2 THEN {"event"}
     ELSE IF direct /\ Answered("calldata") THEN {"calldata"}
     ELSE IF Answered("trace") THEN {"trace"}
     ELSE {"service", ""}

\* If no execution executes another, then every execution is decoded from the
\* first source that answers and has it, whatever reverts, however many are in
\* one onchain transaction, and whatever failed before, for it or for another:
\* a failure neither passes by a later source, nor an execution that needs
\* nothing of what failed, nor is it asked for again (decoder).
TakenFromFirst ==
  Plain => \A j \in DOMAIN found : found[j].source \in FirstThatAnswers(j)

\* What decode.go says of the nonces: every execution uses one, so that the last
\* execution used the Safe's nonce at the last block, less one.
LastUsedLastNonce ==
  (\A t \in DOMAIN chain : chain[t].tx.fakes = <<>>) /\ nonceNext >= 0 =>
    Nonce(Len(executions)) = executions[Len(executions)].hash[2]
=============================================================================
