------------------------------ MODULE Evidence ------------------------------
(* arbot contract-source, signatures and events (internal/cli), with         *)
(* internal/sourcify, signatures and events: what is shown as evidence of a  *)
(* request is about its Safe's chain as of the Safe block, though the chain  *)
(* has gone on, accounts got other code, and Sourcify verified whatever code *)
(* it fetched at some time. Source files, ABIs and amounts are data.         *)
EXTENDS Naturals, Sequences, Functions

CONSTANTS
  Questions,    \* what may be asked: [command, block, tx]
  Histories,    \* the code of the account at each block, "" if it has none
  ABIs,         \* the ABIs that a contract may have: sequences of [type, selector]
  Receipts      \* what a node may return: [tx, block, success, logs]

VARIABLES
  question,     \* the command, with the request's Safe block, and the transaction
  codes,        \* the account's code at each block, from block 1
  phase,        \* "open", "code", "lookup" or "receipt", or "done" or "failed"
  code,         \* the account's code as of the Safe block
  answer        \* what is reported

vars == <<question, codes, phase, code, answer>>

Nothing == [status |-> "none"]

Init ==
  /\ question \in Questions /\ codes \in Histories
  /\ phase = "open" /\ code = "" /\ answer = Nothing

\* openSafe refuses a request without a Safe block.
OpenSafe ==
  /\ phase = "open"
  /\ phase' = IF question.block = 0 THEN "failed"
              ELSE IF question.command = "events" THEN "receipt" ELSE "code"
  /\ UNCHANGED <<question, codes, code, answer>>

\* Mutant: the code is read as of the latest block.
LatestBlock == Len(codes)

AsOf == question.block

ReadCode ==
  /\ phase = "code"
  /\ code' = codes[AsOf]
  /\ IF code' = "" THEN phase' = "done" /\ answer' = [status |-> "no-code"]
                   ELSE phase' = "lookup" /\ UNCHANGED answer
  /\ UNCHANGED <<question, codes>>

\* A contract that Sourcify verified: its runtime code, whether it is compiled
\* from the sources or only its creation code is, the code that the sources
\* compile to, and the ABI.
Contracts ==
  LET known == {codes[b] : b \in DOMAIN codes} \ {""}
  IN {c \in [runtime : known, match : BOOLEAN, compiled : known, abi : ABIs] :
        c.match => c.compiled = c.runtime}

SameCode(c) == c.runtime = code

Functions(abi) == {k \in DOMAIN abi : abi[k].type = "function"}

\* Functions with one selector, which no compiler makes, can't be told apart.
Ambiguous(abi) ==
  \E i, j \in Functions(abi) : i # j /\ abi[i].selector = abi[j].selector

Verified(c) ==
  [status |-> "verified", contract |-> c,
   functions |-> {c.abi[k].selector : k \in Functions(c.abi)}]

\* sourcify.Fetch, and signatures.Lookup of what it returns.
Lookup ==
  /\ phase = "lookup"
  /\ \/ phase' = "done" /\ answer' = [status |-> "unverified"]
     \/ \E c \in Contracts :
          IF SameCode(c) /\ c.match /\ ~(question.command = "signatures" /\ Ambiguous(c.abi))
          THEN phase' = "done" /\ answer' = Verified(c)
          ELSE phase' = "failed" /\ UNCHANGED answer
  /\ UNCHANGED <<question, codes, code>>

\* The layouts of well-known events: how many parameters are indexed, how many
\* words the others have, and whether bytes follow those. ERC-721 indexes the ID
\* of Transfer, and later Safe versions the hash of ExecutionSuccess.
Layout(indexed, words, dynamic) == [indexed |-> indexed, words |-> words, dynamic |-> dynamic]

Definitions ==
  [Transfer |-> <<Layout(2, 1, FALSE), Layout(3, 0, FALSE)>>,
   ExecutionSuccess |-> <<Layout(0, 2, FALSE), Layout(1, 1, FALSE)>>,
   SafeMultiSigTransaction |-> <<Layout(0, 11, TRUE)>>]

\* A log that is valid has values of the parameters' types.
Fits(d, log) ==
  /\ log.valid /\ log.topics = d.indexed + 1
  /\ IF d.dynamic THEN log.words >= d.words ELSE log.words = d.words

\* The first layout of the log's event that the log has, or none.
Decode(log) ==
  LET defs  == IF log.event \in DOMAIN Definitions THEN Definitions[log.event] ELSE <<>>
      fits  == {k \in DOMAIN defs : Fits(defs[k], log)}
      first == CHOOSE k \in fits : \A j \in fits : k <= j
  IN IF fits = {} THEN <<>> ELSE <<defs[first]>>

Events(receipt) ==
  [status |-> IF receipt.success THEN "success" ELSE "reverted",
   tx |-> receipt.tx, block |-> receipt.block,
   events |-> [k \in DOMAIN receipt.logs |-> Decode(receipt.logs[k])],
   logs |-> receipt.logs]

InTime(receipt) == receipt.block <= question.block

ReadReceipt ==
  /\ phase = "receipt"
  /\ \E receipt \in Receipts :
       IF receipt.tx = question.tx /\ InTime(receipt)
       THEN phase' = "done" /\ answer' = Events(receipt)
       ELSE phase' = "failed" /\ UNCHANGED answer
  /\ UNCHANGED <<question, codes, code>>

\* A file can't be read, a node or Sourcify doesn't answer, or -file names no source.
Fails ==
  /\ phase \in {"open", "code", "lookup", "receipt"}
  /\ phase' = "failed"
  /\ UNCHANGED <<question, codes, code, answer>>

Next == OpenSafe \/ ReadCode \/ Lookup \/ ReadReceipt \/ Fails

Spec == Init /\ [][Next]_vars

-----------------------------------------------------------------------------

\* Sources and functions are those of the code that the account has at the Safe
\* block (Fetch, "such as for a contract that was destroyed and created again
\* since"), and an account is only said to have no code if it has none then.
\* Events are the transaction's that was asked for, in a block up to the Safe
\* block (eventsCommand, "whose events aren't evidence of the proposal"), and are
\* never shown as those of a standard with another layout.
EvidenceOfTheBlock ==
  /\ answer.status = "verified" =>
       /\ answer.contract.compiled = codes[question.block]
       /\ question.command = "signatures" =>
            \A i, j \in DOMAIN answer.contract.abi :
              answer.contract.abi[i] = answer.contract.abi[j] /\ i # j
                => answer.contract.abi[i].type # "function"
  /\ answer.status = "no-code" => codes[question.block] = ""
  /\ answer.status \in {"success", "reverted"} =>
       /\ answer.tx = question.tx /\ answer.block <= question.block
       /\ \A k \in DOMAIN answer.logs : \A d \in Range(answer.events[k]) :
            /\ answer.logs[k].valid /\ d.indexed = answer.logs[k].topics - 1
            /\ ~d.dynamic => d.words = answer.logs[k].words
=============================================================================
