------------------------------ MODULE Proposals ------------------------------
(* internal/safenet: what a request is judged against. Request reads how the *)
(* oracle is set up, finds the proposal that the request is for in the block *)
(* of its logs, and, concurrently, the blocks that were the last before it   *)
(* on Ethereum Mainnet and on the Safe's chain, while the chains grow.       *)
(*                                                                           *)
(* A chain is the times of its blocks, from block 0; SearchBlock is the      *)
(* module of that name. A hash is what it is a hash of. Reorganizations are  *)
(* left to module Safenet.                                                   *)
EXTENDS Integers, Sequences

CONSTANTS
  SafeChains,   \* chain IDs of Safe transactions: "gnosis", "mainnet", others, and "huge"
  Oracles,      \* how an oracle may be set up: [proposer, decimals]
  Logs,         \* the TransactionProposed logs that the proposal's block may have
  Times,        \* times of blocks
  MaxHeight     \* bound: the highest block of a chain

Gnosis == "gnosis"

Mainnet == "mainnet"

\* An ID that doesn't fit in 64 bits.
Huge == "huge"

VARIABLES
  chains,     \* each chain's block times
  oracle,     \* how the oracle is set up
  logs,       \* the logs in the proposal's block, in order
  id,         \* the request: a hash
  block,      \* the block of its proposal
  pc,         \* "config", "logs", "header", "search", "join", "parent", "done" or "error"
  proposal,   \* the proposal that was found
  found,      \* the blocks that the searches found, or "error"
  result      \* the proposal's time, and the blocks before it

vars == <<chains, oracle, logs, id, block, pc, proposal, found, result>>

Height(c) == Len(chains[c]) - 1

Time(c, b) == chains[c][b + 1]

NoBlocks == [c \in {} |-> 0]

NoResult == [time |-> 0, ethereumBlock |-> 0, safeBlock |-> 0]

\* The hash of a Safe transaction, and the request ID of a proposal of one.
Hash(tx) == <<tx>>

RequestID(epoch, hash) == <<epoch, hash>>

Chains == ({Gnosis, Mainnet} \cup SafeChains) \ {Huge}

NonDecreasing(s) == \A k \in DOMAIN s : k > 1 => s[k - 1] <= s[k]

Init ==
  /\ oracle \in Oracles /\ logs \in Logs
  /\ id \in {RequestID(1, Hash(tx)) : tx \in {logs[k].tx : k \in DOMAIN logs}}
  /\ \E times \in {t \in [1..1 -> Times] \cup [1..2 -> Times] : NonDecreasing(t)} :
       /\ chains = [c \in Chains |-> IF c = Gnosis THEN <<0>> \o times ELSE <<0>>]
       /\ block \in DOMAIN times
  /\ pc = "config" /\ proposal = <<>> /\ found = NoBlocks /\ result = NoResult

\* Each chain's blocks are at least as late as their parents.
ChainGrows(c) ==
  /\ Height(c) < MaxHeight
  /\ \E t \in Times : /\ t >= Time(c, Height(c))
                      /\ chains' = [chains EXCEPT ![c] = Append(@, t)]
  /\ UNCHANGED <<oracle, logs, id, block, pc, proposal, found, result>>

\* Any of the calls fails.
CallFails ==
  /\ pc \in {"config", "logs", "header", "parent"}
  /\ pc' = "error"
  /\ UNCHANGED <<chains, oracle, logs, id, block, proposal, found, result>>

ReadConfig ==
  /\ pc = "config"
  /\ pc' = IF oracle.proposer = "consensus" /\ oracle.decimals <= 255 THEN "logs" ELSE "error"
  /\ UNCHANGED <<chains, oracle, logs, id, block, proposal, found, result>>

Relevant == {k \in DOMAIN logs : ~logs[k].removed /\ logs[k].topics = 4}

HashesFit(l) == Hash(l.tx) = l.hash

\* Mutant: the first proposal in the block is taken.
FirstLog(l) == TRUE

IsRequested(l) == RequestID(l.epoch, l.hash) = id

\* The logs are looked at in order, up to one that can't be decoded, or the
\* request's, whose hashes must fit.
FindProposal ==
  LET ends  == {k \in Relevant : ~logs[k].valid \/ IsRequested(logs[k])}
      first == CHOOSE k \in ends : \A j \in ends : k <= j
      fits  == ends # {} /\ logs[first].valid /\ HashesFit(logs[first])
  IN /\ pc = "logs"
     /\ pc' = IF fits THEN "header" ELSE "error"
     /\ proposal' = IF fits THEN <<logs[first]>> ELSE proposal
     /\ UNCHANGED <<chains, oracle, logs, id, block, found, result>>

SafeChain == proposal[1].tx.chain

ReadHeader ==
  /\ pc = "header"
  /\ result' = [result EXCEPT !.time = Time(Gnosis, block)]
  /\ pc' = IF SafeChain = Huge THEN "error" ELSE "search"
  /\ UNCHANGED <<chains, oracle, logs, id, block, proposal, found>>

\* The chains that are searched. Gnosis Chain has the proposal's own block.
Searched == {Mainnet, SafeChain} \ {Gnosis}

Before(c, t) == {b \in 0..Height(c) : Time(c, b) < t}

LastBefore(c, t) == CHOOSE b \in Before(c, t) : b + 1 \notin Before(c, t)

\* Mutant: a chain that is behind is taken to have no more blocks before t.
AnyBefore(c, t) == Before(c, t) # {}

CanSearch(c, t) == Before(c, t) # {} /\ Time(c, Height(c)) >= t

\* SearchBlock finds the last block before t, unless the chain is behind t, or
\* has none.
SearchBlock(c, t) == IF CanSearch(c, t) THEN {LastBefore(c, t), -1} ELSE {-1}

\* One of the searches ends, in any order.
Search(c) ==
  /\ pc = "search" /\ c \in Searched \ DOMAIN found
  /\ \E b \in SearchBlock(c, result.time) :
       found' = [d \in DOMAIN found \cup {c} |-> IF d = c THEN b ELSE found[d]]
  /\ UNCHANGED <<chains, oracle, logs, id, block, pc, proposal, result>>

\* All searches ended, and none failed.
Join ==
  /\ pc = "search" /\ DOMAIN found = Searched
  /\ IF \E c \in Searched : found[c] = -1
     THEN pc' = "error" /\ UNCHANGED result
     ELSE /\ pc' = IF SafeChain = Gnosis THEN "parent" ELSE "done"
          /\ result' = [result EXCEPT !.ethereumBlock = found[Mainnet],
                                      !.safeBlock = IF SafeChain = Gnosis THEN @ ELSE found[SafeChain]]
  /\ UNCHANGED <<chains, oracle, logs, id, block, proposal, found>>

ParentIsBefore == Time(Gnosis, block - 1) < result.time

\* On its own chain, the block before the proposal's, unless that has its time.
ParentBlock ==
  /\ pc = "parent"
  /\ \E b \in IF ParentIsBefore THEN {block - 1} ELSE SearchBlock(Gnosis, result.time) :
       IF b = -1 THEN pc' = "error" /\ UNCHANGED result
       ELSE pc' = "done" /\ result' = [result EXCEPT !.safeBlock = b]
  /\ UNCHANGED <<chains, oracle, logs, id, block, proposal, found>>

Next ==
  \/ ReadConfig \/ FindProposal \/ ReadHeader \/ Join \/ ParentBlock \/ CallFails
  \/ \E c \in Chains : Search(c) \/ ChainGrows(c)

Spec == Init /\ [][Next]_vars

-----------------------------------------------------------------------------

\* The proposal that a request is judged by hashes to the request's ID, and its
\* transaction to the hash in it, whichever others are in the block (Request,
\* "only accepted if hashing it gives both").
ProposalIsRequests ==
  proposal # <<>> => /\ RequestID(proposal[1].epoch, Hash(proposal[1].tx)) = id
                     /\ \E k \in DOMAIN logs : logs[k] = proposal[1]
                     /\ oracle.proposer = "consensus"

\* The blocks of a proposal are the last before its time on Ethereum Mainnet and
\* on the Safe's chain, and stay so however the chains grow, so that its own
\* effects and later ones are left out, and every reader of the request reads
\* the same state (Proposal, "the last blocks before Time").
BlocksStayLast ==
  pc = "done" =>
    /\ Time(Mainnet, result.ethereumBlock) < result.time
    /\ Time(SafeChain, result.safeBlock) < result.time
    /\ \A b \in 0..Height(Mainnet) : Time(Mainnet, b) < result.time => b <= result.ethereumBlock
    /\ \A b \in 0..Height(SafeChain) : Time(SafeChain, b) < result.time => b <= result.safeBlock
=============================================================================
