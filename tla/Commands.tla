------------------------------ MODULE Commands ------------------------------
(* internal/cli: one process of arbot, which Run dispatches to the command   *)
(* that its arguments name. A command is a module of its own, Evidence three *)
(* of them; one of them runs, and the others never start. CallData is what   *)
(* calls does with the data of each call, which is on its own here, as it    *)
(* reads nothing else. CorpusIndex and Safenet are the commands index and    *)
(* pending, in runs of their own. What connects the commands is a file: info *)
(* writes the request that the others read, of which they take what is in    *)
(* it, whatever wrote it.                                                    *)
EXTENDS SafeCalls

CONSTANTS
  SafeChains, Oracles, ProposalLogs, Times, MaxHeight,  \* of Proposals
  Entries, MaxListLength, Storages,                     \* of SafeSettings
  W, ScanRequests, Flags, ScanChains,                   \* of Transfers
  Requests, Networks, AccountAt,                        \* of Checks
  Txs, Safe, Chain, Covered, HasCode,                   \* of CallReader
  Fields, Shapes, FirstNonce, MaxTxs, HasService,       \* of Executions
  Names, Default, Records, Uses,                        \* of Charter
  Questions, Histories, ABIs, Receipts,                 \* of Evidence
  WellKnown, Bytes, Numbers, MaxUint8, MaxDepth         \* of CallData

ASSUME CommandsAssumption ==
  /\ MaxListLength \in Nat /\ {W, Numbers, MaxDepth} \subseteq Nat \ {0}
  /\ Times \subseteq Nat
  /\ \A l \in ProposalLogs : DOMAIN l \subseteq Nat
  /\ \A u \in Uses : u.block \in Nat /\ u.request.block \in Nat

VARIABLES
  command,
  chains, oracle, proposals, id, block, pc, proposal, searched, blocks,
  storage, slot, entry, lists, settingsErr, slotFailed,
  scanned, flags, logs, step, tokens, received, transfers,
  request, calls, check, result, safeVersions, dialed,
  safeTx, toRead, codes, safeRead, report, status, reads,
  isL2, chain, nonce, executions, decoding, source, nonceNext, txs, traces, found, nodeFailed,
  mainnet, use, stage, name, at, resolver, cid, shown,
  question, accountCodes, phase, code, answer,
  callData, stack, decodeStatus, function

infoVars == <<chains, oracle, proposals, id, block, pc, proposal, searched, blocks>>
safeVars == <<storage, slot, entry, lists, settingsErr, slotFailed>>
transfersVars == <<scanned, flags, logs, step, tokens, received, transfers>>
classifyVars == <<request, calls, check, result, safeVersions, dialed>>
callsVars == <<safeTx, toRead, codes, safeRead, report, status, reads>>
executionsVars ==
  <<isL2, chain, nonce, executions, decoding, source, nonceNext, txs, traces, found, nodeFailed>>
charterVars == <<mainnet, use, stage, name, at, resolver, cid, shown>>
evidenceVars == <<question, accountCodes, phase, code, answer>>
dataVars == <<callData, stack, decodeStatus, function>>

\* What the commands on requests' own chains have, and what the others have.
requestVars == <<infoVars, safeVars, transfersVars>>
judgeVars == <<classifyVars, callsVars, executionsVars, dataVars>>
referenceVars == <<charterVars, evidenceVars>>

vars == <<command, requestVars, judgeVars, referenceVars>>

Info == INSTANCE Proposals WITH
  Logs <- ProposalLogs, logs <- proposals, found <- searched, result <- blocks

SafeCommand == INSTANCE SafeSettings WITH
  at <- slot, next <- entry, err <- settingsErr, failed <- slotFailed

TransfersCommand == INSTANCE Transfers WITH
  Requests <- ScanRequests, Chains <- ScanChains, request <- scanned, report <- transfers

ClassifyCommand == INSTANCE Checks WITH i <- check

CallsCommand == INSTANCE CallReader WITH tx <- safeTx

ExecutionsCommand == INSTANCE Executions WITH k <- decoding, step <- source, failed <- nodeFailed

CharterCommand == INSTANCE Charter WITH step <- stage

EvidenceCommand == INSTANCE Evidence WITH codes <- accountCodes

CallDecoding == INSTANCE CallData WITH
  Calls <- WellKnown, data <- callData, frames <- stack, status <- decodeStatus

ASSUME ExecutionsAssumption ==
  FirstNonce \in Nat /\ \A tx \in Shapes : ExecutionsCommand!IsShape(tx)

\* Neither the sentinel nor the zero address is an entry of a list.
ASSUME SafeAssumption ==
  /\ {SafeCommand!Sentinel, SafeCommand!Zero, "start"} \cap Entries = {}
  /\ \A s \in Storages : /\ DOMAIN s = {"owners", "modules"}
                        /\ \A l \in DOMAIN s : s[l] \in [SafeCommand!Keys -> SafeCommand!Values]

\* Transactions are packed in sequences, as deep as a call nests.
ASSUME CallsAssumption ==
  /\ DeepestBatch \in Nat /\ Nesting \in [Call -> 0 .. DeepestBatch]
  /\ \A c \in Call : c.data.txs \in Seq(ToSet(c.data.txs))
  /\ \A t \in Txs \cup {r.tx : r \in Requests} : OwnCall(t) \in Call
  /\ \A safe \in {t.safe : t \in Txs \cup {r.tx : r \in Requests}} :
       \A c \in {d \in Call : IsMultiSend(d.to)} : \A i \in DOMAIN Transactions(c.data) :
         LET b == Batched(safe, MultiSends[c.to], Transactions(c.data)[i])
         IN b \in Call /\ Nesting[b] < Nesting[c]
  /\ "slot 0" \notin {c.to : c \in Call} \cup UNION {{t.safe, t.gasToken, t.refundReceiver} : t \in Txs}

\* Calls are encoded with the arguments that their function takes.
ASSUME DataAssumption ==
  /\ Bytes \subseteq Nat /\ MaxUint8 \in Nat
  /\ \A c \in WellKnown : CallDecoding!IsCall(c)

\* A log has up to four topics, and a place in its chain of its own.
ASSUME TransfersAssumption ==
  /\ \A r \in ScanRequests : r.block \in Nat
  /\ \A f \in Flags : f.blocks \in Nat
  /\ \A c \in ScanChains :
       /\ IsFiniteSet(c)
       /\ \A l \in c : /\ l.block \in Nat /\ l.index \in Nat
                       /\ Len(l.topics) \in 0 .. 4 /\ DOMAIN l.topics = 1 .. Len(l.topics)
       /\ \A l, m \in c : l.block = m.block /\ l.index = m.index => l = m

-----------------------------------------------------------------------------
(* The variables of a command that isn't run                                 *)

Off == "off"

InfoOff ==
  /\ chains = Off /\ oracle = Off /\ proposals = Off /\ id = Off /\ block = Off
  /\ pc = Off /\ proposal = Off /\ searched = Off /\ blocks = Off

SafeOff ==
  /\ storage = Off /\ slot = Off /\ entry = Off /\ lists = Off
  /\ settingsErr = Off /\ slotFailed = Off

TransfersOff ==
  /\ scanned = Off /\ flags = Off /\ logs = Off /\ step = Off
  /\ tokens = Off /\ received = Off /\ transfers = Off

ClassifyOff ==
  /\ request = Off /\ calls = Off /\ check = Off
  /\ result = Off /\ safeVersions = Off /\ dialed = Off

CallsOff ==
  /\ safeTx = Off /\ toRead = Off /\ codes = Off /\ safeRead = Off
  /\ report = Off /\ status = Off /\ reads = Off

ExecutionsOff ==
  /\ isL2 = Off /\ chain = Off /\ nonce = Off /\ executions = Off /\ decoding = Off /\ source = Off
  /\ nonceNext = Off /\ txs = Off /\ traces = Off /\ found = Off /\ nodeFailed = Off

CharterOff ==
  /\ mainnet = Off /\ use = Off /\ stage = Off /\ name = Off
  /\ at = Off /\ resolver = Off /\ cid = Off /\ shown = Off

EvidenceOff ==
  question = Off /\ accountCodes = Off /\ phase = Off /\ code = Off /\ answer = Off

DataOff == callData = Off /\ stack = Off /\ decodeStatus = Off /\ function = Off

-----------------------------------------------------------------------------

\* Run parses the arguments, and looks the command up.
Init ==
  /\ command \in {"info", "safe", "transfers", "classify", "calls", "call data", "executions",
                   "charter", "evidence"}
  /\ IF command = "info"       THEN Info!Init              ELSE InfoOff
  /\ IF command = "safe"       THEN SafeCommand!Init       ELSE SafeOff
  /\ IF command = "transfers"  THEN TransfersCommand!Init  ELSE TransfersOff
  /\ IF command = "classify"   THEN ClassifyCommand!Init   ELSE ClassifyOff
  /\ IF command = "calls"      THEN CallsCommand!Init      ELSE CallsOff
  /\ IF command = "executions" THEN ExecutionsCommand!Init ELSE ExecutionsOff
  /\ IF command = "charter"    THEN CharterCommand!Init    ELSE CharterOff
  /\ IF command = "evidence"   THEN EvidenceCommand!Init   ELSE EvidenceOff
  /\ IF command = "call data"  THEN CallDecoding!Init      ELSE DataOff

RunInfo ==
  /\ command = "info" /\ Info!Next
  /\ UNCHANGED <<command, safeVars, transfersVars, judgeVars, referenceVars>>

RunSafe ==
  /\ command = "safe" /\ SafeCommand!Read
  /\ UNCHANGED <<command, infoVars, transfersVars, judgeVars, referenceVars>>

RunTransfers ==
  /\ command = "transfers" /\ TransfersCommand!Next
  /\ UNCHANGED <<command, infoVars, safeVars, judgeVars, referenceVars>>

RunClassify ==
  /\ command = "classify" /\ ClassifyCommand!Next
  /\ UNCHANGED <<command, requestVars, callsVars, executionsVars, dataVars, referenceVars>>

RunCalls ==
  /\ command = "calls" /\ CallsCommand!Next
  /\ UNCHANGED <<command, requestVars, classifyVars, executionsVars, dataVars, referenceVars>>

RunExecutions ==
  /\ command = "executions" /\ ExecutionsCommand!Next
  /\ UNCHANGED <<command, requestVars, classifyVars, callsVars, dataVars, referenceVars>>

RunCharter ==
  /\ command = "charter" /\ CharterCommand!Next
  /\ UNCHANGED <<command, requestVars, judgeVars, evidenceVars>>

RunEvidence ==
  /\ command = "evidence" /\ EvidenceCommand!Next
  /\ UNCHANGED <<command, requestVars, judgeVars, charterVars>>

DecodeCallData ==
  /\ command = "call data" /\ CallDecoding!Next
  /\ UNCHANGED <<command, requestVars, classifyVars, callsVars, executionsVars, referenceVars>>

Next ==
  \/ RunInfo \/ RunSafe \/ RunTransfers \/ RunClassify
  \/ RunCalls \/ RunExecutions \/ RunCharter \/ RunEvidence \/ DecodeCallData

Spec == Init /\ [][Next]_vars

-----------------------------------------------------------------------------

\* info only accepts the proposal that hashes to the request's ID; see Proposals.
ProposalIsRequests == command = "info" => Info!ProposalIsRequests

\* The blocks that info reports stay the last before the proposal, however the
\* chains grow; see Proposals.
BlocksStayLast == command = "info" => Info!BlocksStayLast

\* safe shows both lists whole, whatever the storage is, or fails for the cause
\* that it gives; see SafeSettings.
ListsOrCause ==
  command = "safe" => SafeCommand!ReadsWholeLists /\ SafeCommand!ErrorSaysWhy

\* transfers lists what its flags ask for, each once and in order; see Transfers.
ListsEachOnce == command = "transfers" => TransfersCommand!ListsEachOnce

\* classify has the verdict that the Charter's rules give; see Checks.
VerdictIsCharters == command = "classify" => ClassifyCommand!VerdictIsCharters

\* What calls shows of the data of a call is what is in it; see CallData.
DecodesCalls == command = "call data" => CallDecoding!DecodesCalls

\* calls reports accounts that it read, each once; see CallReader.
ReportsWhatItRead == command = "calls" => CallsCommand!ReportsWhatItRead

\* executions reports transactions that the Safe logged; see Executions.
ReportsWhatWasLogged == command = "executions" => ExecutionsCommand!ReportsWhatWasLogged

\* executions decodes each plain execution from the first source that answers;
\* see Executions.
TakenFromFirst == command = "executions" => ExecutionsCommand!TakenFromFirst

\* charter shows what a name references at one block; see Charter.
CharterAsOfBlock == command = "charter" => CharterCommand!CharterAsOfBlock

\* Sources, functions and events are those of the Safe block; see Evidence.
EvidenceOfTheBlock == command = "evidence" => EvidenceCommand!EvidenceOfTheBlock
=============================================================================
