--------------------------- MODULE CommandsProofs ---------------------------
(* What holds of the commands, for any flags, requests, and chains.          *)
EXTENDS Commands, OrdersProofs

\* A step is one of the command that runs, or changes nothing.
LEMMA OneCommand ==
  ASSUME [Next]_vars
  PROVE  /\ UNCHANGED command
         /\ command = "info"       => Info!Next \/ UNCHANGED infoVars
         /\ command = "safe"       => SafeCommand!Read \/ UNCHANGED safeVars
         /\ command = "transfers"  => TransfersCommand!Next \/ UNCHANGED transfersVars
         /\ command = "classify"   => ClassifyCommand!Next \/ UNCHANGED classifyVars
         /\ command = "calls"      => CallsCommand!Next \/ UNCHANGED callsVars
         /\ command = "call data"  => CallDecoding!Next \/ UNCHANGED dataVars
         /\ command = "executions" => ExecutionsCommand!Next \/ UNCHANGED executionsVars
         /\ command = "charter"    => CharterCommand!Next \/ UNCHANGED charterVars
         /\ command = "evidence"   => EvidenceCommand!Next \/ UNCHANGED evidenceVars
<1>1. CASE UNCHANGED vars
  BY <1>1 DEF vars, requestVars, judgeVars, referenceVars
<1>2. CASE RunInfo \/ RunSafe \/ RunTransfers
  BY <1>2 DEF RunInfo, RunSafe, RunTransfers, judgeVars, referenceVars
<1>3. CASE RunClassify \/ RunCalls \/ RunExecutions \/ DecodeCallData
  BY <1>3, Zenon DEF RunClassify, RunCalls, RunExecutions, DecodeCallData, requestVars, referenceVars
<1>4. CASE RunCharter \/ RunEvidence
  BY <1>4 DEF RunCharter, RunEvidence, requestVars, judgeVars
<1> QED BY <1>1, <1>2, <1>3, <1>4 DEF Next

-----------------------------------------------------------------------------
(* charter *)

\* What the name and the block to read at are, once they are known.
Chosen ==
  /\ at \in Nat
  /\ IF use.request = CharterCommand!NoFile
     THEN name = Default /\ (use.block = 0 \/ use.block = at)
     ELSE name = use.request.name /\ at = use.request.block /\ at # 0

\* The chain has the block, once it was read, and it is the block of the resolver
\* and of the version.
ReadAt ==
  /\ Chosen /\ at \in 1 .. Len(mainnet) /\ name \in Names
  /\ resolver # CharterCommand!None
  /\ resolver = mainnet[at][name].resolver

CharterInv ==
  /\ mainnet \in Seq([Names -> Records]) /\ Len(mainnet) > 0
  /\ use \in Uses
  /\ stage = "start"    => name = Default
  /\ stage = "block"    => Chosen
  /\ stage = "resolver" => Chosen /\ at # 0
  /\ stage = "hash"     => ReadAt
  /\ stage = "content"  => ReadAt /\ cid = mainnet[at][name].hash[resolver]
  /\ stage = "done"     => /\ ReadAt /\ cid = mainnet[at][name].hash[resolver]
                           /\ shown = cid /\ (use.verify = cid \/ use.verify = CharterCommand!None)

LEMMA CharterInitially == CharterCommand!Init => CharterInv
<1> SUFFICES ASSUME CharterCommand!Init PROVE CharterInv
  OBVIOUS
<1> DEFINE R == [Names -> Records]
<1>1. mainnet \in Seq(R) /\ Len(mainnet) = 1
  <2> HIDE DEF R
  <2>1. mainnet \in [1 .. 1 -> R]
    BY DEF CharterCommand!Init, R
  <2> QED BY <2>1
<1> QED BY <1>1 DEF CharterCommand!Init, CharterInv

LEMMA CharterKept ==
  ASSUME CharterInv, CharterCommand!Next \/ UNCHANGED charterVars
  PROVE  CharterInv'
<1>1. CASE CharterCommand!ChainGrows
  <2> DEFINE R == [Names -> Records]
  <2>1. PICK r \in R : mainnet' = Append(mainnet, r)
    BY <1>1 DEF CharterCommand!ChainGrows
  <2>2. /\ mainnet' \in Seq(R) /\ Len(mainnet') = Len(mainnet) + 1 /\ Len(mainnet) \in Nat
        /\ \A b \in 1 .. Len(mainnet) : mainnet'[b] = mainnet[b]
    <3>1. mainnet \in Seq(R)
      BY DEF CharterInv
    <3> HIDE DEF R
    <3> QED BY <2>1, <3>1, AppendProperties, LenProperties
  <2>3. UNCHANGED <<use, stage, name, at, resolver, cid, shown>>
    BY <1>1 DEF CharterCommand!ChainGrows
  <2>4. Chosen => Chosen'
    BY <2>3 DEF Chosen
  <2>5. ReadAt => ReadAt' /\ mainnet'[at] = mainnet[at] /\ at' = at
    BY <2>2, <2>3, <2>4 DEF ReadAt
  <2> QED BY <2>2, <2>3, <2>4, <2>5 DEF CharterInv
<1>2. CASE CharterCommand!Parse
  BY <1>2, CommandsAssumption, Zenon
     DEF CharterCommand!Parse, CharterCommand!HasCharter, CharterInv, Chosen, CharterCommand!NoFile
<1>3. CASE CharterCommand!ChooseBlock
  BY <1>3 DEF CharterCommand!ChooseBlock, CharterCommand!Height, CharterInv, Chosen
<1>4. CASE CharterCommand!ReadResolver
  BY <1>4 DEF CharterCommand!ReadResolver, CharterCommand!At, CharterCommand!Height,
              CharterInv, Chosen, ReadAt
<1>5. CASE CharterCommand!ReadHash
  BY <1>5 DEF CharterCommand!ReadHash, CharterCommand!At, CharterInv, Chosen, ReadAt
<1>6. CASE CharterCommand!Content
  BY <1>6 DEF CharterCommand!Content, CharterInv, Chosen, ReadAt
<1>7. CASE CharterCommand!Fails
  BY <1>7 DEF CharterCommand!Fails, CharterInv
<1>8. CASE UNCHANGED charterVars
  BY <1>8 DEF charterVars, CharterInv, Chosen, ReadAt
<1> QED BY <1>1, <1>2, <1>3, <1>4, <1>5, <1>6, <1>7, <1>8 DEF CharterCommand!Next

\* For any names, records, flags and growth of the chain: the version that charter
\* shows, or verifies a file to be, is the one that the name references at the one
\* block that was asked for, or was the latest.
THEOREM CharterIsAsOfBlock == Spec => []CharterAsOfBlock
<1> DEFINE IInv == command = "charter" => CharterInv
<1>1. Init => IInv
  BY CharterInitially DEF Init
<1>2. IInv /\ [Next]_vars => IInv'
  BY CharterKept, OneCommand
<1>3. IInv => CharterAsOfBlock
  <2> SUFFICES ASSUME CharterInv PROVE CharterCommand!CharterAsOfBlock
    BY DEF CharterAsOfBlock
  <2>1. DOMAIN mainnet = 1 .. Len(mainnet)
    BY LenProperties DEF CharterInv
  <2> QED BY <2>1 DEF CharterInv, Chosen, ReadAt, CharterCommand!CharterAsOfBlock,
                      CharterCommand!Reference
<1> QED BY <1>1, <1>2, <1>3, PTL DEF Spec

-----------------------------------------------------------------------------
(* evidence *)

\* Nothing is reported before the end, and the code that is looked up is that of
\* the Safe block.
EvidenceInv ==
  /\ phase \in {"open", "code", "lookup", "receipt"} => answer = EvidenceCommand!Nothing
  /\ phase = "lookup" => code = accountCodes[question.block]
  /\ answer.status = "verified" =>
       /\ answer.contract.compiled = accountCodes[question.block]
       /\ question.command = "signatures" => ~EvidenceCommand!Ambiguous(answer.contract.abi)
  /\ answer.status = "no-code" => accountCodes[question.block] = ""
  /\ answer.status \in {"success", "reverted"} =>
       /\ answer.tx = question.tx /\ answer.block <= question.block
       /\ \A n \in DOMAIN answer.logs : answer.events[n] = EvidenceCommand!Decode(answer.logs[n])

Layouts == [indexed : Nat, words : Nat, dynamic : BOOLEAN]

\* A log is decoded with a layout that it has, if with any.
LEMMA DecodesAsLayout ==
  ASSUME NEW l
  PROVE  \/ EvidenceCommand!Decode(l) = <<>>
         \/ \E d \in Layouts : EvidenceCommand!Decode(l) = <<d>> /\ EvidenceCommand!Fits(d, l)
<1> DEFINE all   == EvidenceCommand!Definitions
           defs  == IF l.event \in DOMAIN all THEN all[l.event] ELSE <<>>
           fits  == {n \in DOMAIN defs : EvidenceCommand!Fits(defs[n], l)}
           first == CHOOSE n \in fits : \A m \in fits : n <= m
<1>1. defs \in Seq(Layouts)
  <2> DEFINE Layout(indexed, words, dynamic) == EvidenceCommand!Layout(indexed, words, dynamic)
  <2>1. /\ Layout(2, 1, FALSE) \in Layouts /\ Layout(3, 0, FALSE) \in Layouts
        /\ Layout(0, 2, FALSE) \in Layouts /\ Layout(1, 1, FALSE) \in Layouts
        /\ Layout(0, 11, TRUE) \in Layouts
    BY DEF EvidenceCommand!Layout, Layouts
  <2>2. /\ DOMAIN all = {"Transfer", "ExecutionSuccess", "SafeMultiSigTransaction"}
        /\ all["Transfer"] = <<Layout(2, 1, FALSE), Layout(3, 0, FALSE)>>
        /\ all["ExecutionSuccess"] = <<Layout(0, 2, FALSE), Layout(1, 1, FALSE)>>
        /\ all["SafeMultiSigTransaction"] = <<Layout(0, 11, TRUE)>>
    BY Zenon DEF EvidenceCommand!Definitions
  <2>3. \A x, y \in Layouts : <<x, y>> \in Seq(Layouts) /\ <<x>> \in Seq(Layouts)
    OBVIOUS
  <2>4. all["Transfer"] \in Seq(Layouts) /\ all["ExecutionSuccess"] \in Seq(Layouts)
    BY <2>1, <2>2, <2>3, Zenon
  <2>5. all["SafeMultiSigTransaction"] \in Seq(Layouts)
    BY <2>1, <2>2, <2>3, Zenon
  <2>6. <<>> \in Seq(Layouts)
    OBVIOUS
  <2>7. l.event \in DOMAIN all => all[l.event] \in Seq(Layouts)
    <3> HIDE DEF all, Layout
    <3> QED BY <2>2, <2>4, <2>5, Zenon
  <2> HIDE DEF all
  <2> QED BY <2>6, <2>7, Zenon
<1>2. EvidenceCommand!Decode(l) = IF fits = {} THEN <<>> ELSE <<defs[first]>>
  BY DEF EvidenceCommand!Decode
<1> HIDE DEF defs
<1>3. CASE fits # {}
  <2>1. fits \in SUBSET Nat /\ \A n \in fits : defs[n] \in Layouts
    BY <1>1, LenProperties, ElementOfSeq
  <2>2. \E n \in fits : \A m \in fits : n <= m
    BY <1>3, <2>1, HasLeast, Zenon
  <2>3. first \in fits
    BY <2>2
  <2>4. defs[first] \in Layouts /\ EvidenceCommand!Fits(defs[first], l)
    BY <2>1, <2>3
  <2> QED BY <1>2, <1>3, <2>4, Zenon
<1> QED BY <1>2, <1>3, Zenon

LEMMA EvidenceKept ==
  ASSUME EvidenceInv, EvidenceCommand!Next \/ UNCHANGED evidenceVars
  PROVE  EvidenceInv'
<1>1. CASE EvidenceCommand!OpenSafe \/ EvidenceCommand!Fails \/ UNCHANGED evidenceVars
  BY <1>1, Zenon DEF EvidenceCommand!OpenSafe, EvidenceCommand!Fails, evidenceVars, EvidenceInv
<1>2. CASE EvidenceCommand!ReadCode
  <2>1. /\ phase = "code" /\ UNCHANGED <<question, accountCodes>> /\ code' = accountCodes[question.block]
        /\ \/ phase' = "lookup" /\ UNCHANGED answer
           \/ code' = "" /\ phase' = "done" /\ answer' = [status |-> "no-code"]
    BY <1>2, Zenon DEF EvidenceCommand!ReadCode, EvidenceCommand!AsOf
  <2>2. answer' = [status |-> "no-code"] => answer'.status = "no-code"
    OBVIOUS
  <2> QED BY <2>1, <2>2, Zenon DEF EvidenceInv
<1>3. CASE EvidenceCommand!Lookup
  <2>1. /\ phase = "lookup" /\ phase' \in {"done", "failed"} /\ UNCHANGED <<question, accountCodes, code>>
        /\ code = accountCodes[question.block]
    BY <1>3, Zenon DEF EvidenceCommand!Lookup, EvidenceInv
  <2>2. CASE answer' = [status |-> "unverified"] \/ UNCHANGED answer
    <3>1. answer' = [status |-> "unverified"] => answer'.status = "unverified"
      OBVIOUS
    <3> QED BY <2>1, <2>2, <3>1, Zenon DEF EvidenceInv
  <2>3. ASSUME NEW c \in EvidenceCommand!Contracts,
               EvidenceCommand!SameCode(c) /\ c.match,
               ~(question.command = "signatures" /\ EvidenceCommand!Ambiguous(c.abi)),
               answer' = EvidenceCommand!Verified(c)
        PROVE  EvidenceInv'
    <3>1. c.compiled = accountCodes[question.block]
      BY <2>1, <2>3, Zenon DEF EvidenceCommand!Contracts, EvidenceCommand!SameCode
    <3>2. answer'.status = "verified" /\ answer'.contract = c
      BY <2>3 DEF EvidenceCommand!Verified
    <3> QED BY <2>1, <2>3, <3>1, <3>2, Zenon DEF EvidenceInv
  <2> QED BY <1>3, <2>2, <2>3 DEF EvidenceCommand!Lookup
<1>4. CASE EvidenceCommand!ReadReceipt
  <2>1. phase = "receipt" /\ phase' \in {"done", "failed"} /\ UNCHANGED <<question, accountCodes, code>>
    BY <1>4 DEF EvidenceCommand!ReadReceipt
  <2>2. CASE UNCHANGED answer
    BY <2>1, <2>2, Zenon DEF EvidenceInv
  <2>3. ASSUME NEW receipt \in Receipts, receipt.tx = question.tx, EvidenceCommand!InTime(receipt),
               answer' = EvidenceCommand!Events(receipt)
        PROVE  EvidenceInv'
    <3>1. /\ answer'.status \in {"success", "reverted"}
          /\ answer'.tx = receipt.tx /\ answer'.block = receipt.block /\ answer'.logs = receipt.logs
          /\ \A n \in DOMAIN receipt.logs : answer'.events[n] = EvidenceCommand!Decode(receipt.logs[n])
      BY <2>3 DEF EvidenceCommand!Events
    <3> QED BY <2>1, <2>3, <3>1, Zenon DEF EvidenceInv, EvidenceCommand!InTime
  <2> QED BY <1>4, <2>2, <2>3 DEF EvidenceCommand!ReadReceipt
<1> QED BY <1>1, <1>2, <1>3, <1>4 DEF EvidenceCommand!Next

\* For any histories of an account, contracts that Sourcify has, receipts, and
\* requests: sources, functions and events are those of the Safe block.
THEOREM EvidenceIsOfTheBlock == Spec => []EvidenceOfTheBlock
<1> DEFINE IInv == command = "evidence" => EvidenceInv
<1>1. Init => IInv
  <2> SUFFICES ASSUME EvidenceCommand!Init PROVE EvidenceInv
    BY DEF Init
  <2>1. answer.status = "none"
    BY Zenon DEF EvidenceCommand!Init, EvidenceCommand!Nothing
  <2> QED BY <2>1, Zenon DEF EvidenceCommand!Init, EvidenceInv
<1>2. IInv /\ [Next]_vars => IInv'
  BY EvidenceKept, OneCommand
<1>3. IInv => EvidenceOfTheBlock
  <2> SUFFICES ASSUME EvidenceInv PROVE EvidenceCommand!EvidenceOfTheBlock
    BY DEF EvidenceOfTheBlock
  <2>1. ASSUME answer.status = "verified", question.command = "signatures"
        PROVE  \A i, j \in DOMAIN answer.contract.abi :
                 answer.contract.abi[i] = answer.contract.abi[j] /\ i # j
                   => answer.contract.abi[i].type # "function"
    BY <2>1 DEF EvidenceInv, EvidenceCommand!Ambiguous, EvidenceCommand!Functions
  <2>2. ASSUME answer.status \in {"success", "reverted"},
               NEW n \in DOMAIN answer.logs, NEW d \in EvidenceCommand!Range(answer.events[n])
        PROVE  /\ answer.logs[n].valid /\ d.indexed = answer.logs[n].topics - 1
               /\ ~d.dynamic => d.words = answer.logs[n].words
    <3>1. answer.events[n] = EvidenceCommand!Decode(answer.logs[n])
      BY <2>2, Zenon DEF EvidenceInv
    <3>2. d \in Layouts /\ EvidenceCommand!Fits(d, answer.logs[n])
      BY <2>2, <3>1, DecodesAsLayout DEF EvidenceCommand!Range
    <3> QED BY <3>2 DEF EvidenceCommand!Fits, Layouts
  <2> QED BY <2>1, <2>2, Zenon DEF EvidenceInv, EvidenceCommand!EvidenceOfTheBlock
<1> QED BY <1>1, <1>2, <1>3, PTL DEF Spec

-----------------------------------------------------------------------------
(* executions *)

\* What was found so far is of the executions before the one that is decoded.
FoundInv ==
  /\ decoding \in Nat \ {0} /\ OfLength(found, decoding - 1)
  /\ source = "chain" => found = <<>>
  /\ \A j \in DOMAIN found : found[j].source # "" => found[j].transaction = executions[j].hash

Suits(src, tx) == IF src = "" THEN tx = <<>> ELSE tx = executions[decoding].hash

\* An execution is decoded as its own transaction, or as none.
LEMMA DecodedKeeps ==
  ASSUME FoundInv, source # "chain", NEW src, NEW tx,
         Suits(src, tx), ExecutionsCommand!Decoded(src, tx), UNCHANGED executions
  PROVE  FoundInv'
<1> DEFINE new == [source |-> src, transaction |-> tx]
<1>1. /\ found' = Append(found, new) /\ decoding' = decoding + 1 /\ source' \in {"done", "event"}
  BY DEF ExecutionsCommand!Decoded
<1>2. new.source # "" => new.transaction = executions[decoding].hash
  BY DEF Suits
<1>3. decoding \in Nat \ {0} /\ OfLength(found, decoding - 1)
  BY DEF FoundInv
<1> HIDE DEF new
<1>4. (decoding - 1) + 1 = decoding /\ decoding' - 1 = decoding
  BY <1>1, <1>3
<1>5. /\ OfLength(found', decoding) /\ DOMAIN found' = 1 .. decoding /\ DOMAIN found = 1 .. decoding - 1
      /\ found'[decoding] = new
      /\ \A j \in 1 .. decoding - 1 : found'[j] = found[j]
  BY <1>1, <1>3, <1>4, Appended
<1>6. ASSUME NEW j \in 1 .. decoding, found'[j].source # ""
      PROVE  found'[j].transaction = executions[j].hash
  <2>1. CASE j = decoding
    BY <1>2, <1>5, <1>6, <2>1, Zenon
  <2>2. CASE j # decoding
    <3>1. j \in 1 .. decoding - 1
      BY <1>3, <2>2
    <3>2. found[j].source # "" => found[j].transaction = executions[j].hash
      BY <1>5, <3>1, Zenon DEF FoundInv
    <3> QED BY <1>5, <1>6, <3>1, <3>2, Zenon
  <2> QED BY <2>1, <2>2
<1>7. \A j \in DOMAIN found' : found'[j].source # "" => found'[j].transaction = executions'[j].hash
  BY <1>5, <1>6, Zenon
<1>8. OfLength(found', decoding' - 1) /\ decoding' \in Nat \ {0} /\ source' # "chain"
  BY <1>1, <1>3, <1>4, <1>5
<1> QED BY <1>7, <1>8, Zenon DEF FoundInv

LEMMA NothingFound ==
  ASSUME FoundInv, UNCHANGED <<executions, decoding, found>>, source' = "chain" => source = "chain"
  PROVE  FoundInv'
  BY Zenon DEF FoundInv

LEMMA FoundKept ==
  ASSUME FoundInv, ExecutionsCommand!Next \/ UNCHANGED executionsVars
  PROVE  FoundInv'
<1>1. CASE ExecutionsCommand!Execute
  <2>1. found = <<>> /\ UNCHANGED <<decoding, found, source>>
    BY <1>1, Zenon DEF ExecutionsCommand!Execute, FoundInv
  <2>2. DOMAIN found' = {}
    BY <2>1
  <2> QED BY <2>1, <2>2, Zenon DEF FoundInv
<1>2. CASE ExecutionsCommand!Find \/ ExecutionsCommand!ReadNonce \/ UNCHANGED executionsVars
  BY <1>2, NothingFound DEF ExecutionsCommand!Find, ExecutionsCommand!ReadNonce, executionsVars
<1>3. ASSUME NEW src, src # "chain", ExecutionsCommand!TryNext(src), UNCHANGED executions
      PROVE  FoundInv'
  BY <1>3, NothingFound DEF ExecutionsCommand!TryNext
<1>4. CASE ExecutionsCommand!FromEvent
  BY <1>3, <1>4, DecodedKeeps, Zenon DEF ExecutionsCommand!FromEvent, ExecutionsCommand!E, Suits
<1>5. CASE ExecutionsCommand!ChooseSource
  BY <1>3, <1>5 DEF ExecutionsCommand!ChooseSource
<1>6. CASE ExecutionsCommand!FromCalldata
  <2>1. UNCHANGED executions /\ source = "calldata"
    BY <1>6 DEF ExecutionsCommand!FromCalldata
  <2> DEFINE candidates == ExecutionsCommand!Candidates(txs'[executions[decoding].tx])
             tx == <<CHOOSE f \in candidates : TRUE, ExecutionsCommand!Nonce(decoding)>>
  <2>2. \/ candidates # {} /\ ExecutionsCommand!Decoded("calldata", tx)
        \/ ExecutionsCommand!TryNext("trace")
    BY <1>6 DEF ExecutionsCommand!FromCalldata, ExecutionsCommand!E
  <2>3. candidates # {} => tx = executions[decoding].hash
    BY DEF ExecutionsCommand!Candidates, ExecutionsCommand!Matches, ExecutionsCommand!E
  <2> HIDE DEF candidates, tx
  <2> QED BY <1>3, <2>1, <2>2, <2>3, DecodedKeeps, Zenon DEF Suits
<1>7. CASE ExecutionsCommand!FromTrace
  <2>1. UNCHANGED executions /\ source = "trace"
    BY <1>7 DEF ExecutionsCommand!FromTrace
  <2> DEFINE candidates == ExecutionsCommand!Candidates(traces'[executions[decoding].tx])
             tx == <<CHOOSE f \in candidates : TRUE, ExecutionsCommand!Nonce(decoding)>>
  <2>2. \/ candidates # {} /\ ExecutionsCommand!Decoded("trace", tx)
        \/ ExecutionsCommand!TryNext("service")
    BY <1>7 DEF ExecutionsCommand!FromTrace, ExecutionsCommand!E
  <2>3. candidates # {} => tx = executions[decoding].hash
    BY DEF ExecutionsCommand!Candidates, ExecutionsCommand!Matches, ExecutionsCommand!E
  <2> HIDE DEF candidates, tx
  <2> QED BY <1>3, <2>1, <2>2, <2>3, DecodedKeeps, Zenon DEF Suits
<1>8. CASE ExecutionsCommand!FromService
  BY <1>8, DecodedKeeps, Zenon
     DEF ExecutionsCommand!FromService, ExecutionsCommand!ServiceMatches,
         ExecutionsCommand!Matches, ExecutionsCommand!E, Suits
<1> QED BY <1>1, <1>2, <1>4, <1>5, <1>6, <1>7, <1>8 DEF ExecutionsCommand!Next

\* For any onchain transactions, whatever the node and the service answer: a Safe
\* transaction is reported only with the hash and the nonce that the Safe logged.
THEOREM LoggedIsReported == Spec => []ReportsWhatWasLogged
<1> DEFINE IInv == command = "executions" => FoundInv
<1>1. Init => IInv
  <2> SUFFICES ASSUME ExecutionsCommand!Init PROVE FoundInv
    BY DEF Init
  <2> QED BY DEF ExecutionsCommand!Init, FoundInv, OfLength
<1>2. IInv /\ [Next]_vars => IInv'
  BY FoundKept, OneCommand
<1>3. IInv => ReportsWhatWasLogged
  BY Zenon DEF FoundInv, ReportsWhatWasLogged, ExecutionsCommand!ReportsWhatWasLogged
<1> QED BY <1>1, <1>2, <1>3, PTL DEF Spec

-----------------------------------------------------------------------------
(* info *)

Sorted(s) == \A i, j \in 1 .. Len(s) : i <= j => s[i] <= s[j]

\* Block b is the last before time t, of a chain that has reached t.
LastIn(s, b, t) ==
  /\ b \in Nat /\ b < Len(s) /\ s[b + 1] < t
  /\ \A i \in 1 .. Len(s) : i > b + 1 => s[i] >= t
  /\ s[Len(s)] >= t

\* A block stays the last before a time that its chain has reached.
LEMMA StaysLast ==
  ASSUME NEW s \in Seq(Nat), Len(s) > 0, Sorted(s), NEW x \in Nat, x >= s[Len(s)]
  PROVE  /\ Append(s, x) \in Seq(Nat) /\ Len(Append(s, x)) = Len(s) + 1 /\ Sorted(Append(s, x))
         /\ \A b, t \in Nat : LastIn(s, b, t) => LastIn(Append(s, x), b, t)
<1> DEFINE r == Append(s, x)
           n == Len(s)
<1>1. /\ r \in Seq(Nat) /\ Len(r) = n + 1 /\ n \in Nat \ {0} /\ r[n + 1] = x
      /\ \A i \in 1 .. n : r[i] = s[i] /\ s[i] \in Nat
  BY AppendProperties, LenProperties, ElementOfSeq
<1> HIDE DEF r
<1>2. x >= s[n] /\ \A i, j \in 1 .. n : i <= j => s[i] <= s[j]
  BY DEF Sorted
<1> HIDE DEF n
<1>3. n \in 1 .. n /\ \A i \in 1 .. n + 1 : i = n + 1 \/ i \in 1 .. n
  BY <1>1
<1>4. \A i \in 1 .. n : r[i] <= x
  BY <1>1, <1>2, <1>3
<1>5. ASSUME NEW i \in 1 .. n + 1, NEW j \in 1 .. n + 1, i <= j PROVE r[i] <= r[j]
  <2>1. CASE j \in 1 .. n
    <3>1. i \in 1 .. n
      BY <1>1, <1>5, <2>1
    <3> QED BY <1>1, <1>2, <1>5, <2>1, <3>1
  <2>2. CASE j = n + 1
    <3>1. CASE i \in 1 .. n
      BY <1>1, <1>4, <2>2, <3>1
    <3>2. CASE i = n + 1
      BY <1>1, <2>2, <3>2
    <3> QED BY <1>3, <3>1, <3>2
  <2> QED BY <1>3, <2>1, <2>2
<1>6. ASSUME NEW b \in Nat, NEW t \in Nat, LastIn(s, b, t) PROVE LastIn(r, b, t)
  <2>1. /\ b \in 0 .. n - 1 /\ s[b + 1] < t /\ s[n] >= t
        /\ \A i \in 1 .. n : i > b + 1 => s[i] >= t
    BY <1>6 DEF LastIn, n
  <2>2. b + 1 \in 1 .. n /\ b \in 0 .. n
    BY <1>1, <2>1
  <2>3. r[b + 1] < t
    BY <1>1, <2>1, <2>2, Zenon
  <2>4. s[n] \in Nat /\ x >= t
    BY <1>1, <1>2, <1>3, <2>1
  <2>5. ASSUME NEW i \in 1 .. n + 1, i > b + 1 PROVE r[i] >= t
    <3>1. CASE i = n + 1
      BY <1>1, <2>4, <3>1
    <3>2. CASE i \in 1 .. n
      BY <1>1, <2>1, <2>5, <3>2, Zenon
    <3> QED BY <1>3, <3>1, <3>2
  <2> QED BY <1>1, <2>2, <2>3, <2>4, <2>5 DEF LastIn
<1> QED BY <1>1, <1>5, <1>6 DEF Sorted, r, n

Earlier(s, t) == {b \in 0 .. Len(s) - 1 : s[b + 1] < t}

\* The search's result, where there is a block before t and one that isn't.
LEMMA SearchFindsLast ==
  ASSUME NEW s \in Seq(Nat), Len(s) > 0, Sorted(s), NEW t \in Nat, s[Len(s)] >= t, Earlier(s, t) # {}
  PROVE  LastIn(s, CHOOSE b \in Earlier(s, t) : b + 1 \notin Earlier(s, t), t)
<1> DEFINE n == Len(s)
           B == Earlier(s, t)
           b == CHOOSE c \in B : c + 1 \notin B
<1>1. n \in Nat \ {0} /\ \A i \in 1 .. n : s[i] \in Nat
  BY LenProperties, ElementOfSeq
<1>2. /\ B \in SUBSET (0 .. n - 1) /\ \A c \in 0 .. n - 1 : c \in B <=> s[c + 1] < t
      /\ s[n] >= t /\ \A i, j \in 1 .. n : i <= j => s[i] <= s[j]
  BY DEF Sorted, Earlier
<1>3. PICK c \in B : TRUE
  OBVIOUS
<1> HIDE DEF n, B
<1>4. c \in Nat /\ c < n
  <2>1. c \in 0 .. n - 1
    BY <1>2, <1>3
  <2> QED BY <1>1, <2>1
<1>5. \E d \in B : d + 1 \notin B
  <2> DEFINE S == {m \in Nat : m > c /\ m \notin B}
  <2>1. n \in S /\ S \in SUBSET Nat
    <3>1. n \notin 0 .. n - 1
      BY <1>1
    <3> QED BY <1>1, <1>2, <1>4, <3>1
  <2>2. PICK m \in S : \A l \in S : m <= l
    BY <2>1, HasLeast, Zenon
  <2>3. m - 1 \in Nat /\ m - 1 \notin S
    BY <1>4, <2>2
  <2>4. m - 1 = c \/ m - 1 \in B
    BY <1>4, <2>2, <2>3
  <2>5. m \notin B /\ m = (m - 1) + 1
    BY <2>2
  <2> QED BY <1>3, <2>4, <2>5, Zenon
<1>6. b \in B /\ b + 1 \notin B
  BY <1>5
<1> HIDE DEF b
<1>7. b \in 0 .. n - 1 /\ s[b + 1] < t /\ b # n - 1
  <2>1. b \in 0 .. n - 1 /\ s[b + 1] < t
    BY <1>2, <1>6
  <2>2. b = n - 1 => b + 1 = n
    BY <1>1
  <2> QED BY <1>1, <1>2, <2>1, <2>2
<1>8. b + 2 \in 1 .. n /\ s[b + 2] >= t
  <2>1. b + 1 \in 0 .. n - 1 /\ b + 2 \in 1 .. n /\ (b + 1) + 1 = b + 2
    BY <1>1, <1>7
  <2>2. ~(s[(b + 1) + 1] < t)
    BY <1>2, <1>6, <2>1, Zenon
  <2> QED BY <1>1, <2>1, <2>2
<1>9. ASSUME NEW i \in 1 .. n, i > b + 1 PROVE s[i] >= t
  <2>1. b + 2 <= i
    BY <1>7, <1>9
  <2>2. s[b + 2] <= s[i] /\ s[i] \in Nat /\ s[b + 2] \in Nat
    BY <1>1, <1>2, <1>8, <2>1
  <2> QED BY <1>8, <2>2
<1> QED BY <1>2, <1>7, <1>9 DEF LastIn, n, b, B

\* Every chain has a block and times in order, and the proposal's block is one of
\* Gnosis Chain's, which isn't the first.
ChainsInv ==
  /\ DOMAIN chains = Info!Chains /\ Info!Gnosis \in Info!Chains
  /\ \A c \in Info!Chains : chains[c] \in Seq(Nat) /\ Len(chains[c]) > 0 /\ Sorted(chains[c])
  /\ block \in Nat /\ block > 0 /\ block < Len(chains[Info!Gnosis])

\* A proposal is only looked for once the oracle's setup was checked.
ProposalInv ==
  /\ pc \in {"logs", "header", "search", "parent", "done"} => oracle.proposer = "consensus"
  /\ proposals \in ProposalLogs
  /\ Info!ProposalIsRequests

\* What the searches found are last blocks, and so is what is made of it.
BlocksInv ==
  /\ blocks \in [time : Nat, ethereumBlock : Int, safeBlock : Int]
  /\ pc \in {"config", "logs", "header"} => DOMAIN searched = {}
  /\ \A c \in DOMAIN searched :
       /\ searched[c] \in Int
       /\ searched[c] # -1 => c \in Info!Chains /\ LastIn(chains[c], searched[c], blocks.time)
  /\ pc \in {"search", "parent"} => blocks.time = Info!Time(Info!Gnosis, block)
  /\ pc \in {"parent", "done"} => LastIn(chains[Info!Mainnet], blocks.ethereumBlock, blocks.time)
  /\ pc = "parent" => Info!SafeChain = Info!Gnosis
  /\ pc = "done" => /\ Info!SafeChain \in Info!Chains
                    /\ LastIn(chains[Info!SafeChain], blocks.safeBlock, blocks.time)

LEMMA StartsSorted ==
  ASSUME NEW n \in {1, 2}, NEW times \in [1 .. n -> Nat], n = 2 => times[1] <= times[2]
  PROVE  /\ <<0>> \o times \in Seq(Nat) /\ Len(<<0>> \o times) = n + 1
         /\ Sorted(<<0>> \o times)
<1> DEFINE s == <<0>> \o times
<1>1. times \in Seq(Nat) /\ Len(times) = n /\ n \in Nat
  OBVIOUS
<1>2. <<0>> \in Seq(Nat) /\ Len(<<0>>) = 1 /\ <<0>>[1] = 0
  OBVIOUS
<1>3. s \in Seq(Nat) /\ Len(s) = n + 1 /\ s[1] = 0
  BY <1>1, <1>2, ConcatProperties
<1>4. \A i \in 1 .. n : s[i + 1] = times[i]
  BY <1>1, <1>2, ConcatProperties
<1> HIDE DEF s
<1>5. s[2] = times[1] /\ s[2] \in Nat
  <2>1. 1 \in 1 .. n /\ 1 + 1 = 2
    OBVIOUS
  <2> QED BY <1>4, <2>1
<1>6. n = 2 => s[3] = times[2] /\ s[3] \in Nat
  <2>1. n = 2 => 2 \in 1 .. n /\ 2 + 1 = 3
    OBVIOUS
  <2> QED BY <1>4, <2>1
<1>7. s[1] <= s[2] /\ (n = 2 => s[1] <= s[3] /\ s[2] <= s[3])
  BY <1>3, <1>5, <1>6
<1>8. ASSUME NEW i \in 1 .. Len(s), NEW j \in 1 .. Len(s), i <= j PROVE s[i] <= s[j]
  <2>1. i \in 1 .. n + 1 /\ j \in 1 .. n + 1 /\ s[i] \in Nat
    BY <1>3, ElementOfSeq
  <2>2. CASE i = j
    BY <2>1, <2>2
  <2>3. CASE i = 1 /\ j = 2
    BY <1>7, <2>3
  <2>4. CASE i \in {1, 2} /\ j = 3
    BY <1>7, <2>1, <2>4
  <2>5. i = j \/ (i = 1 /\ j = 2) \/ (i \in {1, 2} /\ j = 3)
    BY <1>8, <2>1
  <2> QED BY <2>2, <2>3, <2>4, <2>5
<1> QED BY <1>3, <1>8 DEF Sorted, s

LEMMA ChainsInitially == Info!Init => ChainsInv
<1> SUFFICES ASSUME Info!Init PROVE ChainsInv
  OBVIOUS
<1> DEFINE G == Info!Gnosis
<1>1. PICK times \in {t \in [1 .. 1 -> Times] \cup [1 .. 2 -> Times] : Info!NonDecreasing(t)} :
        /\ chains = [c \in Info!Chains |-> IF c = G THEN <<0>> \o times ELSE <<0>>]
        /\ block \in DOMAIN times
  BY DEF Info!Init
<1>2. PICK n \in {1, 2} : times \in [1 .. n -> Nat] /\ DOMAIN times = 1 .. n
  BY CommandsAssumption, Zenon
<1>3. n = 2 => times[1] <= times[2]
  <2>1. \A j \in DOMAIN times : j > 1 => times[j - 1] <= times[j]
    BY DEF Info!NonDecreasing
  <2>2. n = 2 => 2 \in 1 .. n /\ 2 - 1 = 1
    OBVIOUS
  <2> QED BY <1>2, <2>1, <2>2
<1> DEFINE s == <<0>> \o times
<1>4. s \in Seq(Nat) /\ Len(s) = n + 1 /\ Sorted(s)
  BY <1>2, <1>3, StartsSorted, Zenon
<1> DEFINE z == <<0>>
<1>5. z \in Seq(Nat) /\ Len(z) = 1 /\ Sorted(z)
  BY DEF Sorted
<1>6. G \in Info!Chains
  BY DEF Info!Chains, Info!Gnosis, Info!Huge
<1>7. block \in Nat /\ block > 0 /\ block < Len(s)
  BY <1>1, <1>2, <1>4
<1>8. /\ DOMAIN chains = Info!Chains /\ chains[G] = s
      /\ \A c \in Info!Chains : c # G => chains[c] = z
  BY <1>1, <1>6
<1> HIDE DEF s, G, z
<1>9. \A c \in Info!Chains : chains[c] \in Seq(Nat) /\ Len(chains[c]) > 0 /\ Sorted(chains[c])
  <2>1. Len(s) > 0
    BY <1>7
  <2>2. Len(z) > 0
    BY <1>5
  <2> QED BY <1>4, <1>5, <1>8, <2>1, <2>2, Zenon
<1> QED BY <1>6, <1>7, <1>8, <1>9, Zenon DEF ChainsInv, G

\* Blocks stay the last before the proposal's time as a chain grows.
LEMMA GrowthKeeps ==
  ASSUME ChainsInv, BlocksInv, NEW c \in Info!Chains, Info!ChainGrows(c)
  PROVE  ChainsInv' /\ BlocksInv'
<1>1. PICK t \in Times : t >= Info!Time(c, Info!Height(c)) /\ chains' = [chains EXCEPT ![c] = Append(@, t)]
  BY Zenon DEF Info!ChainGrows
<1>2. UNCHANGED <<oracle, proposals, id, block, pc, proposal, searched, blocks>>
  BY DEF Info!ChainGrows
<1> DEFINE s == chains[c]
           r == Append(s, t)
<1>3. s \in Seq(Nat) /\ Len(s) > 0 /\ Len(s) \in Nat /\ Sorted(s)
  BY LenProperties DEF ChainsInv
<1>4. t \in Nat /\ t >= s[Len(s)]
  BY <1>1, <1>3, CommandsAssumption DEF Info!Time, Info!Height
<1>5. /\ r \in Seq(Nat) /\ Len(r) = Len(s) + 1 /\ Sorted(r)
      /\ \A b, u \in Nat : LastIn(s, b, u) => LastIn(r, b, u)
  <2> HIDE DEF s
  <2> QED BY <1>3, <1>4, StaysLast
<1>6. /\ DOMAIN chains' = Info!Chains /\ chains'[c] = r
      /\ \A d \in Info!Chains : d # c => chains'[d] = chains[d]
  BY <1>1 DEF ChainsInv
<1>7. \A i \in 1 .. Len(s) : r[i] = s[i]
  BY <1>3, <1>4, AppendProperties
<1> HIDE DEF r
<1>8. ChainsInv'
  <2>1. \A d \in Info!Chains : chains'[d] \in Seq(Nat) /\ Len(chains'[d]) > 0 /\ Sorted(chains'[d])
    <3>1. Len(r) > 0
      BY <1>3, <1>5
    <3> QED BY <1>5, <1>6, <3>1, Zenon DEF ChainsInv
  <2>2. block < Len(chains'[Info!Gnosis])
    <3>1. block \in Nat /\ block < Len(chains[Info!Gnosis]) /\ Info!Gnosis \in Info!Chains
      BY DEF ChainsInv
    <3>2. CASE c = Info!Gnosis
      BY <1>3, <1>5, <1>6, <3>1, <3>2
    <3>3. CASE c # Info!Gnosis
      BY <1>6, <3>1, <3>3
    <3> QED BY <3>2, <3>3
  <2> QED BY <1>2, <1>6, <2>1, <2>2, Zenon DEF ChainsInv
<1>9. ASSUME NEW d \in Info!Chains, NEW b, LastIn(chains[d], b, blocks.time)
      PROVE  LastIn(chains'[d], b, blocks.time)
  <2>1. b \in Nat /\ blocks.time \in Nat
    BY <1>9 DEF LastIn, BlocksInv
  <2> QED BY <1>5, <1>6, <1>9, <2>1
<1>10. Info!Time(Info!Gnosis, block)' = Info!Time(Info!Gnosis, block)
  <2>1. block + 1 \in 1 .. Len(chains[Info!Gnosis])
    BY DEF ChainsInv
  <2>2. chains'[Info!Gnosis][block + 1] = chains[Info!Gnosis][block + 1]
    BY <1>6, <1>7, <2>1, Zenon DEF ChainsInv
  <2> QED BY <1>2, <2>2 DEF Info!Time
<1>11. Info!SafeChain' = Info!SafeChain
  BY <1>2 DEF Info!SafeChain
<1>12. Info!Mainnet \in Info!Chains /\ UNCHANGED Info!Chains
  BY DEF Info!Chains, Info!Mainnet, Info!Gnosis, Info!Huge
<1>13. \A d \in DOMAIN searched' :
         /\ searched'[d] \in Int
         /\ searched'[d] # -1 => d \in Info!Chains /\ LastIn(chains'[d], searched'[d], blocks'.time)
  BY <1>2, <1>9 DEF BlocksInv
<1>14. /\ pc' \in {"parent", "done"} => LastIn(chains'[Info!Mainnet], blocks'.ethereumBlock, blocks'.time)
       /\ pc' = "done" => /\ Info!SafeChain' \in Info!Chains
                          /\ LastIn(chains'[Info!SafeChain'], blocks'.safeBlock, blocks'.time)
  BY <1>2, <1>9, <1>11, <1>12, Zenon DEF BlocksInv
<1>15. UNCHANGED Info!Mainnet /\ UNCHANGED Info!Gnosis
  OBVIOUS
<1> QED BY <1>2, <1>8, <1>10, <1>11, <1>12, <1>13, <1>14, <1>15 DEF BlocksInv

\* A search finds the last block before t, or fails.
LEMMA SearchIsLast ==
  ASSUME ChainsInv, NEW c \in Info!Chains, NEW t \in Nat, NEW b \in Info!SearchBlock(c, t)
  PROVE  b \in Int /\ (b # -1 => b \in Nat /\ LastIn(chains[c], b, t))
<1> DEFINE s == chains[c]
<1>1. s \in Seq(Nat) /\ Len(s) > 0 /\ Len(s) \in Nat /\ Sorted(s)
  BY LenProperties DEF ChainsInv
<1>2. Info!Before(c, t) = Earlier(s, t) /\ Info!Time(c, Info!Height(c)) = s[Len(s)]
  BY <1>1 DEF Info!Before, Info!Height, Info!Time, Earlier
<1>3. CASE Info!CanSearch(c, t)
  <2>1. Earlier(s, t) # {} /\ s[Len(s)] >= t
    BY <1>2, <1>3 DEF Info!CanSearch
  <2>2. LastIn(s, Info!LastBefore(c, t), t)
    <3> HIDE DEF s
    <3> QED BY <1>1, <1>2, <2>1, SearchFindsLast DEF Info!LastBefore
  <2>3. b = -1 \/ b = Info!LastBefore(c, t)
    BY <1>3 DEF Info!SearchBlock
  <2> HIDE DEF s
  <2>4. Info!LastBefore(c, t) \in Nat
    BY <1>1, <2>2 DEF LastIn
  <2> QED BY <2>2, <2>3, <2>4 DEF s
<1>4. CASE ~Info!CanSearch(c, t)
  BY <1>4 DEF Info!SearchBlock
<1> QED BY <1>3, <1>4

LEMMA InfoInitially == Info!Init => ChainsInv /\ ProposalInv /\ BlocksInv
<1> SUFFICES ASSUME Info!Init PROVE ProposalInv /\ BlocksInv
  BY ChainsInitially
<1>1. /\ pc = "config" /\ proposal = <<>> /\ proposals \in ProposalLogs
      /\ DOMAIN searched = {} /\ blocks = [time |-> 0, ethereumBlock |-> 0, safeBlock |-> 0]
  BY DEF Info!Init, Info!NoBlocks, Info!NoResult
<1>2. ProposalInv
  BY <1>1 DEF ProposalInv, Info!ProposalIsRequests
<1>3. BlocksInv
  BY <1>1 DEF BlocksInv
<1> QED BY <1>2, <1>3

\* The log that is taken is the least of those at which the loop ends, so one of
\* them, and then the request's, as it can be decoded.
LEMMA FindKeeps ==
  ASSUME ChainsInv, ProposalInv, BlocksInv, Info!FindProposal
  PROVE  ChainsInv' /\ ProposalInv' /\ BlocksInv'
<1> DEFINE ends  == {k \in Info!Relevant : ~proposals[k].valid \/ Info!IsRequested(proposals[k])}
           first == CHOOSE k \in ends : \A j \in ends : k <= j
           fits  == ends # {} /\ proposals[first].valid /\ Info!HashesFit(proposals[first])
<1>1. /\ pc = "logs" /\ pc' = (IF fits THEN "header" ELSE "error")
      /\ proposal' = (IF fits THEN <<proposals[first]>> ELSE proposal)
      /\ UNCHANGED <<chains, oracle, proposals, id, block, searched, blocks>>
  BY DEF Info!FindProposal
<1>2. proposals \in ProposalLogs /\ oracle.proposer = "consensus"
  BY <1>1 DEF ProposalInv
<1>3. ends \in SUBSET DOMAIN proposals /\ DOMAIN proposals \in SUBSET Nat
  BY <1>2, CommandsAssumption DEF Info!Relevant
<1>4. ASSUME fits
      PROVE  /\ first \in DOMAIN proposals
             /\ Info!RequestID(proposals[first].epoch, Info!Hash(proposals[first].tx)) = id
  <2>1. first \in ends
    <3> HIDE DEF ends
    <3>1. ends # {} /\ ends \in SUBSET Nat
      BY <1>3, <1>4
    <3>2. \E k \in ends : \A j \in ends : k <= j
      BY <3>1, HasLeast
    <3> QED BY <3>2
  <2> HIDE DEF first
  <2>2. first \in DOMAIN proposals /\ Info!IsRequested(proposals[first])
    BY <1>3, <1>4, <2>1
  <2>3. Info!HashesFit(proposals[first])
    BY <1>4
  <2> QED BY <2>2, <2>3 DEF Info!IsRequested, Info!HashesFit
<1> HIDE DEF ends, first
<1>5. ChainsInv'
  BY <1>1 DEF ChainsInv
<1>6. ProposalInv'
  <2>1. CASE fits
    <3>1. proposal'[1] = proposals[first] /\ pc' = "header"
      BY <1>1, <2>1
    <3>2. Info!ProposalIsRequests'
      BY <1>1, <1>2, <1>4, <2>1, <3>1 DEF Info!ProposalIsRequests, Info!RequestID, Info!Hash
    <3> QED BY <1>1, <1>2, <3>1, <3>2 DEF ProposalInv
  <2>2. CASE ~fits
    BY <1>1, <1>2, <2>2 DEF ProposalInv, Info!ProposalIsRequests, Info!RequestID, Info!Hash
  <2> QED BY <2>1, <2>2
<1>7. BlocksInv'
  <2>1. pc' \in {"header", "error"}
    BY <1>1
  <2>2. DOMAIN searched = {}
    BY <1>1 DEF BlocksInv
  <2> QED BY <1>1, <2>1, <2>2 DEF BlocksInv
<1> QED BY <1>5, <1>6, <1>7

\* Reading the oracle's setup, the proposal's header, or nothing.
LEMMA ReadKeeps ==
  ASSUME ChainsInv, ProposalInv, BlocksInv, Info!ReadConfig \/ Info!ReadHeader \/ Info!CallFails
  PROVE  ChainsInv' /\ ProposalInv' /\ BlocksInv'
<1>1. /\ UNCHANGED <<chains, oracle, proposals, id, block, proposal, searched>>
      /\ pc \in {"config", "logs", "header", "parent"}
      /\ pc' \in {"logs", "search", "error"}
      /\ pc' = "logs" => oracle.proposer = "consensus" /\ pc = "config" /\ UNCHANGED blocks
      /\ pc' = "search" =>
           /\ pc = "header"
           /\ blocks' = [blocks EXCEPT !.time = Info!Time(Info!Gnosis, block)]
      /\ blocks' \in {blocks, [blocks EXCEPT !.time = Info!Time(Info!Gnosis, block)]}
      /\ pc # "header" => UNCHANGED blocks
  BY DEF Info!ReadConfig, Info!ReadHeader, Info!CallFails
<1>2. Info!Time(Info!Gnosis, block) \in Nat
  <2> DEFINE s == chains[Info!Gnosis]
  <2>1. s \in Seq(Nat) /\ Len(s) \in Nat /\ block \in Nat /\ block < Len(s)
    BY LenProperties DEF ChainsInv
  <2> HIDE DEF s
  <2>2. block + 1 \in 1 .. Len(s)
    BY <2>1
  <2>3. s[block + 1] \in Nat
    BY <2>1, <2>2, ElementOfSeq
  <2> QED BY <2>3 DEF Info!Time, s
<1>3. ChainsInv'
  BY <1>1 DEF ChainsInv
<1>4. ProposalInv'
  <2>1. Info!ProposalIsRequests'
    BY <1>1 DEF ProposalInv, Info!ProposalIsRequests, Info!RequestID, Info!Hash
  <2> QED BY <1>1, <2>1 DEF ProposalInv
<1>5. blocks' \in [time : Nat, ethereumBlock : Int, safeBlock : Int]
  BY <1>1, <1>2 DEF BlocksInv
<1>6. pc' = "search" => blocks'.time = Info!Time(Info!Gnosis, block)'
  <2> DEFINE t == Info!Time(Info!Gnosis, block)
  <2>1. t' = t
    BY <1>1 DEF Info!Time
  <2> HIDE DEF t
  <2>2. blocks \in [time : Nat, ethereumBlock : Int, safeBlock : Int]
    BY DEF BlocksInv
  <2>3. pc' = "search" => blocks' = [blocks EXCEPT !.time = t]
    BY <1>1 DEF t
  <2>4. pc' = "search" => blocks'.time = t
    BY <2>2, <2>3
  <2> QED BY <2>1, <2>4 DEF t
<1>7. \A c \in DOMAIN searched :
        /\ searched[c] \in Int
        /\ searched[c] # -1 => c \in Info!Chains /\ LastIn(chains[c], searched[c], blocks'.time)
  <2>1. CASE pc = "header"
    BY <2>1 DEF BlocksInv
  <2>2. CASE pc # "header"
    BY <1>1, <2>2 DEF BlocksInv
  <2> QED BY <2>1, <2>2
<1>8. pc' = "logs" => DOMAIN searched = {}
  BY <1>1 DEF BlocksInv
<1>9. BlocksInv'
  BY <1>1, <1>5, <1>6, <1>7, <1>8 DEF BlocksInv
<1> QED BY <1>3, <1>4, <1>9

\* What the searches find, and what they are joined to.
LEMMA SearchKeeps ==
  ASSUME ChainsInv, ProposalInv, BlocksInv, NEW c \in Info!Chains, Info!Search(c)
  PROVE  ChainsInv' /\ ProposalInv' /\ BlocksInv'
<1>1. /\ pc = "search" /\ UNCHANGED <<chains, oracle, proposals, id, block, pc, proposal, blocks>>
  BY DEF Info!Search
<1>2. PICK b \in Info!SearchBlock(c, blocks.time) :
        searched' = [d \in DOMAIN searched \cup {c} |-> IF d = c THEN b ELSE searched[d]]
  BY DEF Info!Search
<1>3. blocks.time \in Nat
  BY DEF BlocksInv
<1>4. b \in Int /\ (b # -1 => LastIn(chains[c], b, blocks.time))
  BY <1>3, SearchIsLast
<1>5. \A d \in DOMAIN searched' :
        /\ searched'[d] \in Int
        /\ searched'[d] # -1 => d \in Info!Chains /\ LastIn(chains[d], searched'[d], blocks.time)
  <2> TAKE d \in DOMAIN searched'
  <2>1. d \in DOMAIN searched \cup {c} /\ searched'[d] = (IF d = c THEN b ELSE searched[d])
    BY <1>2
  <2>2. CASE d = c
    BY <1>4, <2>1, <2>2
  <2>3. CASE d # c
    <3>1. d \in DOMAIN searched /\ searched'[d] = searched[d]
      BY <2>1, <2>3
    <3> QED BY <3>1 DEF BlocksInv
  <2> QED BY <2>2, <2>3
<1>6. blocks.time = Info!Time(Info!Gnosis, block)'
  BY <1>1 DEF BlocksInv, Info!Time
<1>7. BlocksInv'
  BY <1>1, <1>5, <1>6 DEF BlocksInv
<1>8. ChainsInv'
  BY <1>1 DEF ChainsInv
<1>9. ProposalInv'
  BY <1>1 DEF ProposalInv, Info!ProposalIsRequests, Info!RequestID, Info!Hash
<1> QED BY <1>7, <1>8, <1>9

LEMMA JoinKeeps ==
  ASSUME ChainsInv, ProposalInv, BlocksInv, Info!Join
  PROVE  ChainsInv' /\ ProposalInv' /\ BlocksInv'
<1>1. /\ pc = "search" /\ DOMAIN searched = Info!Searched
      /\ UNCHANGED <<chains, oracle, proposals, id, block, proposal, searched>>
  BY DEF Info!Join
<1>2. ChainsInv'
  BY <1>1 DEF ChainsInv
<1>3. ProposalInv'
  BY <1>1 DEF ProposalInv, Info!ProposalIsRequests, Info!RequestID, Info!Hash, Info!Join
<1>4. /\ blocks \in [time : Nat, ethereumBlock : Int, safeBlock : Int]
      /\ blocks.time = Info!Time(Info!Gnosis, block)
  BY <1>1 DEF BlocksInv
<1>5. UNCHANGED Info!SafeChain /\ Info!Time(Info!Gnosis, block)' = Info!Time(Info!Gnosis, block)
  BY <1>1 DEF Info!SafeChain, Info!Time
<1>6. \A c \in Info!Searched :
        /\ searched[c] \in Int
        /\ searched[c] # -1 => c \in Info!Chains /\ LastIn(chains[c], searched[c], blocks.time)
  BY <1>1 DEF BlocksInv
<1>7. CASE \E c \in Info!Searched : searched[c] = -1
  <2>1. pc' = "error" /\ UNCHANGED blocks
    BY <1>7 DEF Info!Join
  <2> QED BY <1>1, <1>2, <1>3, <1>4, <1>6, <2>1 DEF BlocksInv
<1>8. CASE \A c \in Info!Searched : searched[c] # -1
  <2>1. /\ pc' = (IF Info!SafeChain = Info!Gnosis THEN "parent" ELSE "done")
        /\ blocks' = [blocks EXCEPT !.ethereumBlock = searched[Info!Mainnet],
                                    !.safeBlock = IF Info!SafeChain = Info!Gnosis
                                                  THEN @ ELSE searched[Info!SafeChain]]
    BY <1>8 DEF Info!Join
  <2>2. /\ Info!Mainnet \in Info!Searched
        /\ Info!SafeChain # Info!Gnosis => Info!SafeChain \in Info!Searched
    BY DEF Info!Searched, Info!Mainnet, Info!Gnosis
  <2>3. /\ blocks' \in [time : Nat, ethereumBlock : Int, safeBlock : Int]
        /\ blocks'.time = blocks.time /\ blocks'.ethereumBlock = searched[Info!Mainnet]
        /\ Info!SafeChain # Info!Gnosis => blocks'.safeBlock = searched[Info!SafeChain]
    BY <1>4, <1>6, <2>1, <2>2, Zenon
  <2>4. LastIn(chains[Info!Mainnet], blocks'.ethereumBlock, blocks'.time)
    BY <1>6, <1>8, <2>2, <2>3
  <2>5. Info!SafeChain # Info!Gnosis =>
          /\ Info!SafeChain \in Info!Chains
          /\ LastIn(chains[Info!SafeChain], blocks'.safeBlock, blocks'.time)
    <3> SUFFICES ASSUME Info!SafeChain # Info!Gnosis
                 PROVE  /\ Info!SafeChain \in Info!Chains
                        /\ LastIn(chains[Info!SafeChain], blocks'.safeBlock, blocks'.time)
      OBVIOUS
    <3>1. Info!SafeChain \in Info!Searched /\ searched[Info!SafeChain] # -1
      BY <1>8, <2>2
    <3>2. /\ Info!SafeChain \in Info!Chains
          /\ LastIn(chains[Info!SafeChain], searched[Info!SafeChain], blocks.time)
      BY <1>6, <3>1
    <3>3. blocks'.safeBlock = searched[Info!SafeChain] /\ blocks'.time = blocks.time
      BY <2>3
    <3> QED BY <3>2, <3>3
  <2> QED BY <1>1, <1>2, <1>3, <1>4, <1>5, <1>6, <2>1, <2>3, <2>4, <2>5 DEF BlocksInv
<1> QED BY <1>7, <1>8

\* The proposal's parent is the last before its time, if it isn't of that time.
LEMMA ParentKeeps ==
  ASSUME ChainsInv, ProposalInv, BlocksInv, Info!ParentBlock
  PROVE  ChainsInv' /\ ProposalInv' /\ BlocksInv'
<1> DEFINE s == chains[Info!Gnosis]
           t == blocks.time
<1>1. PICK b \in IF Info!ParentIsBefore THEN {block - 1} ELSE Info!SearchBlock(Info!Gnosis, t) :
        IF b = -1 THEN pc' = "error" /\ UNCHANGED blocks
        ELSE pc' = "done" /\ blocks' = [blocks EXCEPT !.safeBlock = b]
  BY DEF Info!ParentBlock
<1>2. pc = "parent" /\ UNCHANGED <<chains, oracle, proposals, id, block, proposal, searched>>
  BY DEF Info!ParentBlock
<1>3. ChainsInv'
  BY <1>2 DEF ChainsInv
<1>4. ProposalInv'
  BY <1>1, <1>2 DEF ProposalInv, Info!ProposalIsRequests, Info!RequestID, Info!Hash
<1>5. /\ Info!Gnosis \in Info!Chains /\ s \in Seq(Nat) /\ Len(s) \in Nat /\ Sorted(s)
      /\ block \in Nat /\ block > 0 /\ block < Len(s)
  BY LenProperties DEF ChainsInv
<1>6. blocks \in [time : Nat, ethereumBlock : Int, safeBlock : Int] /\ t \in Nat
  BY DEF BlocksInv
<1>7. t = s[block + 1] /\ Info!SafeChain = Info!Gnosis
  BY <1>2 DEF BlocksInv, Info!Time
<1>8. b \in Int /\ (b # -1 => LastIn(s, b, t))
  <2>1. CASE Info!ParentIsBefore
    <3>1. b = block - 1 /\ Info!Time(Info!Gnosis, block - 1) < t
      BY <1>1, <2>1 DEF Info!ParentIsBefore
    <3> HIDE DEF s, t
    <3>2. b \in Nat /\ b + 1 = block /\ (block - 1) + 1 = block
      BY <1>5, <3>1
    <3>3. s[b + 1] < t
      BY <3>1, <3>2 DEF Info!Time, s
    <3>4. /\ block + 1 \in 1 .. Len(s) /\ Len(s) \in 1 .. Len(s) /\ s[Len(s)] \in Nat
          /\ \A i \in 1 .. Len(s) : s[i] \in Nat
      BY <1>5, ElementOfSeq
    <3>5. \A i \in 1 .. Len(s) : block + 1 <= i => s[i] >= t
      BY <1>5, <1>6, <1>7, <3>4 DEF Sorted
    <3>6. s[Len(s)] >= t /\ \A i \in 1 .. Len(s) : i > b + 1 => s[i] >= t
      BY <1>5, <3>2, <3>4, <3>5
    <3>7. b < Len(s) /\ b \in Int
      BY <1>5, <3>2
    <3> QED BY <3>2, <3>3, <3>6, <3>7 DEF LastIn
  <2>2. CASE ~Info!ParentIsBefore
    BY <1>1, <1>5, <1>6, <2>2, SearchIsLast
  <2> QED BY <2>1, <2>2
<1> HIDE DEF s, t
<1>9. \A c \in DOMAIN searched' :
        /\ searched'[c] \in Int
        /\ searched'[c] # -1 => c \in Info!Chains /\ LastIn(chains'[c], searched'[c], blocks.time)
  BY <1>2 DEF BlocksInv
<1>10. CASE b = -1
  <2>1. pc' = "error" /\ UNCHANGED blocks
    BY <1>1, <1>10
  <2> QED BY <1>2, <1>3, <1>4, <1>6, <1>9, <2>1 DEF BlocksInv
<1>11. CASE b # -1
  <2>1. pc' = "done" /\ blocks' = [blocks EXCEPT !.safeBlock = b]
    BY <1>1, <1>11
  <2>2. /\ blocks' \in [time : Nat, ethereumBlock : Int, safeBlock : Int]
        /\ blocks'.time = blocks.time /\ blocks'.safeBlock = b
        /\ blocks'.ethereumBlock = blocks.ethereumBlock
    BY <1>6, <1>8, <2>1
  <2>3. UNCHANGED Info!SafeChain
    BY <1>2 DEF Info!SafeChain
  <2>4. LastIn(chains[Info!Gnosis], b, blocks.time)
    BY <1>8, <1>11 DEF s, t
  <2>5. LastIn(chains[Info!Mainnet], blocks.ethereumBlock, blocks.time)
    BY <1>2 DEF BlocksInv
  <2>6. Info!SafeChain' = Info!Gnosis /\ Info!Gnosis \in Info!Chains
    BY <1>5, <1>7, <2>3
  <2> QED BY <1>2, <1>3, <1>4, <1>9, <2>1, <2>2, <2>4, <2>5, <2>6 DEF BlocksInv
<1> QED BY <1>10, <1>11

LEMMA InfoKept ==
  ASSUME ChainsInv, ProposalInv, BlocksInv, Info!Next \/ UNCHANGED infoVars
  PROVE  ChainsInv' /\ ProposalInv' /\ BlocksInv'
<1>1. CASE Info!ReadConfig \/ Info!ReadHeader \/ Info!CallFails
  BY <1>1, ReadKeeps
<1>2. CASE Info!FindProposal
  BY <1>2, FindKeeps
<1>3. CASE Info!Join
  BY <1>3, JoinKeeps
<1>4. CASE Info!ParentBlock
  BY <1>4, ParentKeeps
<1>5. ASSUME NEW c \in Info!Chains, Info!Search(c) \/ Info!ChainGrows(c)
      PROVE  ChainsInv' /\ ProposalInv' /\ BlocksInv'
  <2>1. CASE Info!Search(c)
    BY <2>1, SearchKeeps
  <2>2. CASE Info!ChainGrows(c)
    <3>1. ProposalInv'
      BY <2>2 DEF ProposalInv, Info!ProposalIsRequests, Info!RequestID, Info!Hash, Info!ChainGrows
    <3> QED BY <2>2, <3>1, GrowthKeeps
  <2> QED BY <1>5, <2>1, <2>2
<1>6. CASE UNCHANGED infoVars
  <2>1. UNCHANGED <<chains, oracle, proposals, id, block, pc, proposal, searched, blocks>>
    BY <1>6 DEF infoVars
  <2>2. UNCHANGED Info!SafeChain /\ Info!Time(Info!Gnosis, block)' = Info!Time(Info!Gnosis, block)
    BY <2>1 DEF Info!SafeChain, Info!Time
  <2>3. ChainsInv'
    BY <2>1 DEF ChainsInv
  <2>4. ProposalInv'
    BY <2>1 DEF ProposalInv, Info!ProposalIsRequests, Info!RequestID, Info!Hash
  <2>5. BlocksInv'
    BY <2>1, <2>2 DEF BlocksInv
  <2> QED BY <2>3, <2>4, <2>5
<1> QED BY <1>1, <1>2, <1>3, <1>4, <1>5, <1>6 DEF Info!Next

\* For any logs in the proposal's block, in any order, the proposal that info takes
\* hashes to the request's ID, from an oracle whose proposer is the consensus.
THEOREM ProposalFitsRequest == Spec => []ProposalIsRequests
<1> DEFINE IInv == command = "info" => ChainsInv /\ ProposalInv /\ BlocksInv
<1>1. Init => IInv
  BY InfoInitially DEF Init
<1>2. IInv /\ [Next]_vars => IInv'
  BY InfoKept, OneCommand
<1>3. IInv => ProposalIsRequests
  BY DEF ProposalInv, ProposalIsRequests
<1> QED BY <1>1, <1>2, <1>3, PTL DEF Spec

\* For any chains whose times don't decrease, and however far they have grown, at
\* any step and after it, no block that came before the proposal is later than
\* those that info reports.
THEOREM InfoBlocksStayLast == Spec => []BlocksStayLast
<1> DEFINE IInv == command = "info" => ChainsInv /\ ProposalInv /\ BlocksInv
<1>1. Init => IInv
  BY InfoInitially DEF Init
<1>2. IInv /\ [Next]_vars => IInv'
  BY InfoKept, OneCommand
<1>3. IInv => BlocksStayLast
  <2> SUFFICES ASSUME ChainsInv, BlocksInv, pc = "done" PROVE Info!BlocksStayLast
    BY DEF BlocksStayLast, Info!BlocksStayLast
  <2>1. ASSUME NEW c \in Info!Chains, NEW b, LastIn(chains[c], b, blocks.time)
        PROVE  /\ Info!Time(c, b) < blocks.time
               /\ \A d \in 0 .. Info!Height(c) : Info!Time(c, d) < blocks.time => d <= b
    <3> DEFINE s == chains[c]
               t == blocks.time
    <3>1. s \in Seq(Nat) /\ Len(s) \in Nat /\ t \in Nat
      BY LenProperties DEF ChainsInv, BlocksInv
    <3>2. /\ b \in Nat /\ s[b + 1] < t
          /\ \A i \in 1 .. Len(s) : i > b + 1 => s[i] >= t
      BY <2>1 DEF LastIn
    <3> HIDE DEF s, t
    <3>3. ASSUME NEW d \in 0 .. Len(s) - 1, s[d + 1] < t PROVE d <= b
      <4>1. d + 1 \in 1 .. Len(s) /\ s[d + 1] \in Nat
        BY <3>1, ElementOfSeq
      <4>2. ~(d + 1 > b + 1)
        BY <3>1, <3>2, <3>3, <4>1
      <4> QED BY <3>2, <4>2
    <3> QED BY <3>2, <3>3 DEF Info!Time, Info!Height, s, t
  <2>2. /\ Info!Mainnet \in Info!Chains /\ Info!SafeChain \in Info!Chains
        /\ LastIn(chains[Info!Mainnet], blocks.ethereumBlock, blocks.time)
        /\ LastIn(chains[Info!SafeChain], blocks.safeBlock, blocks.time)
    BY DEF BlocksInv, Info!Chains, Info!Mainnet, Info!Gnosis, Info!Huge
  <2> QED BY <2>1, <2>2 DEF Info!BlocksStayLast
<1> QED BY <1>1, <1>2, <1>3, PTL DEF Spec

-----------------------------------------------------------------------------
(* executions, of plain transactions                                         *)

\* What an onchain transaction starts has positions, from 1 on.
LEMMA StartedListed ==
  ASSUME NEW tx \in Shapes
  PROVE  \E n : OfLength(ExecutionsCommand!Started(tx), n)
<1> DEFINE S == {i \in DOMAIN tx.frames : ~tx.frames[i].reverted}
<1>1. IsFiniteSet(S)
  <2>1. tx.frames \in Seq([fields : Fields, reverted : BOOLEAN])
    BY ExecutionsAssumption DEF ExecutionsCommand!IsShape
  <2>2. IsFiniteSet(DOMAIN tx.frames)
    BY <2>1, LenProperties, FS_Interval
  <2> QED BY <2>2, FS_Subset
<1>2. Cardinality(S) \in Nat
  BY <1>1, FS_CardinalityType
<1> DEFINE n == Cardinality(S)
           positions == ExecutionsCommand!InOrder({ij \in S \X S : ij[1] < ij[2]}, S)
           f == [k \in 1 .. n |-> tx.frames[positions[k]]]
<1>3. ExecutionsCommand!Started(tx) = f
  BY DEF ExecutionsCommand!Started, ExecutionsCommand!Part,
         ExecutionsCommand!Cardinality, Cardinality
<1>4. f = [k \in 1 .. n |-> f[k]]
  OBVIOUS
<1> HIDE DEF f
<1> QED BY <1>2, <1>3, <1>4 DEF OfLength

\* A hash that onchain transaction t logs.
LoggedBy(t, hash) ==
  \E i \in DOMAIN ExecutionsCommand!Hashes(t.tx, t.start) :
    ExecutionsCommand!Hashes(t.tx, t.start)[i] = hash

ShapesInv ==
  /\ OfLength(chain, Len(chain))
  /\ \A t \in DOMAIN chain : chain[t].tx \in Shapes

\* The executions use the nonces in the order of their logs.
OrderInv ==
  /\ OfLength(executions, Len(executions))
  /\ nonce = FirstNonce + Len(executions)
  /\ \A j \in 1 .. Len(executions) :
       /\ executions[j].tx \in DOMAIN chain
       /\ executions[j].hash[2] = FirstNonce + j - 1
       /\ LoggedBy(chain[executions[j].tx], executions[j].hash)

\* The onchain transaction of execution j, and whether it is a call of the Safe
\* that has the execution.
OnchainTx(j) == executions[j].tx
Direct(j) == chain[OnchainTx(j)].tx.direct = <<executions[j].hash[1]>>

Failed(src, t) == <<src, t>> \in nodeFailed

\* Neither the calldata nor the trace of execution j gives it any more.
NotInCalldata(j) == OnchainTx(j) \in DOMAIN txs /\ (Direct(j) => Failed("calldata", OnchainTx(j)))
NotInTrace(j) == OnchainTx(j) \in DOMAIN traces /\ Failed("trace", OnchainTx(j))

\* Execution j can be taken from a source: none before it has it.
MayTake(j, src) ==
  IF isL2 THEN src = "event"
  ELSE \/ /\ src = "calldata" /\ nonceNext = nonce /\ Direct(j)
          /\ OnchainTx(j) \in DOMAIN txs /\ ~Failed("calldata", OnchainTx(j))
       \/ /\ src = "trace" /\ nonceNext = nonce /\ NotInCalldata(j)
          /\ OnchainTx(j) \in DOMAIN traces /\ ~Failed("trace", OnchainTx(j))
       \/ /\ src \in {"service", ""}
          /\ \/ nonceNext = ExecutionsCommand!Unknown
             \/ nonceNext = nonce /\ NotInCalldata(j) /\ NotInTrace(j)

\* What is kept is what the node has, or nothing if it failed to send it.
Kept ==
  /\ \A t \in DOMAIN txs : txs[t] = IF Failed("calldata", t) THEN <<>> ELSE chain[t].tx.direct
  /\ \A t \in DOMAIN traces :
       traces[t] = IF Failed("trace", t) THEN <<>> ELSE ExecutionsCommand!CallsTo(chain[t].tx)
  /\ \A t : Failed("calldata", t) => t \in DOMAIN txs
  /\ \A t : Failed("trace", t) => t \in DOMAIN traces

\* Where the decoder is: no source that has the execution was passed by.
StepInv ==
  /\ source \in {"chain", "event", "nonce", "calldata", "trace", "service", "done", "error"}
  /\ source \in {"event", "nonce", "calldata", "trace", "service"} => decoding \in 1 .. Len(executions)
  /\ source = "chain" => /\ nonceNext = ExecutionsCommand!Unread /\ nodeFailed = {}
                         /\ DOMAIN txs = {} /\ DOMAIN traces = {}
  /\ nonceNext \in {ExecutionsCommand!Unread, ExecutionsCommand!Unknown, nonce}
  /\ source \in {"nonce", "calldata", "trace", "service"} => ~isL2
  /\ source \in {"calldata", "trace"} => nonceNext = nonce
  /\ source = "trace" => NotInCalldata(decoding)
  /\ source = "service" => MayTake(decoding, "service")

SourceInv ==
  /\ StepInv /\ Kept
  /\ \A j \in DOMAIN found : MayTake(j, found[j].source)

\* Onchain transactions go on using the nonces in order.
LEMMA ExecuteKeeps ==
  ASSUME ShapesInv, FoundInv, ExecutionsCommand!Plain => OrderInv /\ SourceInv,
         ExecutionsCommand!Execute
  PROVE  ShapesInv' /\ (ExecutionsCommand!Plain' => OrderInv' /\ SourceInv')
<1>1. PICK tx \in Shapes :
        /\ chain' = Append(chain, [tx |-> tx, start |-> nonce])
        /\ nonce' = nonce + Len(ExecutionsCommand!Started(tx))
        /\ executions' = executions \o
             [j \in DOMAIN ExecutionsCommand!Logged(tx, nonce) |->
                [tx |-> Len(chain) + 1, hash |-> ExecutionsCommand!Logged(tx, nonce)[j]]]
  BY DEF ExecutionsCommand!Execute
<1>2. source = "chain" /\ UNCHANGED <<decoding, source, nonceNext, txs, traces, found, nodeFailed>>
  BY DEF ExecutionsCommand!Execute
<1> DEFINE S == ExecutionsCommand!Started(tx)
           H == ExecutionsCommand!Hashes(tx, nonce)
           new == [tx |-> tx, start |-> nonce]
           c == Len(chain)
           n == Len(executions)
<1>3. PICK m : OfLength(S, m)
  BY StartedListed
<1>4. /\ OfLength(chain', c + 1) /\ Len(chain') = c + 1 /\ DOMAIN chain' = 1 .. c + 1
      /\ DOMAIN chain = 1 .. c /\ c \in Nat
      /\ \A t \in 1 .. c : chain'[t] = chain[t]
      /\ chain'[c + 1] = new
  <2>1. OfLength(chain, c) /\ c \in Nat
    BY DEF ShapesInv, OfLength
  <2>2. chain' = Append(chain, new)
    BY <1>1
  <2> HIDE DEF c, new
  <2> QED BY <2>1, <2>2, Appended
<1>5. ShapesInv'
  <2>1. new.tx = tx
    OBVIOUS
  <2> HIDE DEF new, c
  <2>2. \A t \in DOMAIN chain' : chain'[t].tx \in Shapes
    <3> SUFFICES ASSUME NEW t \in 1 .. c + 1 PROVE chain'[t].tx \in Shapes
      BY <1>4
    <3>1. CASE t = c + 1
      BY <1>4, <2>1, <3>1
    <3>2. CASE t \in 1 .. c
      BY <1>4, <3>2 DEF ShapesInv
    <3> QED BY <1>4, <3>1, <3>2
  <2> QED BY <1>4, <2>2 DEF ShapesInv
<1>6. ASSUME ExecutionsCommand!Plain' PROVE OrderInv' /\ SourceInv'
  <2>1. ExecutionsCommand!Plain /\ ExecutionsCommand!IsPlain(tx)
    <3>1. \A t \in 1 .. c + 1 : ExecutionsCommand!IsPlain(chain'[t].tx)
      BY <1>4, <1>6 DEF ExecutionsCommand!Plain
    <3>2. c + 1 \in 1 .. c + 1 /\ \A t \in 1 .. c : t \in 1 .. c + 1
      BY <1>4
    <3>3. chain'[c + 1].tx = tx
      BY <1>4
    <3> HIDE DEF c
    <3>4. ExecutionsCommand!IsPlain(tx)
      BY <3>1, <3>2, <3>3
    <3>5. \A t \in 1 .. c : ExecutionsCommand!IsPlain(chain[t].tx)
      BY <1>4, <3>1, <3>2
    <3> QED BY <1>4, <3>4, <3>5 DEF ExecutionsCommand!Plain
  <2>2. OrderInv /\ SourceInv
    BY <2>1
  <2> DEFINE L == ExecutionsCommand!Logged(tx, nonce)
             P == [j \in DOMAIN tx.ends |-> H[tx.ends[j]]]
             more == [j \in DOMAIN L |-> [tx |-> c + 1, hash |-> L[j]]]
  <2>3. OfLength(<<>>, 0)
    BY DEF OfLength
  <2>4. Len(S) = m /\ DOMAIN S = 1 .. m /\ m \in Nat
    BY <1>3, LengthOf
  <2>5. DOMAIN H = 1 .. m /\ \A j \in 1 .. m : H[j] = <<S[j].fields, nonce + j - 1>>
    BY <2>4 DEF ExecutionsCommand!Hashes
  <2>6. DOMAIN tx.ends = 1 .. m /\ tx.fakes = <<>> /\ \A j \in 1 .. m : tx.ends[j] = j
    BY <2>1, <2>4, ExecutionsAssumption DEF ExecutionsCommand!IsShape, ExecutionsCommand!IsPlain
  <2> HIDE DEF H, S
  <2>7. OfLength(P, m) /\ \A j \in 1 .. m : P[j] = H[j]
    BY <2>4, <2>6 DEF OfLength
  <2>8. DOMAIN L = 1 .. m /\ \A j \in 1 .. m : L[j] = H[j]
    <3>1. L = P \o <<>>
      BY <2>6 DEF ExecutionsCommand!Logged, H
    <3> HIDE DEF L, P
    <3>2. Joins(L, P, m, <<>>, 0)
      BY <2>3, <2>7, <3>1, Joined
    <3> QED BY <2>4, <2>7, <3>2 DEF Joins
  <2>9. executions' = executions \o more
    BY <1>1
  <2> HIDE DEF L, P
  <2>10. OfLength(more, m) /\ \A i \in 1 .. m : more[i] = [tx |-> c + 1, hash |-> H[i]]
    BY <2>4, <2>8 DEF OfLength
  <2> HIDE DEF more
  <2>11. /\ Joins(executions', executions, n, more, m)
         /\ n \in Nat /\ nonce = FirstNonce + n /\ FirstNonce \in Nat
    BY <2>2, <2>9, <2>10, Joined, ExecutionsAssumption DEF OrderInv, OfLength
  <2>12. /\ OfLength(executions', n + m) /\ Len(executions') = n + m
         /\ \A j \in 1 .. n : executions'[j] = executions[j]
         /\ \A i \in 1 .. m : executions'[n + i] = [tx |-> c + 1, hash |-> H[i]]
    BY <2>10, <2>11 DEF Joins
  <2>13. nonce' = FirstNonce + (n + m)
    BY <1>1, <2>4, <2>11 DEF S
  <2> DEFINE Fits(j) == /\ executions'[j].tx \in DOMAIN chain'
                        /\ executions'[j].hash[2] = FirstNonce + j - 1
                        /\ LoggedBy(chain'[executions'[j].tx], executions'[j].hash)
  <2> HIDE DEF c, n
  <2>14. ASSUME NEW j \in 1 .. n PROVE Fits(j)
    <3>1. /\ executions[j].tx \in 1 .. c /\ executions[j].hash[2] = FirstNonce + j - 1
          /\ LoggedBy(chain[executions[j].tx], executions[j].hash)
      BY <1>4, <2>2 DEF OrderInv, n
    <3>2. executions[j].tx \in 1 .. c + 1 /\ chain'[executions[j].tx] = chain[executions[j].tx]
      BY <1>4, <3>1
    <3> QED BY <1>4, <2>12, <3>1, <3>2
  <2>15. ASSUME NEW i \in 1 .. m PROVE Fits(n + i)
    <3>1. executions'[n + i].tx = c + 1 /\ executions'[n + i].hash = H[i]
      <4>1. executions'[n + i] = [tx |-> c + 1, hash |-> H[i]]
        BY <2>12, Zenon
      <4> QED BY <4>1
    <3>2. H[i][2] = FirstNonce + (n + i) - 1
      <4>1. H[i] = <<S[i].fields, nonce + i - 1>>
        BY <2>5
      <4>2. H[i][2] = nonce + i - 1
        BY <4>1
      <4> QED BY <2>4, <2>11, <4>2
    <3>3. c + 1 \in DOMAIN chain' /\ new.tx = tx /\ new.start = nonce
      BY <1>4
    <3>4. LoggedBy(new, H[i])
      BY <2>5, <3>3 DEF LoggedBy, H
    <3> HIDE DEF new
    <3> QED BY <1>4, <3>1, <3>2, <3>3, <3>4
  <2>16. \A j \in 1 .. n + m : Fits(j)
    <3> SUFFICES ASSUME NEW j \in 1 .. n + m PROVE Fits(j)
      OBVIOUS
    <3> HIDE DEF Fits
    <3>1. CASE j \in 1 .. n
      BY <2>14, <3>1
    <3>2. CASE j \notin 1 .. n
      <4>1. j - n \in 1 .. m /\ n + (j - n) = j
        BY <2>4, <2>11, <3>2
      <4>2. Fits(n + (j - n))
        BY <2>15, <4>1
      <4> QED BY <4>1, <4>2
    <3> QED BY <3>1, <3>2
  <2>17. OrderInv'
    BY <2>12, <2>13, <2>16 DEF OrderInv
  <2>18. found = <<>> /\ DOMAIN found = {}
    <3>1. found = <<>>
      BY <1>2, Zenon DEF FoundInv
    <3> QED BY <3>1
  <2>19. SourceInv'
    <3>1. /\ nonceNext = ExecutionsCommand!Unread /\ nodeFailed = {}
          /\ DOMAIN txs = {} /\ DOMAIN traces = {}
      BY <1>2, <2>2 DEF SourceInv, StepInv
    <3>2. StepInv'
      BY <1>2, <3>1 DEF StepInv
    <3>3. Kept'
      BY <1>2, <3>1 DEF Kept, Failed
    <3> QED BY <1>2, <2>18, <3>2, <3>3 DEF SourceInv
  <2> QED BY <2>17, <2>19
<1> QED BY <1>5, <1>6

\* What a step that tries a source leaves: what is kept, and which of it failed.
Stays ==
  /\ UNCHANGED <<isL2, chain, nonce, executions, nonceNext>>
  /\ DOMAIN txs \subseteq DOMAIN txs' /\ DOMAIN traces \subseteq DOMAIN traces'
  /\ \A t \in DOMAIN txs : Failed("calldata", t)' <=> Failed("calldata", t)
  /\ \A t \in DOMAIN traces : Failed("trace", t)' <=> Failed("trace", t)

\* A source that has an execution, and one that was passed by, stay so.
LEMMA TakenStays ==
  ASSUME Stays, NEW j
  PROVE  /\ Direct(j)' = Direct(j)
         /\ NotInCalldata(j) => NotInCalldata(j)'
         /\ \A src : MayTake(j, src) => MayTake(j, src)'
<1>1. /\ OnchainTx(j)' = OnchainTx(j) /\ Direct(j)' = Direct(j)
      /\ isL2' = isL2 /\ nonceNext' = nonceNext /\ nonce' = nonce
  BY DEF Stays, OnchainTx, Direct
<1>2. NotInCalldata(j) => NotInCalldata(j)'
  BY <1>1 DEF Stays, NotInCalldata
<1>3. NotInTrace(j) => NotInTrace(j)'
  BY <1>1 DEF Stays, NotInTrace
<1>4. /\ OnchainTx(j) \in DOMAIN txs /\ ~Failed("calldata", OnchainTx(j))
         => OnchainTx(j)' \in DOMAIN txs' /\ ~Failed("calldata", OnchainTx(j))'
      /\ OnchainTx(j) \in DOMAIN traces /\ ~Failed("trace", OnchainTx(j))
         => OnchainTx(j)' \in DOMAIN traces' /\ ~Failed("trace", OnchainTx(j))'
  BY <1>1 DEF Stays
<1>5. ASSUME NEW src, MayTake(j, src) PROVE MayTake(j, src)'
  BY <1>1, <1>2, <1>3, <1>4, <1>5 DEF MayTake
<1> QED BY <1>1, <1>2, <1>5

\* An execution is decoded from a source that it can be taken from.
LEMMA DecodedFirst ==
  ASSUME FoundInv, OrderInv, SourceInv, Stays, Kept',
         source \in {"event", "nonce", "calldata", "trace", "service"},
         NEW d, d = decoding, NEW src, NEW tx, ExecutionsCommand!Decoded(src, tx),
         MayTake(d, src)'
  PROVE  SourceInv'
<1> DEFINE new == [source |-> src, transaction |-> tx]
<1>1. /\ found' = Append(found, new) /\ decoding' = decoding + 1
      /\ source' = IF decoding = Len(executions) THEN "done" ELSE "event"
  BY DEF ExecutionsCommand!Decoded
<1>2. new.source = src
  OBVIOUS
<1> HIDE DEF new
<1>3. /\ d \in Nat \ {0} /\ OfLength(found, d - 1)
      /\ d \in 1 .. Len(executions) /\ Len(executions) \in Nat
  BY DEF FoundInv, SourceInv, StepInv, OrderInv, OfLength
<1>4. (d - 1) + 1 = d /\ (source' = "event" => decoding' \in 1 .. Len(executions))
  BY <1>1, <1>3
<1>5. /\ OfLength(found', d) /\ DOMAIN found' = 1 .. d /\ DOMAIN found = 1 .. d - 1
      /\ found'[d] = new
      /\ \A j \in 1 .. d - 1 : found'[j] = found[j]
  <2>1. found' = Append(found, new)
    BY <1>1
  <2> QED BY <1>3, <1>4, <2>1, Appended
<1>6. ASSUME NEW j \in 1 .. d, NEW o, o = found'[j].source PROVE MayTake(j, o)'
  <2>1. CASE j = d
    BY <1>2, <1>5, <1>6, <2>1
  <2>2. CASE j # d
    <3>1. j \in 1 .. d - 1
      BY <1>3, <2>2
    <3>2. o = found[j].source
      BY <1>5, <1>6, <3>1
    <3>3. MayTake(j, o)
      BY <1>5, <3>1, <3>2 DEF SourceInv
    <3> QED BY <3>3, TakenStays
  <2> QED BY <2>1, <2>2
<1>7. (\A j \in DOMAIN found : MayTake(j, found[j].source))'
  BY <1>5, <1>6
<1>8. /\ source' \in {"done", "event"}
      /\ nonceNext' \in {ExecutionsCommand!Unread, ExecutionsCommand!Unknown, nonce'}
  BY <1>1 DEF Stays, SourceInv, StepInv
<1>9. UNCHANGED executions
  BY DEF Stays
<1>10. StepInv'
  BY <1>4, <1>8, <1>9 DEF StepInv
<1> QED BY <1>7, <1>10 DEF SourceInv

\* The next source is only tried where an earlier one doesn't give the execution.
LEMMA TriedNext ==
  ASSUME SourceInv, Stays, Kept', ~isL2,
         source \in {"event", "nonce", "calldata", "trace", "service"},
         NEW d, d = decoding,
         NEW src \in {"nonce", "calldata", "trace", "service"}, ExecutionsCommand!TryNext(src),
         src \in {"calldata", "trace"} => nonceNext = nonce,
         src = "trace" => NotInCalldata(d)',
         src = "service" => MayTake(d, "service")'
  PROVE  SourceInv'
<1>1. source' = src /\ decoding' = d /\ found' = found
  BY DEF ExecutionsCommand!TryNext
<1>2. /\ executions' = executions /\ nonce' = nonce /\ nonceNext' = nonceNext /\ isL2' = isL2
  BY DEF Stays
<1>3. /\ decoding \in 1 .. Len(executions)
      /\ nonceNext \in {ExecutionsCommand!Unread, ExecutionsCommand!Unknown, nonce}
  BY DEF SourceInv, StepInv
<1>4. /\ source' = "trace" => NotInCalldata(decoding)'
      /\ source' = "service" => MayTake(decoding, "service")'
  BY <1>1
<1>5. StepInv'
  BY <1>1, <1>2, <1>3, <1>4 DEF StepInv
<1>6. ASSUME NEW j \in DOMAIN found, NEW o, o = found[j].source PROVE MayTake(j, o)'
  <2>1. MayTake(j, o)
    BY <1>6 DEF SourceInv
  <2> QED BY <2>1, TakenStays
<1>7. (\A j \in DOMAIN found : MayTake(j, found[j].source))'
  BY <1>1, <1>6
<1> QED BY <1>5, <1>7 DEF SourceInv

\* The nonce that is worked out is the one that the execution used.
LEMMA NonceUsed ==
  ASSUME OrderInv, nonceNext = nonce, NEW j \in 1 .. Len(executions)
  PROVE  /\ ExecutionsCommand!Nonce(j) = executions[j].hash[2]
         /\ ExecutionsCommand!Nonce(j) \in Nat
<1>1. /\ executions[j].hash[2] = FirstNonce + j - 1 /\ FirstNonce \in Nat
      /\ Len(executions) \in Nat /\ nonce = FirstNonce + Len(executions)
  BY ExecutionsAssumption DEF OrderInv, OfLength
<1> QED BY <1>1 DEF ExecutionsCommand!Nonce

\* An execution's onchain transaction has its fields, in the call that started it.
LEMMA CallOfExecution ==
  ASSUME ShapesInv, OrderInv, NEW j \in 1 .. Len(executions)
  PROVE  LET t == chain[executions[j].tx]
             made == ExecutionsCommand!CallsTo(t.tx)
         IN /\ t.tx \in Shapes
            /\ executions[j].hash = <<executions[j].hash[1], executions[j].hash[2]>>
            /\ executions[j].hash[1] \in ExecutionsCommand!Range(made)
            /\ \E i \in DOMAIN ExecutionsCommand!Hashes(t.tx, t.start) :
                 ExecutionsCommand!Hashes(t.tx, t.start)[i] = executions[j].hash
<1> DEFINE t == chain[executions[j].tx]
           S == ExecutionsCommand!Started(t.tx)
           H == ExecutionsCommand!Hashes(t.tx, t.start)
<1>1. t.tx \in Shapes /\ LoggedBy(t, executions[j].hash)
  BY DEF ShapesInv, OrderInv
<1>2. PICK i \in DOMAIN H : H[i] = executions[j].hash
  BY <1>1 DEF LoggedBy
<1>3. i \in DOMAIN S /\ H[i] = <<S[i].fields, t.start + i - 1>>
  <2>1. H = [k \in DOMAIN S |-> <<S[k].fields, t.start + k - 1>>]
    BY Zenon DEF ExecutionsCommand!Hashes
  <2> HIDE DEF H, S, t
  <2> QED BY <2>1
<1>4. PICK f, n : f = S[i].fields /\ H[i] = <<f, n>>
  BY <1>3
<1> HIDE DEF H, S
<1>5. executions[j].hash = <<f, n>> /\ executions[j].hash[1] = f /\ executions[j].hash[2] = n
  BY <1>2, <1>4
<1>6. f \in ExecutionsCommand!Range(ExecutionsCommand!CallsTo(t.tx))
  <2>1. ExecutionsCommand!CallsTo(t.tx) = [k \in DOMAIN S |-> S[k].fields]
    BY DEF ExecutionsCommand!CallsTo, S
  <2> DEFINE made == ExecutionsCommand!CallsTo(t.tx)
  <2>2. i \in DOMAIN made /\ made[i] = f
    BY <1>3, <1>4, <2>1
  <2> HIDE DEF made
  <2>3. f \in ExecutionsCommand!Range(made)
    BY <2>2 DEF ExecutionsCommand!Range
  <2> QED BY <2>3 DEF made
<1> QED BY <1>1, <1>2, <1>5, <1>6 DEF H

\* The calls that have the hash of the execution are those with its fields.
LEMMA CandidatesOf ==
  ASSUME ShapesInv, OrderInv, nonceNext = nonce, decoding \in 1 .. Len(executions), NEW inputs
  PROVE  ExecutionsCommand!Candidates(inputs) # {}
           <=> executions[decoding].hash[1] \in ExecutionsCommand!Range(inputs)
<1> DEFINE hash == executions[decoding].hash
<1>1. hash = <<hash[1], hash[2]>> /\ ExecutionsCommand!Nonce(decoding) = hash[2]
  BY NonceUsed, CallOfExecution
<1>2. ExecutionsCommand!Candidates(inputs) =
        {f \in ExecutionsCommand!Range(inputs) : <<f, ExecutionsCommand!Nonce(decoding)>> = hash}
  BY DEF ExecutionsCommand!Candidates, ExecutionsCommand!Matches, ExecutionsCommand!E
<1> HIDE DEF hash
<1>3. \A f : <<f, hash[2]>> = hash <=> f = hash[1]
  BY <1>1
<1> QED BY <1>1, <1>2, <1>3 DEF hash

\* What the node sent of an onchain transaction is kept, or that it failed to.
LEMMA CalldataFetched ==
  ASSUME Kept, source = "calldata", UNCHANGED <<isL2, chain, nonce, executions, nonceNext, traces>>,
         NEW e, e = executions[decoding].tx, ExecutionsCommand!Fetch(txs, chain[e].tx.direct)
  PROVE  Stays /\ Kept' /\ e \in DOMAIN txs'
<1> DEFINE has == chain[e].tx.direct
<1>1. CASE e \in DOMAIN txs /\ UNCHANGED <<txs, nodeFailed>>
  BY <1>1 DEF Stays, Kept, Failed
<1>2. CASE /\ e \notin DOMAIN txs
           /\ \E fails \in BOOLEAN :
                /\ txs' = [t \in DOMAIN txs \cup {e} |->
                             IF t # e THEN txs[t] ELSE IF fails THEN <<>> ELSE has]
                /\ nodeFailed' = nodeFailed \cup (IF fails THEN {<<source, e>>} ELSE {})
  <2>1. PICK fails \in BOOLEAN :
          /\ txs' = [t \in DOMAIN txs \cup {e} |->
                       IF t # e THEN txs[t] ELSE IF fails THEN <<>> ELSE has]
          /\ nodeFailed' = nodeFailed \cup (IF fails THEN {<<"calldata", e>>} ELSE {})
    BY <1>2
  <2> HIDE DEF has
  <2>2. /\ DOMAIN txs' = DOMAIN txs \cup {e}
        /\ \A t \in DOMAIN txs : txs'[t] = txs[t]
        /\ txs'[e] = IF fails THEN <<>> ELSE has
    BY <1>2, <2>1
  <2>3. ~Failed("calldata", e)
    BY <1>2 DEF Kept
  <2>4. \A t : Failed("trace", t)' <=> Failed("trace", t)
    BY <2>1 DEF Failed
  <2>5. \A t : t # e => (Failed("calldata", t)' <=> Failed("calldata", t))
    BY <2>1 DEF Failed
  <2>6. Failed("calldata", e)' <=> fails
    BY <2>1, <2>3 DEF Failed
  <2>7. Stays
    BY <1>2, <2>2, <2>4, <2>5 DEF Stays
  <2>8. Kept'
    BY <1>2, <2>2, <2>4, <2>5, <2>6 DEF Kept, has
  <2> QED BY <2>2, <2>7, <2>8
<1> QED BY <1>1, <1>2 DEF ExecutionsCommand!Fetch, ExecutionsCommand!E

\* So is what it sent of a trace.
LEMMA TraceFetched ==
  ASSUME Kept, source = "trace", UNCHANGED <<isL2, chain, nonce, executions, nonceNext, txs>>,
         NEW e, e = executions[decoding].tx,
         ExecutionsCommand!Fetch(traces, ExecutionsCommand!CallsTo(chain[e].tx))
  PROVE  Stays /\ Kept' /\ e \in DOMAIN traces'
<1> DEFINE has == ExecutionsCommand!CallsTo(chain[e].tx)
<1>1. CASE e \in DOMAIN traces /\ UNCHANGED <<traces, nodeFailed>>
  BY <1>1 DEF Stays, Kept, Failed
<1>2. CASE /\ e \notin DOMAIN traces
           /\ \E fails \in BOOLEAN :
                /\ traces' = [t \in DOMAIN traces \cup {e} |->
                                IF t # e THEN traces[t] ELSE IF fails THEN <<>> ELSE has]
                /\ nodeFailed' = nodeFailed \cup (IF fails THEN {<<source, e>>} ELSE {})
  <2>1. PICK fails \in BOOLEAN :
          /\ traces' = [t \in DOMAIN traces \cup {e} |->
                          IF t # e THEN traces[t] ELSE IF fails THEN <<>> ELSE has]
          /\ nodeFailed' = nodeFailed \cup (IF fails THEN {<<"trace", e>>} ELSE {})
    BY <1>2
  <2> HIDE DEF has
  <2>2. /\ DOMAIN traces' = DOMAIN traces \cup {e}
        /\ \A t \in DOMAIN traces : traces'[t] = traces[t]
        /\ traces'[e] = IF fails THEN <<>> ELSE has
    BY <1>2, <2>1
  <2>3. ~Failed("trace", e)
    BY <1>2 DEF Kept
  <2>4. \A t : Failed("calldata", t)' <=> Failed("calldata", t)
    BY <2>1 DEF Failed
  <2>5. \A t : t # e => (Failed("trace", t)' <=> Failed("trace", t))
    BY <2>1 DEF Failed
  <2>6. Failed("trace", e)' <=> fails
    BY <2>1, <2>3 DEF Failed
  <2>7. Stays
    BY <1>2, <2>2, <2>4, <2>5 DEF Stays
  <2>8. Kept'
    BY <1>2, <2>2, <2>4, <2>5, <2>6 DEF Kept, has
  <2> QED BY <2>2, <2>7, <2>8
<1> QED BY <1>1, <1>2 DEF ExecutionsCommand!Fetch, ExecutionsCommand!E

\* Each source that is tried takes an execution that it has, or passes it on.
LEMMA TakenOrPassed ==
  ASSUME ShapesInv, FoundInv, OrderInv, SourceInv,
         UNCHANGED <<isL2, chain, nonce, executions>>,
         \/ ExecutionsCommand!FromEvent \/ ExecutionsCommand!FromCalldata
         \/ ExecutionsCommand!FromTrace \/ ExecutionsCommand!FromService
  PROVE  SourceInv'
<1> DEFINE t == chain[executions[decoding].tx].tx
           hash == executions[decoding].hash
           H == ExecutionsCommand!Hashes(t, chain[executions[decoding].tx].start)
           made == ExecutionsCommand!CallsTo(t)
<1>1. /\ decoding \in 1 .. Len(executions)
      /\ source \in {"event", "nonce", "calldata", "trace", "service"}
  BY DEF SourceInv, StepInv, ExecutionsCommand!FromEvent, ExecutionsCommand!FromCalldata,
         ExecutionsCommand!FromTrace, ExecutionsCommand!FromService
<1>2. /\ t \in Shapes /\ hash[1] \in ExecutionsCommand!Range(made)
      /\ \E i \in DOMAIN H : H[i] = hash
  BY <1>1, CallOfExecution
<1>3. hash[1] \in ExecutionsCommand!Range(t.direct) <=> Direct(decoding)
  <2>1. t.direct \in {<<>>} \cup {<<f>> : f \in Fields}
    BY <1>2, ExecutionsAssumption DEF ExecutionsCommand!IsShape
  <2>2. ExecutionsCommand!Range(t.direct) = {t.direct[i] : i \in DOMAIN t.direct}
    BY DEF ExecutionsCommand!Range
  <2>3. Direct(decoding) <=> t.direct = <<hash[1]>>
    BY DEF Direct, OnchainTx
  <2> HIDE DEF hash, t
  <2>4. CASE t.direct = <<>>
    BY <2>2, <2>3, <2>4
  <2>5. CASE \E f \in Fields : t.direct = <<f>>
    <3>1. PICK f \in Fields : t.direct = <<f>>
      BY <2>5
    <3>2. ExecutionsCommand!Range(t.direct) = {f}
      BY <2>2, <3>1
    <3> QED BY <2>3, <3>1, <3>2
  <2> QED BY <2>1, <2>4, <2>5
<1>4. PICK d, e : d = decoding /\ e = executions[decoding].tx
  OBVIOUS
<1>5. /\ OnchainTx(d) = e /\ OnchainTx(d)' = e /\ Direct(d)' = Direct(d)
      /\ Direct(d) = Direct(decoding)
  BY <1>4 DEF OnchainTx, Direct
<1>6. StepInv /\ Kept
  BY DEF SourceInv
<1>7. \A f : f \notin ExecutionsCommand!Range(<<>>)
  BY DEF ExecutionsCommand!Range
<1>8. CASE ExecutionsCommand!FromEvent
  <2>1. /\ source = "event"
        /\ IF isL2 /\ (\E i \in DOMAIN H : H[i] = hash)
           THEN ExecutionsCommand!Decoded("event", hash)
           ELSE ExecutionsCommand!TryNext("nonce")
        /\ UNCHANGED <<nonceNext, txs, traces, nodeFailed>>
    <3>1. (\E j \in DOMAIN ExecutionsCommand!Events(executions[decoding].tx) :
             ExecutionsCommand!Matches(ExecutionsCommand!Events(executions[decoding].tx)[j], hash))
          <=> isL2 /\ (\E i \in DOMAIN H : H[i] = hash)
      BY DEF ExecutionsCommand!Events, ExecutionsCommand!Matches
    <3> QED BY <1>8, <3>1 DEF ExecutionsCommand!FromEvent, ExecutionsCommand!E
  <2>2. Stays
    BY <2>1 DEF Stays, Failed
  <2>3. Kept'
    BY <1>6, <2>1 DEF Kept, Failed
  <2>4. CASE isL2
    <3>1. PICK h : ExecutionsCommand!Decoded("event", h)
      BY <1>2, <2>1, <2>4
    <3>2. MayTake(d, "event")'
      BY <2>4 DEF MayTake
    <3> QED BY <1>1, <1>4, <2>2, <2>3, <3>1, <3>2, DecodedFirst
  <2>5. CASE ~isL2
    <3>1. ExecutionsCommand!TryNext("nonce")
      BY <2>1, <2>5
    <3> QED BY <1>1, <1>4, <2>2, <2>3, <2>5, <3>1, TriedNext
  <2> QED BY <2>4, <2>5
<1>9. CASE ExecutionsCommand!FromCalldata
  <2>1. /\ source = "calldata" /\ UNCHANGED <<nonceNext, traces>> /\ nonceNext = nonce /\ ~isL2
        /\ nonceNext' = nonce' /\ ~isL2'
    BY <1>6, <1>9 DEF ExecutionsCommand!FromCalldata, StepInv
  <2>2. ExecutionsCommand!Fetch(txs, chain[e].tx.direct)
    BY <1>4, <1>9 DEF ExecutionsCommand!FromCalldata, ExecutionsCommand!E
  <2>3. Stays /\ Kept' /\ e \in DOMAIN txs'
    BY <1>4, <1>6, <2>1, <2>2, CalldataFetched
  <2>4. PICK inputs : inputs = txs'[e]
    OBVIOUS
  <2>5. inputs = IF Failed("calldata", e)' THEN <<>> ELSE t.direct
    BY <1>4, <2>3, <2>4 DEF Kept
  <2>6. ExecutionsCommand!Candidates(inputs) # {} <=> hash[1] \in ExecutionsCommand!Range(inputs)
    BY <1>1, <2>1, CandidatesOf
  <2>7. hash[1] \in ExecutionsCommand!Range(inputs) <=> Direct(d) /\ ~Failed("calldata", e)'
    <3>1. CASE Failed("calldata", e)'
      BY <1>7, <2>5, <3>1
    <3>2. CASE ~Failed("calldata", e)'
      BY <1>3, <1>5, <2>5, <3>2
    <3> QED BY <3>1, <3>2
  <2>8. CASE ExecutionsCommand!Candidates(inputs) # {}
    <3>1. PICK tx : ExecutionsCommand!Decoded("calldata", tx)
      BY <1>4, <1>9, <2>4, <2>8 DEF ExecutionsCommand!FromCalldata, ExecutionsCommand!E
    <3>2. Direct(d)' /\ ~Failed("calldata", e)'
      BY <1>5, <2>6, <2>7, <2>8
    <3>3. MayTake(d, "calldata")'
      BY <1>5, <2>1, <2>3, <3>2 DEF MayTake
    <3> QED BY <1>1, <1>4, <2>3, <3>1, <3>3, DecodedFirst
  <2>9. CASE ~(ExecutionsCommand!Candidates(inputs) # {})
    <3>1. ExecutionsCommand!TryNext("trace")
      BY <1>4, <1>9, <2>4, <2>9 DEF ExecutionsCommand!FromCalldata, ExecutionsCommand!E
    <3>2. Direct(d)' => Failed("calldata", e)'
      BY <1>5, <2>6, <2>7, <2>9
    <3>3. NotInCalldata(d)'
      BY <1>5, <2>3, <3>2 DEF NotInCalldata
    <3> QED BY <1>1, <1>4, <2>1, <2>3, <3>1, <3>3, TriedNext
  <2> QED BY <2>8, <2>9
<1>10. CASE ExecutionsCommand!FromTrace
  <2>1. /\ source = "trace" /\ UNCHANGED <<nonceNext, txs>> /\ nonceNext = nonce /\ ~isL2
        /\ nonceNext' = nonce' /\ ~isL2' /\ NotInCalldata(decoding)
    BY <1>6, <1>10 DEF ExecutionsCommand!FromTrace, StepInv
  <2>2. ExecutionsCommand!Fetch(traces, ExecutionsCommand!CallsTo(chain[e].tx))
    BY <1>4, <1>10 DEF ExecutionsCommand!FromTrace, ExecutionsCommand!E
  <2>3. Stays /\ Kept' /\ e \in DOMAIN traces'
    BY <1>4, <1>6, <2>1, <2>2, TraceFetched
  <2>4. NotInCalldata(d)'
    BY <1>4, <2>1, <2>3, TakenStays
  <2>5. PICK inputs : inputs = traces'[e]
    OBVIOUS
  <2>6. inputs = IF Failed("trace", e)' THEN <<>> ELSE made
    <3>1. inputs = IF Failed("trace", e)' THEN <<>> ELSE ExecutionsCommand!CallsTo(chain[e].tx)'
      BY <2>3, <2>5 DEF Kept
    <3>2. ExecutionsCommand!CallsTo(chain[e].tx)' = made
      BY <1>4 DEF ExecutionsCommand!CallsTo, ExecutionsCommand!Started
    <3> QED BY <3>1, <3>2
  <2>7. ExecutionsCommand!Candidates(inputs) # {} <=> hash[1] \in ExecutionsCommand!Range(inputs)
    BY <1>1, <2>1, CandidatesOf
  <2>8. hash[1] \in ExecutionsCommand!Range(inputs) <=> ~Failed("trace", e)'
    BY <1>2, <1>7, <2>6
  <2>9. CASE ExecutionsCommand!Candidates(inputs) # {}
    <3>1. PICK tx : ExecutionsCommand!Decoded("trace", tx)
      BY <1>4, <1>10, <2>5, <2>9 DEF ExecutionsCommand!FromTrace, ExecutionsCommand!E
    <3>2. ~Failed("trace", e)'
      BY <2>7, <2>8, <2>9
    <3>3. MayTake(d, "trace")'
      BY <1>5, <2>1, <2>3, <2>4, <3>2 DEF MayTake
    <3> QED BY <1>1, <1>4, <2>3, <3>1, <3>3, DecodedFirst
  <2>10. CASE ~(ExecutionsCommand!Candidates(inputs) # {})
    <3>1. ExecutionsCommand!TryNext("service")
      BY <1>4, <1>10, <2>5, <2>10 DEF ExecutionsCommand!FromTrace, ExecutionsCommand!E
    <3>2. NotInTrace(d)'
      BY <1>5, <2>3, <2>7, <2>8, <2>10 DEF NotInTrace
    <3>3. MayTake(d, "service")'
      BY <2>1, <2>4, <3>2 DEF MayTake
    <3> QED BY <1>1, <1>4, <2>1, <2>3, <3>1, <3>3, TriedNext
  <2> QED BY <2>9, <2>10
<1>11. CASE ExecutionsCommand!FromService
  <2>1. /\ source = "service" /\ UNCHANGED <<nonceNext, txs, traces, nodeFailed>> /\ ~isL2
        /\ MayTake(decoding, "service")
    BY <1>6, <1>11 DEF ExecutionsCommand!FromService, StepInv
  <2>2. Stays
    BY <2>1 DEF Stays, Failed
  <2>3. Kept'
    BY <1>6, <2>1 DEF Kept, Failed
  <2>4. PICK src, tx : (src = "service" \/ src = "") /\ ExecutionsCommand!Decoded(src, tx)
    BY <1>11, Zenon DEF ExecutionsCommand!FromService
  <2>5. MayTake(d, src)
    BY <1>4, <2>1, <2>4 DEF MayTake
  <2>6. MayTake(d, src)'
    BY <2>2, <2>5, TakenStays
  <2> QED BY <1>1, <1>4, <2>2, <2>3, <2>4, <2>6, DecodedFirst
<1> QED BY <1>8, <1>9, <1>10, <1>11

\* Every step of executions keeps what TakenFromFirst rests on.
LEMMA SourcesKept ==
  ASSUME ShapesInv, FoundInv, ExecutionsCommand!Plain => OrderInv /\ SourceInv,
         ExecutionsCommand!Next \/ UNCHANGED executionsVars
  PROVE  ShapesInv' /\ (ExecutionsCommand!Plain' => OrderInv' /\ SourceInv')
<1>1. CASE ExecutionsCommand!Execute
  BY <1>1, ExecuteKeeps
<1>2. CASE UNCHANGED <<isL2, chain, nonce, executions>> /\ ~ExecutionsCommand!Execute
  <2>1. /\ ShapesInv' /\ (ExecutionsCommand!Plain' <=> ExecutionsCommand!Plain)
        /\ OrderInv => OrderInv'
    BY <1>2 DEF ShapesInv, OrderInv, ExecutionsCommand!Plain
  <2> SUFFICES ASSUME OrderInv, SourceInv PROVE SourceInv'
    BY <2>1
  <2>2. /\ source = "chain" => found = <<>> /\ nonce \in Nat
        /\ ExecutionsCommand!Unread # ExecutionsCommand!Unknown
        /\ nonce \in Nat /\ ExecutionsCommand!Unread \notin Nat
    <3>1. nonce \in Nat
      BY ExecutionsAssumption DEF OrderInv, OfLength
    <3>2. source = "chain" => found = <<>>
      BY DEF FoundInv
    <3> QED BY <3>1, <3>2 DEF ExecutionsCommand!Unread, ExecutionsCommand!Unknown
  <2>3. CASE ExecutionsCommand!Find
    <3>1. /\ source = "chain" /\ source' \in {"done", "event", "error"}
          /\ source' = "event" => executions # <<>>
          /\ UNCHANGED <<decoding, nonceNext, txs, traces, found, nodeFailed>>
      BY <2>3 DEF ExecutionsCommand!Find
    <3>2. decoding = 1 /\ (executions # <<>> => 1 \in 1 .. Len(executions))
      <4>1. decoding = 1
        <5>1. found = <<>>
          BY <3>1, Zenon DEF FoundInv
        <5>2. decoding \in Nat \ {0} /\ DOMAIN found = 1 .. decoding - 1
          BY DEF FoundInv, OfLength
        <5>3. DOMAIN found = {}
          BY <5>1
        <5>4. 1 .. decoding - 1 = {}
          BY <5>2, <5>3, Zenon
        <5> QED BY <5>2, <5>4
      <4>2. PICK n : n = Len(executions) /\ n \in Nat /\ OfLength(executions, n)
        BY DEF OrderInv, OfLength
      <4>3. n = 0 => executions = <<>>
        BY <4>2 DEF OfLength
      <4> QED BY <4>1, <4>2, <4>3
    <3>3. StepInv'
      BY <1>2, <3>1, <3>2 DEF SourceInv, StepInv
    <3>4. Kept'
      BY <1>2, <3>1 DEF SourceInv, Kept, Failed
    <3>5. found' = <<>> /\ DOMAIN found' = {}
      <4>1. found' = <<>>
        BY <2>2, <3>1
      <4> QED BY <4>1
    <3> QED BY <3>3, <3>4, <3>5 DEF SourceInv
  <2>4. CASE ExecutionsCommand!ReadNonce
    <3>1. /\ source = "nonce" /\ UNCHANGED <<decoding, source, txs, traces, found, nodeFailed>>
          /\ nonceNext = ExecutionsCommand!Unread
          /\ nonceNext' \in {nonce, ExecutionsCommand!Unknown}
      BY <2>4 DEF ExecutionsCommand!ReadNonce, ExecutionsCommand!NonceUnread
    <3>2. ~isL2 /\ StepInv'
      BY <1>2, <3>1 DEF SourceInv, StepInv
    <3>3. Kept'
      BY <1>2, <3>1 DEF SourceInv, Kept, Failed
    <3>4. \A j \in DOMAIN found : FALSE
      <4> SUFFICES ASSUME NEW j \in DOMAIN found PROVE FALSE
        OBVIOUS
      <4>1. MayTake(j, found[j].source)
        BY DEF SourceInv
      <4> QED BY <2>2, <3>1, <3>2, <4>1 DEF MayTake
    <3> QED BY <3>1, <3>2, <3>3, <3>4 DEF SourceInv
  <2>5. CASE ExecutionsCommand!ChooseSource
    <3> DEFINE src == IF nonceNext # ExecutionsCommand!Unknown /\ ExecutionsCommand!Nonce(decoding) >= 0
                      THEN "calldata" ELSE "service"
    <3>1. /\ source = "nonce" /\ nonceNext # ExecutionsCommand!Unread
          /\ ExecutionsCommand!TryNext(src)
          /\ UNCHANGED <<nonceNext, txs, traces, nodeFailed>>
      BY <2>5 DEF ExecutionsCommand!ChooseSource, ExecutionsCommand!NonceUnread
    <3>2. decoding \in 1 .. Len(executions) /\ ~isL2
      BY <3>1 DEF SourceInv, StepInv
    <3>3. Stays
      BY <1>2, <3>1 DEF Stays, Failed
    <3>4. Kept'
      BY <1>2, <3>1 DEF SourceInv, Kept, Failed
    <3>5. PICK d : d = decoding
      OBVIOUS
    <3>6. CASE nonceNext = ExecutionsCommand!Unknown
      <4>1. ExecutionsCommand!TryNext("service") /\ nonceNext' = ExecutionsCommand!Unknown
        BY <3>1, <3>6
      <4>2. MayTake(d, "service")'
        BY <1>2, <3>2, <4>1 DEF MayTake
      <4> QED BY <3>1, <3>2, <3>3, <3>4, <3>5, <4>1, <4>2, TriedNext
    <3>7. CASE nonceNext # ExecutionsCommand!Unknown
      <4>1. nonceNext = nonce
        BY <3>1, <3>7 DEF SourceInv, StepInv
      <4>2. ExecutionsCommand!Nonce(decoding) \in Nat
        BY <3>2, <4>1, NonceUsed
      <4>3. ExecutionsCommand!TryNext("calldata")
        BY <3>1, <3>7, <4>2
      <4> QED BY <3>1, <3>2, <3>3, <3>4, <3>5, <4>1, <4>3, TriedNext
    <3> QED BY <3>6, <3>7
  <2>6. CASE UNCHANGED executionsVars
    <3>1. UNCHANGED <<isL2, chain, nonce, executions, decoding, source, nonceNext, txs, traces, found, nodeFailed>>
      BY <2>6 DEF executionsVars
    <3>2. StepInv'
      BY <3>1 DEF SourceInv, StepInv, MayTake, NotInCalldata, NotInTrace, Direct, OnchainTx, Failed
    <3>3. Kept'
      BY <3>1 DEF SourceInv, Kept, Failed
    <3>4. (\A j \in DOMAIN found : MayTake(j, found[j].source))'
      BY <3>1 DEF SourceInv, MayTake, NotInCalldata, NotInTrace, Direct, OnchainTx, Failed
    <3> QED BY <3>2, <3>3, <3>4 DEF SourceInv
  <2>7. CASE \/ ExecutionsCommand!FromEvent \/ ExecutionsCommand!FromCalldata
             \/ ExecutionsCommand!FromTrace \/ ExecutionsCommand!FromService
    BY <1>2, <2>7, TakenOrPassed
  <2> QED BY <1>2, <2>3, <2>4, <2>5, <2>6, <2>7 DEF ExecutionsCommand!Next
<1>3. ExecutionsCommand!Execute \/ UNCHANGED <<isL2, chain, nonce, executions>>
  BY DEF ExecutionsCommand!Next, executionsVars, ExecutionsCommand!Find, ExecutionsCommand!FromEvent,
         ExecutionsCommand!ReadNonce, ExecutionsCommand!ChooseSource, ExecutionsCommand!FromCalldata,
         ExecutionsCommand!FromTrace, ExecutionsCommand!FromService
<1> QED BY <1>1, <1>2, <1>3

\* A plain execution is decoded from the first of its event, its onchain
\* transaction's calldata and its trace that can have it and that the node didn't
\* fail to send, whatever else it failed to send: the nonces that are worked out
\* are the ones that were used (decode.go).
THEOREM DecodedFromFirst == Spec => []TakenFromFirst
<1> DEFINE IInv == command = "executions" =>
                     /\ FoundInv /\ ShapesInv
                     /\ ExecutionsCommand!Plain => OrderInv /\ SourceInv
<1>1. Init => IInv
  <2> SUFFICES ASSUME ExecutionsCommand!Init
               PROVE  FoundInv /\ ShapesInv /\ OrderInv /\ SourceInv
    BY DEF Init
  <2>1. /\ chain = <<>> /\ executions = <<>> /\ found = <<>> /\ txs = <<>> /\ traces = <<>>
        /\ nonce = FirstNonce /\ decoding = 1 /\ source = "chain"
        /\ nonceNext = ExecutionsCommand!Unread /\ nodeFailed = {}
    BY DEF ExecutionsCommand!Init
  <2>2. FoundInv
    BY <2>1 DEF FoundInv, OfLength
  <2>3. Len(<<>>) = 0 /\ OfLength(<<>>, 0) /\ DOMAIN <<>> = {}
    BY DEF OfLength
  <2>4. ShapesInv
    BY <2>1, <2>3 DEF ShapesInv
  <2>5. OrderInv
    BY <2>1, <2>3, ExecutionsAssumption DEF OrderInv
  <2>6. SourceInv
    <3>1. DOMAIN txs = {} /\ DOMAIN traces = {} /\ DOMAIN found = {}
      BY <2>1, <2>3
    <3>2. StepInv
      BY <2>1, <3>1 DEF StepInv
    <3>3. Kept
      BY <2>1, <3>1 DEF Kept, Failed
    <3>4. \A j \in DOMAIN found : MayTake(j, found[j].source)
      BY <3>1, Zenon
    <3> QED BY <3>2, <3>3, <3>4 DEF SourceInv
  <2> QED BY <2>2, <2>4, <2>5, <2>6
<1>2. IInv /\ [Next]_vars => IInv'
  BY FoundKept, SourcesKept, OneCommand
<1>3. IInv => TakenFromFirst
  <2> SUFFICES ASSUME OrderInv, SourceInv, NEW j \in DOMAIN found
               PROVE  found[j].source \in ExecutionsCommand!FirstThatAnswers(j)
    BY DEF TakenFromFirst, ExecutionsCommand!TakenFromFirst
  <2>1. PICK src : src = found[j].source /\ MayTake(j, src)
    BY DEF SourceInv
  <2>2. nonce \in Nat /\ nonce # ExecutionsCommand!Unknown
    BY ExecutionsAssumption DEF OrderInv, OfLength, ExecutionsCommand!Unknown
  <2>3. src \in ExecutionsCommand!FirstThatAnswers(j)
    BY <2>1, <2>2 DEF MayTake, NotInCalldata, NotInTrace, Direct, OnchainTx, Failed,
                      ExecutionsCommand!FirstThatAnswers
  <2> QED BY <2>1, <2>3
<1> QED BY <1>1, <1>2, <1>3, PTL DEF Spec

-----------------------------------------------------------------------------
(* transfers                                                                 *)

\* The logs of a chain have places of their own.
Placed(S) ==
  /\ IsFiniteSet(S)
  /\ \A l \in S : l.block \in Nat /\ l.index \in Nat
  /\ \A l, m \in S : l.block = m.block /\ l.index = m.index => l = m

\* a has an earlier place than b.
Precedes(a, b) == TransfersCommand!Earlier(a, b)

\* Places are strictly ordered.
LEMMA PrecedesOrders ==
  ASSUME NEW S, \A a \in S : a.block \in Nat /\ a.index \in Nat
  PROVE  /\ \A a \in S : ~Precedes(a, a)
         /\ \A a, b \in S : Precedes(a, b) => ~Precedes(b, a)
         /\ \A a, b, c \in S : Precedes(a, b) /\ Precedes(b, c) => Precedes(a, c)
         /\ \A a, b \in S : \/ Precedes(a, b) \/ Precedes(b, a)
                            \/ a.block = b.block /\ a.index = b.index
<1>1. \A a, b : Precedes(a, b) <=> a.block < b.block \/ (a.block = b.block /\ a.index < b.index)
  BY DEF Precedes, TransfersCommand!Earlier
<1> QED BY <1>1

\* The transfer that a log shows, by what it means.
Shows(t, l) ==
  /\ t.block = l.block /\ t.index = l.index /\ t.from = l.topics[2]
  /\ t.to = (IF l.topics[1] = "Transfer" THEN l.topics[3] ELSE Safe)
  /\ t.token = (IF l.topics[1] = "Transfer" THEN l.address ELSE "")

\* A list of what logs L show, of each once and in order.
ListsOnce(s, L) ==
  /\ OfLength(s, Cardinality(L))
  /\ \A k \in DOMAIN s : \E l \in L : Shows(s[k], l)
  /\ \A l \in L : \E k \in DOMAIN s : Shows(s[k], l)
  /\ \A j, k \in DOMAIN s : j < k => Precedes(s[j], s[k])

\* What logs show is as early as they are.
LEMMA ShownAsEarly ==
  ASSUME NEW s, NEW t, NEW l, NEW m, Shows(s, l), Shows(t, m)
  PROVE  Precedes(s, t) <=> Precedes(l, m)
  BY DEF Shows, Precedes, TransfersCommand!Earlier

\* In the order of their places.
InPlaces(C, L) ==
  TransfersCommand!InOrder({ab \in C \X C : TransfersCommand!Earlier(ab[1], ab[2])}, L)

\* Logs that are put in order are each there once, after those before them.
LEMMA LogsPlaced ==
  ASSUME NEW C, Placed(C), NEW L \in SUBSET C, NEW order, order = InPlaces(C, L)
  PROVE  /\ Cardinality(L) \in Nat /\ DOMAIN order = 1 .. Cardinality(L)
         /\ \A k \in DOMAIN order : order[k] \in L
         /\ \A l \in L : \E k \in DOMAIN order : order[k] = l
         /\ \A j, k \in DOMAIN order : j < k => Precedes(order[j], order[k])
<1> DEFINE R == {ab \in C \X C : TransfersCommand!Earlier(ab[1], ab[2])}
           n == Cardinality(L)
<1>1. order = InOrder(R, L)
  BY DEF InPlaces, TransfersCommand!InOrder, InOrder, TransfersCommand!Before, Before,
         TransfersCommand!Cardinality, Cardinality
<1>2. \A a, b \in L : <<a, b>> \in R <=> Precedes(a, b)
  BY DEF Precedes
<1>3. IsFiniteSet(L) /\ n \in Nat
  BY FS_Subset, FS_CardinalityType DEF Placed
<1>4. Orders(R, L)
  <2>1. /\ \A a \in L : ~Precedes(a, a)
        /\ \A a, b, c \in L : Precedes(a, b) /\ Precedes(b, c) => Precedes(a, c)
        /\ \A a, b \in L : a = b \/ Precedes(a, b) \/ Precedes(b, a)
    BY PrecedesOrders DEF Placed
  <2> HIDE DEF R
  <2> QED BY <1>2, <2>1 DEF Orders
<1> HIDE DEF R
<1>5. /\ order \in Seq(L) /\ Len(order) = n
      /\ \A x \in L : \E k \in 1 .. n : order[k] = x
      /\ \A j, k \in 1 .. n : j < k => <<order[j], order[k]>> \in R
  BY <1>1, <1>3, <1>4, InOrderSorts
<1>6. DOMAIN order = 1 .. n /\ \A k \in 1 .. n : order[k] \in L
  BY <1>3, <1>5, ElementOfSeq, LenProperties
<1> HIDE DEF n
<1>7. \A j, k \in 1 .. n : j < k => Precedes(order[j], order[k])
  BY <1>2, <1>5, <1>6
<1> QED BY <1>3, <1>5, <1>6, <1>7 DEF n

\* One scan lists what its logs show.
LEMMA ScanLists ==
  ASSUME NEW C, Placed(C), NEW L \in SUBSET C, NEW order, order = InPlaces(C, L),
         NEW s, s = [k \in DOMAIN order |-> s[k]], \A k \in DOMAIN order : Shows(s[k], order[k])
  PROVE  ListsOnce(s, L)
<1>1. /\ Cardinality(L) \in Nat /\ DOMAIN order = 1 .. Cardinality(L)
      /\ \A k \in DOMAIN order : order[k] \in L
      /\ \A l \in L : \E k \in DOMAIN order : order[k] = l
      /\ \A j, k \in DOMAIN order : j < k => Precedes(order[j], order[k])
  BY LogsPlaced
<1>2. OfLength(s, Cardinality(L)) /\ DOMAIN s = DOMAIN order
  BY <1>1 DEF OfLength
<1>3. \A k \in DOMAIN s : \E l \in L : Shows(s[k], l)
  BY <1>1, <1>2
<1>4. \A l \in L : \E k \in DOMAIN s : Shows(s[k], l)
  <2> SUFFICES ASSUME NEW l \in L PROVE \E k \in DOMAIN s : Shows(s[k], l)
    OBVIOUS
  <2>1. PICK k \in DOMAIN order : order[k] = l
    BY <1>1
  <2> QED BY <1>2, <2>1
<1>5. ASSUME NEW j \in DOMAIN s, NEW k \in DOMAIN s, j < k PROVE Precedes(s[j], s[k])
  <2>1. Precedes(order[j], order[k])
    BY <1>1, <1>2, <1>5
  <2> QED BY <1>2, <2>1, ShownAsEarly
<1> QED BY <1>2, <1>3, <1>4, <1>5 DEF ListsOnce

\* Two lists of what different logs show are merged into one.
LEMMA MergedLists ==
  ASSUME NEW C, Placed(C), NEW A \in SUBSET C, NEW B \in SUBSET C, A \cap B = {},
         NEW a, ListsOnce(a, A), NEW b, ListsOnce(b, B)
  PROVE  ListsOnce(TransfersCommand!Merged(a, b), A \cup B)
<1> DEFINE n == Cardinality(A)
           m == Cardinality(B)
           N == n + m
           all == a \o b
           less == {ij \in (DOMAIN all) \X (DOMAIN all) :
                      \/ TransfersCommand!Earlier(all[ij[1]], all[ij[2]])
                      \/ ~TransfersCommand!Earlier(all[ij[2]], all[ij[1]]) /\ ij[1] < ij[2]}
           order == InOrder(less, DOMAIN all)
<1>1. n \in Nat /\ m \in Nat /\ Cardinality(A \cup B) = N
  <2>1. IsFiniteSet(A) /\ IsFiniteSet(B)
    BY FS_Subset DEF Placed
  <2>2. n \in Nat /\ m \in Nat /\ Cardinality(A \cap B) = 0
    BY <2>1, FS_CardinalityType, FS_EmptySet
  <2>3. Cardinality(A \cup B) = n + m - Cardinality(A \cap B)
    BY <2>1, FS_Union
  <2> QED BY <2>2, <2>3
<1>2. /\ OfLength(a, n) /\ OfLength(b, m) /\ DOMAIN a = 1 .. n /\ DOMAIN b = 1 .. m
      /\ Joins(all, a, n, b, m)
  BY Joined, LengthOf DEF ListsOnce
<1>3. /\ DOMAIN all = 1 .. N
      /\ \A i \in 1 .. n : all[i] = a[i]
      /\ \A i \in 1 .. m : all[n + i] = b[i]
  BY <1>2 DEF Joins
<1>4. TransfersCommand!Merged(a, b) = [k \in DOMAIN all |-> all[order[k]]]
  BY DEF TransfersCommand!Merged, TransfersCommand!InOrder, InOrder,
         TransfersCommand!Before, Before, TransfersCommand!Cardinality, Cardinality
<1>5. \A i, j \in DOMAIN all : <<i, j>> \in less <=>
        Precedes(all[i], all[j]) \/ (~Precedes(all[j], all[i]) /\ i < j)
  BY DEF Precedes
<1> HIDE DEF all, less, order, n, m
<1>6. \A i \in 1 .. N : i \in 1 .. n \/ (i - n \in 1 .. m /\ n + (i - n) = i)
  BY <1>1
<1>7. ASSUME NEW i \in 1 .. N
      PROVE  \/ i \in 1 .. n /\ all[i] = a[i] /\ \E l \in A : Shows(all[i], l)
             \/ i - n \in 1 .. m /\ all[i] = b[i - n] /\ \E l \in B : Shows(all[i], l)
  <2>1. CASE i \in 1 .. n
    <3>1. all[i] = a[i] /\ \E l \in A : Shows(a[i], l)
      BY <1>2, <1>3, <2>1 DEF ListsOnce
    <3> QED BY <2>1, <3>1
  <2>2. CASE i - n \in 1 .. m /\ n + (i - n) = i
    <3>1. all[n + (i - n)] = b[i - n] /\ \E l \in B : Shows(b[i - n], l)
      BY <1>2, <1>3, <2>2, Zenon DEF ListsOnce
    <3> QED BY <2>2, <3>1
  <2> QED BY <1>6, <2>1, <2>2
<1>8. \A i \in 1 .. N : \E l \in A \cup B : Shows(all[i], l)
  BY <1>7
<1>9. \A l \in A \cup B : \E i \in 1 .. N : Shows(all[i], l)
  <2> SUFFICES ASSUME NEW l \in A \cup B PROVE \E i \in 1 .. N : Shows(all[i], l)
    OBVIOUS
  <2>1. CASE l \in A
    <3>1. PICK i \in 1 .. n : Shows(a[i], l)
      BY <1>2, <2>1 DEF ListsOnce
    <3>2. i \in 1 .. N
      BY <1>1
    <3> QED BY <1>3, <3>1, <3>2
  <2>2. CASE l \in B
    <3>1. PICK i \in 1 .. m : Shows(b[i], l)
      BY <1>2, <2>2 DEF ListsOnce
    <3>2. n + i \in 1 .. N
      BY <1>1
    <3>3. all[n + i] = b[i]
      BY <1>3
    <3> HIDE DEF N
    <3> QED BY <3>1, <3>2, <3>3
  <2> QED BY <2>1, <2>2
<1>10. \A i \in 1 .. N : all[i].block \in Nat /\ all[i].index \in Nat
  <2> SUFFICES ASSUME NEW i \in 1 .. N PROVE all[i].block \in Nat /\ all[i].index \in Nat
    OBVIOUS
  <2>1. PICK l \in A \cup B : Shows(all[i], l)
    BY <1>8
  <2>2. l.block \in Nat /\ l.index \in Nat
    BY DEF Placed
  <2> QED BY <2>1, <2>2 DEF Shows
<1>11. ASSUME NEW i \in 1 .. N, NEW j \in 1 .. N, i < j
       PROVE  Precedes(all[i], all[j]) \/ Precedes(all[j], all[i])
  <2>1. CASE i \in 1 .. n /\ j \in 1 .. n
    BY <1>2, <1>3, <1>11, <2>1 DEF ListsOnce
  <2>2. CASE i - n \in 1 .. m /\ j - n \in 1 .. m
    <3>1. i - n < j - n /\ all[i] = b[i - n] /\ all[j] = b[j - n]
      BY <1>1, <1>3, <1>6, <1>11, <2>2
    <3>2. Precedes(b[i - n], b[j - n])
      BY <1>2, <2>2, <3>1 DEF ListsOnce
    <3> QED BY <3>1, <3>2
  <2>3. CASE \E l \in A, k \in B : \/ Shows(all[i], l) /\ Shows(all[j], k)
                                   \/ Shows(all[j], l) /\ Shows(all[i], k)
    <3>1. PICK l \in A, k \in B : \/ Shows(all[i], l) /\ Shows(all[j], k)
                                  \/ Shows(all[j], l) /\ Shows(all[i], k)
      BY <2>3
    <3>2. Precedes(l, k) \/ Precedes(k, l)
      <4>1. l # k /\ l \in C /\ k \in C
        OBVIOUS
      <4> QED BY <4>1, PrecedesOrders DEF Placed
    <3> QED BY <3>1, <3>2, ShownAsEarly
  <2> QED BY <1>7, <2>1, <2>2, <2>3
<1>12. \A i, j \in 1 .. N : <<i, j>> \in less <=> Precedes(all[i], all[j])
  <2> SUFFICES ASSUME NEW i \in 1 .. N, NEW j \in 1 .. N
               PROVE  <<i, j>> \in less <=> Precedes(all[i], all[j])
    OBVIOUS
  <2>1. <<i, j>> \in less <=> Precedes(all[i], all[j]) \/ (~Precedes(all[j], all[i]) /\ i < j)
    BY <1>3, <1>5
  <2> QED BY <1>11, <2>1
<1>13. Orders(less, 1 .. N)
  <2> DEFINE S == {all[i] : i \in 1 .. N}
  <2>1. \A s \in S : s.block \in Nat /\ s.index \in Nat
    BY <1>10
  <2>2. \A i \in 1 .. N : all[i] \in S
    OBVIOUS
  <2> HIDE DEF S
  <2>3. /\ \A s \in S : ~Precedes(s, s)
        /\ \A s, t, u \in S : Precedes(s, t) /\ Precedes(t, u) => Precedes(s, u)
    BY <2>1, PrecedesOrders
  <2>4. \A i, j \in 1 .. N : i = j \/ Precedes(all[i], all[j]) \/ Precedes(all[j], all[i])
    <3>1. \A i, j \in 1 .. N : i = j \/ i < j \/ j < i
      BY <1>1
    <3> HIDE DEF N
    <3> QED BY <1>11, <3>1
  <2>5. /\ \A i \in 1 .. N : ~Precedes(all[i], all[i])
        /\ \A i, j, k \in 1 .. N :
             Precedes(all[i], all[j]) /\ Precedes(all[j], all[k]) => Precedes(all[i], all[k])
    BY <2>2, <2>3
  <2> HIDE DEF N
  <2> QED BY <1>12, <2>4, <2>5, Zenon DEF Orders
<1>14. N \in Nat /\ IsFiniteSet(1 .. N) /\ Cardinality(1 .. N) = N
  BY <1>1, FS_Interval
<1> HIDE DEF N
<1>15. /\ order \in Seq(1 .. N) /\ Len(order) = N
       /\ \A x \in 1 .. N : \E k \in 1 .. N : order[k] = x
       /\ \A j, k \in 1 .. N : j < k => <<order[j], order[k]>> \in less
  <2> DEFINE S == 1 .. N
  <2>1. order = InOrder(less, S) /\ IsFiniteSet(S) /\ Orders(less, S) /\ Cardinality(S) = N
    BY <1>3, <1>13, <1>14 DEF order
  <2> HIDE DEF S
  <2>2. /\ order \in Seq(S) /\ Len(order) = N
        /\ \A x \in S : \E k \in 1 .. N : order[k] = x
        /\ \A j, k \in 1 .. N : j < k => <<order[j], order[k]>> \in less
    BY <2>1, InOrderSorts
  <2> QED BY <2>2 DEF S
<1>16. \A k \in 1 .. N : order[k] \in 1 .. N
  BY <1>14, <1>15, ElementOfSeq
<1> DEFINE r == TransfersCommand!Merged(a, b)
<1>17. OfLength(r, N) /\ DOMAIN r = 1 .. N /\ \A k \in 1 .. N : r[k] = all[order[k]]
  BY <1>3, <1>4, <1>14 DEF OfLength
<1> HIDE DEF r
<1>18. \A k \in 1 .. N : \E l \in A \cup B : Shows(r[k], l)
  BY <1>8, <1>16, <1>17
<1>19. \A l \in A \cup B : \E k \in 1 .. N : Shows(r[k], l)
  <2> SUFFICES ASSUME NEW l \in A \cup B PROVE \E k \in 1 .. N : Shows(r[k], l)
    OBVIOUS
  <2>1. PICK i \in 1 .. N : Shows(all[i], l)
    BY <1>9
  <2>2. PICK k \in 1 .. N : order[k] = i
    BY <1>15
  <2> QED BY <1>17, <2>1, <2>2
<1>20. \A j, k \in 1 .. N : j < k => Precedes(r[j], r[k])
  <2> SUFFICES ASSUME NEW j \in 1 .. N, NEW k \in 1 .. N, j < k PROVE Precedes(r[j], r[k])
    OBVIOUS
  <2>1. Precedes(all[order[j]], all[order[k]])
    BY <1>12, <1>15, <1>16
  <2> QED BY <1>17, <2>1
<1>21. ListsOnce(r, A \cup B)
  BY <1>1, <1>17, <1>18, <1>19, <1>20 DEF ListsOnce
<1> QED BY <1>21 DEF r

\* The logs of ERC-20 transfers that are asked for, and those of the native currency.
TokensAsked == {l \in logs : TransfersCommand!Asked(l) /\ l.topics[1] = "Transfer"}

ReceivedAsked == {l \in logs : TransfersCommand!Asked(l) /\ l.topics[1] = "SafeReceived"}

\* The range has the blocks that are asked for.
LEMMA RangeAsked ==
  ASSUME NEW last \in Nat, NEW n \in Nat \ {0}, NEW b \in Nat
  PROVE  b \in TransfersCommand!FirstBlock(last, n) .. last <=> b <= last /\ last - b < n
  BY DEF TransfersCommand!FirstBlock

\* The request, the flags, and the logs are ones that the command may have.
Known ==
  /\ scanned \in ScanRequests /\ flags \in Flags /\ logs \in ScanChains
  /\ ~TransfersCommand!UsageError

\* What a scan yields, of the logs that have an event's number of topics.
LEMMA ScanOf ==
  ASSUME Known, NEW l \in logs, NEW addresses, NEW topics, NEW n, TransfersCommand!HasShape(l, n)
  PROVE  l \in TransfersCommand!ScanLogs(addresses, topics) <=>
           /\ l.block <= scanned.block /\ scanned.block - l.block < flags.blocks
           /\ addresses = {} \/ l.address \in addresses
           /\ n >= Len(topics)
           /\ \A k \in DOMAIN topics : topics[k] = {} \/ l.topics[k] \in topics[k]
<1>1. /\ scanned.block \in Nat /\ flags.blocks \in Nat \ {0} /\ l.block \in Nat
      /\ Len(l.topics) = n
  BY TransfersAssumption DEF Known, TransfersCommand!UsageError, TransfersCommand!HasShape
<1>2. l.block \in TransfersCommand!FirstBlock(scanned.block, flags.blocks) .. scanned.block <=>
        l.block <= scanned.block /\ scanned.block - l.block < flags.blocks
  BY <1>1, RangeAsked
<1> QED BY <1>1, <1>2 DEF TransfersCommand!ScanLogs, TransfersCommand!Every

\* A limit has one address, or none, and then each address passes it.
LEMMA Limits ==
  ASSUME NEW a, NEW b
  PROVE  /\ TransfersCommand!One(a) # {} /\ (b \in TransfersCommand!One(a) <=> b = a)
         /\ TransfersCommand!Limit(a) = {} \/ b \in TransfersCommand!Limit(a) <=> a \in {"", b}
  BY DEF TransfersCommand!Limit, TransfersCommand!One, TransfersCommand!Every

\* The topics that are scanned for select the ERC-20 transfers that are asked for.
LEMMA TokensScanned ==
  ASSUME Known
  PROVE  {l \in TransfersCommand!ScanLogs(TransfersCommand!Every, TransfersCommand!TokenTopics) :
            TransfersCommand!HasShape(l, 3)} = TokensAsked
<1> DEFINE topics == TransfersCommand!TokenTopics
           scan == TransfersCommand!ScanLogs(TransfersCommand!Every, topics)
           Matches(l) == 3 >= Len(topics) /\ \A k \in DOMAIN topics : topics[k] = {} \/ l.topics[k] \in topics[k]
           Wanted(l) == /\ l.topics[1] = "Transfer"
                        /\ l.topics[IF flags.in THEN 3 ELSE 2] = Safe
                        /\ flags.from \in {"", l.topics[2]} /\ flags.to \in {"", l.topics[3]}
           transfer == TransfersCommand!One("Transfer")
           safe == TransfersCommand!One(Safe)
           to == TransfersCommand!One(flags.to)
           from == TransfersCommand!Limit(flags.from)
<1>1. (flags.in => flags.to = "") /\ (~flags.in => flags.from = "")
  BY DEF Known, TransfersCommand!UsageError
<1>2. topics = IF flags.in THEN <<transfer, from, safe>>
               ELSE IF flags.to = "" THEN <<transfer, safe>> ELSE <<transfer, safe, to>>
  <2>1. topics = IF flags.in THEN <<transfer, from, safe>>
                 ELSE <<transfer, safe>> \o (IF flags.to = "" THEN <<>> ELSE <<to>>)
    BY DEF TransfersCommand!TokenTopics
  <2> HIDE DEF transfer, safe, to, from
  <2>2. CASE flags.in
    BY <2>1, <2>2
  <2>3. CASE ~flags.in /\ flags.to = ""
    <3>1. topics = <<transfer, safe>> \o <<>>
      BY <2>1, <2>3
    <3> QED BY <2>3, <3>1, TupleJoined
  <2>4. CASE ~flags.in /\ flags.to # ""
    <3>1. topics = <<transfer, safe>> \o <<to>>
      BY <2>1, <2>4
    <3> QED BY <2>4, <3>1, TupleJoined
  <2> QED BY <2>2, <2>3, <2>4
<1>3. \A b : /\ transfer # {} /\ (b \in transfer <=> b = "Transfer")
             /\ safe # {} /\ (b \in safe <=> b = Safe)
             /\ to # {} /\ (b \in to <=> b = flags.to)
             /\ from = {} \/ b \in from <=> flags.from \in {"", b}
  BY Limits
<1> HIDE DEF topics, transfer, safe, to, from
<1>4. ASSUME NEW l PROVE Matches(l) <=> Wanted(l)
  <2>1. CASE flags.in
    <3>1. DOMAIN topics = {1, 2, 3} /\ Len(topics) = 3
          /\ topics[1] = transfer /\ topics[2] = from /\ topics[3] = safe
      BY <1>2, <2>1, TupleHas
    <3>2. Matches(l) <=> /\ transfer = {} \/ l.topics[1] \in transfer
                         /\ from = {} \/ l.topics[2] \in from
                         /\ safe = {} \/ l.topics[3] \in safe
      BY <3>1
    <3>3. Wanted(l) <=> l.topics[1] = "Transfer" /\ l.topics[3] = Safe /\ flags.from \in {"", l.topics[2]}
      BY <1>1, <2>1
    <3> HIDE DEF Wanted, Matches
    <3> QED BY <1>3, <3>2, <3>3, Zenon
  <2>2. CASE ~flags.in /\ flags.to = ""
    <3>1. DOMAIN topics = {1, 2} /\ Len(topics) = 2 /\ topics[1] = transfer /\ topics[2] = safe
      <4>1. topics = <<transfer, safe>>
        BY <1>2, <2>2
      <4> QED BY <4>1, TupleHas
    <3>2. Matches(l) <=> /\ transfer = {} \/ l.topics[1] \in transfer
                         /\ safe = {} \/ l.topics[2] \in safe
      BY <3>1
    <3>3. Wanted(l) <=> l.topics[1] = "Transfer" /\ l.topics[2] = Safe
      BY <1>1, <2>2
    <3> HIDE DEF Wanted, Matches
    <3> QED BY <1>3, <3>2, <3>3, Zenon
  <2>3. CASE ~flags.in /\ flags.to # ""
    <3>1. DOMAIN topics = {1, 2, 3} /\ Len(topics) = 3
          /\ topics[1] = transfer /\ topics[2] = safe /\ topics[3] = to
      <4>1. topics = <<transfer, safe, to>>
        BY <1>2, <2>3
      <4> QED BY <4>1, TupleHas
    <3>2. Matches(l) <=> /\ transfer = {} \/ l.topics[1] \in transfer
                         /\ safe = {} \/ l.topics[2] \in safe
                         /\ to = {} \/ l.topics[3] \in to
      BY <3>1
    <3>3. Wanted(l) <=> l.topics[1] = "Transfer" /\ l.topics[2] = Safe /\ l.topics[3] = flags.to
      BY <1>1, <2>3
    <3> HIDE DEF Wanted, Matches
    <3> QED BY <1>3, <3>2, <3>3, Zenon
  <2> QED BY <2>1, <2>2, <2>3
<1>5. ASSUME NEW l \in logs, TransfersCommand!HasShape(l, 3)
      PROVE  l \in scan <=>
               l.block <= scanned.block /\ scanned.block - l.block < flags.blocks /\ Matches(l)
  <2>1. PICK none : none = TransfersCommand!Every /\ none = {}
    BY DEF TransfersCommand!Every
  <2>2. l \in TransfersCommand!ScanLogs(none, topics) <=>
          /\ l.block <= scanned.block /\ scanned.block - l.block < flags.blocks
          /\ none = {} \/ l.address \in none
          /\ Matches(l)
    BY <1>5, ScanOf
  <2> HIDE DEF Matches
  <2> QED BY <2>1, <2>2
<1>6. \A l : TransfersCommand!Asked(l) /\ l.topics[1] = "Transfer" <=>
        /\ TransfersCommand!HasShape(l, 3) /\ Wanted(l)
        /\ l.block <= scanned.block /\ scanned.block - l.block < flags.blocks
  BY DEF TransfersCommand!Asked, TransfersCommand!HasShape
<1>7. scan \subseteq logs
  BY DEF TransfersCommand!ScanLogs
<1> HIDE DEF scan, Matches, Wanted
<1> QED BY <1>4, <1>5, <1>6, <1>7 DEF TokensAsked, scan, topics

\* The topics that ReceivedBy scans for.
ReceivedTopics ==
  <<TransfersCommand!One("SafeReceived")>> \o
    (IF flags.from = "" THEN <<>> ELSE <<TransfersCommand!One(flags.from)>>)

\* The Safe's own events select those of the native currency, into the Safe.
LEMMA ReceivedScanned ==
  ASSUME Known, flags.in
  PROVE  {l \in TransfersCommand!ScanLogs(TransfersCommand!One(Safe), ReceivedTopics) :
            TransfersCommand!HasShape(l, 2)} = ReceivedAsked
<1> DEFINE topics == ReceivedTopics
           safe == TransfersCommand!One(Safe)
           scan == TransfersCommand!ScanLogs(safe, topics)
           Matches(l) == /\ safe = {} \/ l.address \in safe
                         /\ 2 >= Len(topics)
                         /\ \A k \in DOMAIN topics : topics[k] = {} \/ l.topics[k] \in topics[k]
           Wanted(l) == /\ l.address = Safe /\ l.topics[1] = "SafeReceived"
                        /\ flags.from \in {"", l.topics[2]}
           event == TransfersCommand!One("SafeReceived")
           from == TransfersCommand!One(flags.from)
<1>1. topics = <<event>> \o (IF flags.from = "" THEN <<>> ELSE <<from>>)
  BY DEF ReceivedTopics
<1>2. \A b : /\ event # {} /\ (b \in event <=> b = "SafeReceived")
             /\ safe # {} /\ (b \in safe <=> b = Safe)
             /\ from # {} /\ (b \in from <=> b = flags.from)
  BY Limits
<1> HIDE DEF topics, event, safe, from
<1>3. ASSUME NEW l PROVE Matches(l) <=> Wanted(l)
  <2>1. CASE flags.from = ""
    <3>1. topics = <<event>>
      BY <1>1, <2>1, TupleJoined
    <3>2. DOMAIN topics = {1} /\ Len(topics) = 1 /\ topics[1] = event
      BY <3>1, TupleHas
    <3>3. Matches(l) <=> /\ safe = {} \/ l.address \in safe
                         /\ event = {} \/ l.topics[1] \in event
      BY <3>2
    <3>4. Wanted(l) <=> l.address = Safe /\ l.topics[1] = "SafeReceived"
      BY <2>1
    <3> HIDE DEF Wanted, Matches
    <3> QED BY <1>2, <3>3, <3>4, Zenon
  <2>2. CASE flags.from # ""
    <3>1. topics = <<event, from>>
      <4>1. topics = <<event>> \o <<from>>
        BY <1>1, <2>2
      <4> QED BY <4>1, TupleJoined
    <3>2. DOMAIN topics = {1, 2} /\ Len(topics) = 2 /\ topics[1] = event /\ topics[2] = from
      BY <3>1, TupleHas
    <3>3. Matches(l) <=> /\ safe = {} \/ l.address \in safe
                         /\ event = {} \/ l.topics[1] \in event
                         /\ from = {} \/ l.topics[2] \in from
      BY <3>2
    <3>4. Wanted(l) <=> l.address = Safe /\ l.topics[1] = "SafeReceived" /\ l.topics[2] = flags.from
      BY <2>2
    <3> HIDE DEF Wanted, Matches
    <3> QED BY <1>2, <3>3, <3>4, Zenon
  <2> QED BY <2>1, <2>2
<1>4. ASSUME NEW l \in logs, TransfersCommand!HasShape(l, 2)
      PROVE  l \in scan <=>
               l.block <= scanned.block /\ scanned.block - l.block < flags.blocks /\ Matches(l)
  BY <1>4, ScanOf
<1>5. \A l : TransfersCommand!Asked(l) /\ l.topics[1] = "SafeReceived" <=>
        /\ TransfersCommand!HasShape(l, 2) /\ Wanted(l)
        /\ l.block <= scanned.block /\ scanned.block - l.block < flags.blocks
  BY DEF TransfersCommand!Asked, TransfersCommand!HasShape
<1>6. scan \subseteq logs
  BY DEF TransfersCommand!ScanLogs
<1> HIDE DEF scan, Matches, Wanted
<1> QED BY <1>3, <1>4, <1>5, <1>6 DEF ReceivedAsked, scan, topics, safe

\* Each scan that ended listed what its logs show, and the report has both.
ScansInv ==
  /\ scanned \in ScanRequests /\ flags \in Flags /\ logs \in ScanChains
  /\ step \in {"tokens", "received", "report", "done"} =>
       TransfersCommand!HasSafe /\ ~TransfersCommand!UsageError
  /\ step = "received" => flags.in
  /\ step \in {"start", "tokens", "received"} => received = <<>>
  /\ step \in {"received", "report"} => ListsOnce(tokens, TokensAsked)
  /\ step = "report" => ListsOnce(received, ReceivedAsked)
  /\ step = "done" => ListsOnce(transfers, {l \in logs : TransfersCommand!Asked(l)})

\* Every step of transfers keeps what its report rests on.
LEMMA ScansKept ==
  ASSUME ScansInv, TransfersCommand!Next \/ UNCHANGED transfersVars
  PROVE  ScansInv'
<1> USE DEF ScansInv
<1>0. Placed(logs) /\ TokensAsked \in SUBSET logs /\ ReceivedAsked \in SUBSET logs
  BY TransfersAssumption DEF Placed, TokensAsked, ReceivedAsked
<1>1. UNCHANGED <<scanned, flags, logs>>
  BY DEF transfersVars, TransfersCommand!Next, TransfersCommand!OpenScan, TransfersCommand!ScanTokens,
         TransfersCommand!ReceivedBy, TransfersCommand!ScanFails, TransfersCommand!Report
<1>2. /\ TokensAsked' = TokensAsked /\ ReceivedAsked' = ReceivedAsked
      /\ (TransfersCommand!HasSafe)' = TransfersCommand!HasSafe
      /\ (TransfersCommand!UsageError)' = TransfersCommand!UsageError
      /\ {l \in logs : TransfersCommand!Asked(l)}' = {l \in logs : TransfersCommand!Asked(l)}
  BY <1>1 DEF TokensAsked, ReceivedAsked, TransfersCommand!HasSafe, TransfersCommand!UsageError,
              TransfersCommand!Asked
<1>3. CASE TransfersCommand!OpenScan
  BY <1>1, <1>2, <1>3 DEF TransfersCommand!OpenScan
<1>4. CASE TransfersCommand!ScanTokens
  <2> DEFINE order == TransfersCommand!Shaped(
                        TransfersCommand!ScanLogs(TransfersCommand!Every, TransfersCommand!TokenTopics), 3)
  <2>1. /\ step = "tokens" /\ step' = IF flags.in THEN "received" ELSE "report"
        /\ tokens' = [k \in DOMAIN order |-> TransfersCommand!Transfer("erc20", order[k], order[k].topics[3])]
        /\ UNCHANGED <<received, transfers>>
    BY <1>4 DEF TransfersCommand!ScanTokens
  <2>2. order = InPlaces(logs, TokensAsked)
    BY <2>1, TokensScanned DEF TransfersCommand!Shaped, InPlaces, Known
  <2>3. \A k \in DOMAIN order : order[k] \in TokensAsked
    BY <1>0, <2>2, LogsPlaced
  <2> HIDE DEF order
  <2>4. \A k \in DOMAIN order : Shows(tokens'[k], order[k])
    BY <2>1, <2>3 DEF Shows, TransfersCommand!Transfer, TokensAsked
  <2>5. ListsOnce(tokens', TokensAsked)
    <3>1. PICK s : s = tokens'
      OBVIOUS
    <3>2. s = [k \in DOMAIN order |-> s[k]]
      BY <2>1, <3>1
    <3> QED BY <1>0, <2>2, <2>4, <3>1, <3>2, ScanLists
  <2>6. ~flags.in => received' = <<>> /\ ListsOnce(<<>>, ReceivedAsked)
    <3>1. ~flags.in => ReceivedAsked = {}
      BY DEF ReceivedAsked, TransfersCommand!Asked
    <3>2. ListsOnce(<<>>, {})
      BY FS_EmptySet DEF ListsOnce, OfLength
    <3> QED BY <2>1, <3>1, <3>2
  <2> QED BY <1>1, <1>2, <2>1, <2>5, <2>6
<1>5. CASE TransfersCommand!ReceivedBy
  <2> DEFINE order == TransfersCommand!Shaped(
                        TransfersCommand!ScanLogs(TransfersCommand!One(Safe), ReceivedTopics), 2)
  <2>1. /\ step = "received" /\ step' = "report"
        /\ received' = [k \in DOMAIN order |-> TransfersCommand!Transfer("native", order[k], Safe)]
        /\ UNCHANGED <<tokens, transfers>>
    BY <1>5 DEF TransfersCommand!ReceivedBy, ReceivedTopics
  <2>2. order = InPlaces(logs, ReceivedAsked)
    BY <2>1, ReceivedScanned DEF TransfersCommand!Shaped, InPlaces, Known
  <2>3. \A k \in DOMAIN order : order[k] \in ReceivedAsked
    BY <1>0, <2>2, LogsPlaced
  <2> HIDE DEF order
  <2>4. \A k \in DOMAIN order : Shows(received'[k], order[k])
    BY <2>1, <2>3 DEF Shows, TransfersCommand!Transfer, ReceivedAsked
  <2>5. ListsOnce(received', ReceivedAsked)
    <3>1. PICK s : s = received'
      OBVIOUS
    <3>2. s = [k \in DOMAIN order |-> s[k]]
      BY <2>1, <3>1
    <3> QED BY <1>0, <2>2, <2>4, <3>1, <3>2, ScanLists
  <2> QED BY <1>1, <1>2, <2>1, <2>5
<1>6. CASE TransfersCommand!Report
  <2>1. /\ step = "report" /\ step' = "done"
        /\ transfers' = TransfersCommand!Merged(received, tokens)
    BY <1>6 DEF TransfersCommand!Report
  <2>2. ReceivedAsked \cap TokensAsked = {}
    BY DEF ReceivedAsked, TokensAsked
  <2>3. ReceivedAsked \cup TokensAsked = {l \in logs : TransfersCommand!Asked(l)}
    BY DEF ReceivedAsked, TokensAsked, TransfersCommand!Asked
  <2>4. ListsOnce(TransfersCommand!Merged(received, tokens), ReceivedAsked \cup TokensAsked)
    BY <1>0, <2>1, <2>2, MergedLists
  <2> QED BY <1>1, <1>2, <2>1, <2>3, <2>4
<1>7. CASE TransfersCommand!ScanFails
  BY <1>1, <1>2, <1>7 DEF TransfersCommand!ScanFails
<1>8. CASE UNCHANGED transfersVars
  BY <1>1, <1>2, <1>8 DEF transfersVars
<1> QED BY <1>3, <1>4, <1>5, <1>6, <1>7, <1>8 DEF TransfersCommand!Next

\* The report has each transfer that the flags ask for, whichever of the two
\* events shows it, once and in order, and nothing else (transfers, TransfersFrom,
\* TransfersTo, ReceivedBy).
THEOREM TransfersListedOnce == Spec => []ListsEachOnce
<1> DEFINE IInv == command = "transfers" => ScansInv
<1>1. Init => IInv
  BY DEF Init, TransfersCommand!Init, ScansInv
<1>2. IInv /\ [Next]_vars => IInv'
  BY ScansKept, OneCommand
<1>3. IInv => ListsEachOnce
  <2> DEFINE L == {l \in logs : TransfersCommand!Asked(l)}
  <2> SUFFICES ASSUME ScansInv, step = "done" PROVE TransfersCommand!ListsEachOnce
    BY DEF ListsEachOnce, TransfersCommand!ListsEachOnce
  <2>1. ListsOnce(transfers, L) /\ TransfersCommand!HasSafe
    BY DEF ScansInv
  <2>2. Len(transfers) = Cardinality(L)
    BY <2>1, LengthOf DEF ListsOnce
  <2>3. TransfersCommand!Cardinality(L) = Cardinality(L)
    BY DEF TransfersCommand!Cardinality, Cardinality
  <2>4. \A j, k \in DOMAIN transfers : j < k => TransfersCommand!Earlier(transfers[j], transfers[k])
    BY <2>1 DEF ListsOnce, Precedes
  <2>5. \A l \in L : \E k \in DOMAIN transfers : Shows(transfers[k], l)
    BY <2>1 DEF ListsOnce
  <2> HIDE DEF L
  <2> QED BY <2>1, <2>2, <2>3, <2>4, <2>5
          DEF L, Shows, TransfersCommand!ListsEachOnce, TransfersCommand!HasSafe
<1> QED BY <1>1, <1>2, <1>3, PTL DEF Spec

-----------------------------------------------------------------------------
(* safe *)

\* The list l after n entries, from that after n - 1.
Follows(q, l, n) ==
  IF n = 0 THEN storage[l][SafeCommand!Sentinel]
  ELSE IF q[n - 1] \in Entries THEN storage[l][q[n - 1]] ELSE q[n - 1]

\* Some function is where the list is, however far it is followed.
LEMMA ListFollowed ==
  ASSUME NEW l, NEW N \in Nat
  PROVE  \E q : q = [n \in 0 .. N |-> Follows(q, l, n)]
<1> DEFINE S == {m \in Nat : \E q : q = [n \in 0 .. m |-> Follows(q, l, n)]}
<1>1. 0 \in S
  <2> DEFINE q == [n \in 0 .. 0 |-> storage[l][SafeCommand!Sentinel]]
  <2>1. q = [n \in 0 .. 0 |-> Follows(q, l, n)]
    BY DEF Follows
  <2> QED BY <2>1
<1>2. ASSUME NEW m \in S PROVE m + 1 \in S
  <2>1. PICK q : q = [n \in 0 .. m |-> Follows(q, l, n)]
    OBVIOUS
  <2> DEFINE r == [n \in 0 .. m + 1 |-> IF n = m + 1 THEN Follows(q, l, n) ELSE q[n]]
  <2>2. \A n \in 0 .. m : r[n] = q[n]
    OBVIOUS
  <2>3. \A n \in 0 .. m + 1 : Follows(r, l, n) = Follows(q, l, n)
    BY <2>2 DEF Follows
  <2>4. \A n \in 0 .. m : q[n] = Follows(q, l, n)
    BY <2>1
  <2>5. r = [n \in 0 .. m + 1 |-> Follows(r, l, n)]
    BY <2>3, <2>4
  <2> HIDE DEF r
  <2>6. m + 1 \in Nat /\ \E f : f = [n \in 0 .. m + 1 |-> Follows(f, l, n)]
    BY <2>5
  <2> QED BY <2>6
<1>3. S = Nat
  <2> HIDE DEF S
  <2>1. S \in SUBSET Nat
    BY DEF S
  <2> QED BY <1>1, <1>2, <2>1, AllNumbers
<1> QED BY <1>3

\* The list is where following it leads, up to the bound.
LEMMA PointerFollows ==
  ASSUME NEW l
  PROVE  \A n \in 0 .. MaxListLength + 1 :
           SafeCommand!Pointer(l)[n] = Follows(SafeCommand!Pointer(l), l, n)
<1> DEFINE P(q) == q = [n \in 0 .. MaxListLength + 1 |-> Follows(q, l, n)]
<1>1. SafeCommand!Pointer(l) = CHOOSE q : P(q)
  BY DEF SafeCommand!Pointer, Follows
<1>2. \E q : P(q)
  <2>1. MaxListLength + 1 \in Nat
    BY CommandsAssumption
  <2> QED BY <2>1, ListFollowed
<1> HIDE DEF P
<1>3. P(CHOOSE q : P(q))
  BY <1>2
<1> QED BY <1>1, <1>3 DEF P

\* A list stays where it isn't at an entry, and, if it comes back to an entry, it
\* goes on as it did from there.
LEMMA PointerStays ==
  ASSUME NEW l, NEW j \in Nat, NEW n \in Nat, j + n <= MaxListLength + 1,
         SafeCommand!Pointer(l)[j] \notin Entries
  PROVE  SafeCommand!Pointer(l)[j + n] = SafeCommand!Pointer(l)[j]
<1> DEFINE p == SafeCommand!Pointer(l)
           S == {m \in Nat : j + m <= MaxListLength + 1 => p[j + m] = p[j]}
<1> HIDE DEF p
<1>1. \A m \in 0 .. MaxListLength + 1 : p[m] = Follows(p, l, m)
  BY PointerFollows DEF p
<1>2. 0 \in S
  OBVIOUS
<1>3. ASSUME NEW m \in S PROVE m + 1 \in S
  <2> SUFFICES ASSUME j + (m + 1) <= MaxListLength + 1 PROVE p[j + (m + 1)] = p[j]
    OBVIOUS
  <2>1. p[j + m] = p[j] /\ p[j] \notin Entries /\ (j + (m + 1)) - 1 = j + m
    BY CommandsAssumption DEF p
  <2>2. j + (m + 1) \in 0 .. MaxListLength + 1 /\ j + (m + 1) # 0
    BY CommandsAssumption
  <2>3. p[j + (m + 1)] = Follows(p, l, j + (m + 1))
    BY <1>1, <2>2
  <2> QED BY <2>1, <2>2, <2>3 DEF Follows
<1>4. S = Nat
  <2> HIDE DEF S
  <2>1. S \in SUBSET Nat
    BY DEF S
  <2> QED BY <1>2, <1>3, <2>1, AllNumbers
<1> QED BY <1>4 DEF p

\* A list that comes back to a place goes on from there as it did.
LEMMA PointerRepeats ==
  ASSUME NEW l, NEW j \in Nat, NEW k \in Nat, j < k, NEW n \in Nat, k + n <= MaxListLength + 1,
         SafeCommand!Pointer(l)[j] = SafeCommand!Pointer(l)[k]
  PROVE  SafeCommand!Pointer(l)[j + n] = SafeCommand!Pointer(l)[k + n]
<1> DEFINE p == SafeCommand!Pointer(l)
           S == {m \in Nat : k + m <= MaxListLength + 1 => p[j + m] = p[k + m]}
<1> HIDE DEF p
<1>1. \A m \in 0 .. MaxListLength + 1 : p[m] = Follows(p, l, m)
  BY PointerFollows DEF p
<1>2. 0 \in S
  BY DEF p
<1>3. ASSUME NEW m \in S PROVE m + 1 \in S
  <2> SUFFICES ASSUME k + (m + 1) <= MaxListLength + 1 PROVE p[j + (m + 1)] = p[k + (m + 1)]
    OBVIOUS
  <2>1. /\ p[j + m] = p[k + m]
        /\ (j + (m + 1)) - 1 = j + m /\ (k + (m + 1)) - 1 = k + m
    BY CommandsAssumption
  <2>2. \A i \in {j, k} : i + (m + 1) \in 0 .. MaxListLength + 1 /\ i + (m + 1) # 0
    BY CommandsAssumption
  <2>3. \A i \in {j, k} : p[i + (m + 1)] = Follows(p, l, i + (m + 1))
    BY <1>1, <2>2
  <2> QED BY <2>1, <2>2, <2>3 DEF Follows
<1>4. S = Nat
  <2> HIDE DEF S
  <2>1. S \in SUBSET Nat
    BY DEF S
  <2> QED BY <1>2, <1>3, <2>1, AllNumbers
<1> QED BY <1>4 DEF p

\* The two lists, and the slots of `SafeSettings` that they are at.
Lists == {"owners", "modules"}

Place(l) == IF l = "owners" THEN 8 ELSE 9

\* A list ends where it starts, or was never set up.
Whole(l) ==
  SafeCommand!Pointer(l)[Len(lists[l])] =
    (IF storage[l][SafeCommand!Sentinel] = SafeCommand!Zero THEN SafeCommand!Zero ELSE SafeCommand!Sentinel)

\* The entries of a list are those that it was followed through.
ListsInv ==
  /\ storage \in Storages /\ slot \in 1 .. 10
  /\ lists \in [Lists -> Seq(Entries)]
  /\ \A l \in Lists :
       /\ Len(lists[l]) <= MaxListLength
       /\ \A k \in 1 .. Len(lists[l]) : lists[l][k] = SafeCommand!Pointer(l)[k - 1]
       /\ slot < Place(l) \/ (slot = Place(l) /\ entry = "start") => lists[l] = <<>>

\* Without an error, the list that is read is followed, and those before it are
\* whole.
FollowedInv ==
  settingsErr = "none" =>
    /\ slot < 8 => entry = "start"
    /\ \A l \in Lists :
         /\ slot = Place(l) /\ entry # "start" => entry = SafeCommand!Pointer(l)[Len(lists[l])]
         /\ slot > Place(l) => Whole(l)

\* An error is kept with what it says of the storage.
ErrorInv ==
  /\ settingsErr \in {"none", "request", "ends", "too long"}
  /\ slotFailed <=> settingsErr = "request"
  /\ settingsErr = "ends" => \E l \in Lists : /\ storage[l][SafeCommand!Sentinel] # SafeCommand!Zero
                                               /\ SafeCommand!Pointer(l)[MaxListLength + 1] = SafeCommand!Zero
  /\ settingsErr = "too long" => \E l \in Lists : SafeCommand!Pointer(l)[MaxListLength] \in Entries

\* Which slots are those of lists.
LEMMA ListSlots ==
  ASSUME ListsInv
  PROVE  /\ SafeCommand!Done <=> slot = 10
         /\ SafeCommand!IsList <=> slot \in {8, 9}
         /\ slot \in {8, 9} => SafeCommand!List \in Lists /\ Place(SafeCommand!List) = slot
         /\ \A l \in Lists : Place(l) = slot => l = SafeCommand!List
<1>1. DOMAIN storage = Lists
  BY SafeAssumption DEF ListsInv, Lists
<1>2. slot \in 1 .. 10
  BY DEF ListsInv
<1>3. Len(SafeCommand!Slots) = 9
  BY DEF SafeCommand!Slots
<1>4. SafeCommand!Done <=> slot = 10
  BY <1>2, <1>3 DEF SafeCommand!Done
<1>5. slot = 8 => SafeCommand!List = "owners"
  BY DEF SafeCommand!List, SafeCommand!Slots
<1>6. slot = 9 => SafeCommand!List = "modules"
  BY DEF SafeCommand!List, SafeCommand!Slots
<1>7. slot \in 1 .. 7 => SafeCommand!List \notin Lists
  BY DEF SafeCommand!List, SafeCommand!Slots, Lists
<1> QED BY <1>1, <1>2, <1>4, <1>5, <1>6, <1>7 DEF SafeCommand!IsList, Lists, Place

\* Nothing is read at first.
LEMMA ListsInitially == SafeCommand!Init => ListsInv /\ FollowedInv /\ ErrorInv
<1> SUFFICES ASSUME SafeCommand!Init PROVE ListsInv /\ FollowedInv /\ ErrorInv
  OBVIOUS
<1>1. lists \in [Lists -> Seq(Entries)] /\ \A l \in Lists : lists[l] = <<>>
  <2>1. <<>> \in Seq(Entries)
    BY EmptySeq
  <2>2. lists = [l \in Lists |-> <<>>]
    BY DEF SafeCommand!Init, Lists
  <2> QED BY <2>1, <2>2
<1>2. Len(<<>>) = 0
  OBVIOUS
<1> QED BY <1>1, <1>2, CommandsAssumption
        DEF SafeCommand!Init, ListsInv, FollowedInv, ErrorInv, Place, Lists

\* Reading doesn't change what is stored.
LEMMA StorageStays ==
  ASSUME UNCHANGED storage
  PROVE  \A l : SafeCommand!Pointer(l)' = SafeCommand!Pointer(l)
BY DEF SafeCommand!Pointer

\* Reading a single word reads no list.
LEMMA WordKeeps ==
  ASSUME ListsInv, FollowedInv, ErrorInv, SafeCommand!Word
  PROVE  (ListsInv /\ FollowedInv /\ ErrorInv)'
<1>1. /\ slot \in 1 .. 7 /\ slot' = slot + 1 /\ UNCHANGED <<storage, lists>>
      /\ slot < 8
  BY ListSlots DEF SafeCommand!Word, ListsInv
<1>2. \A l : SafeCommand!Pointer(l)' = SafeCommand!Pointer(l)
  BY <1>1, StorageStays
<1>3. ListsInv'
  BY <1>1, <1>2 DEF ListsInv, Place
<1>4. /\ settingsErr' = "none" => settingsErr = "none" /\ entry' = "start"
      /\ settingsErr' \in {settingsErr, "request"}
      /\ slotFailed' <=> settingsErr' = "request"
  <2>1. CASE settingsErr # "none" /\ UNCHANGED <<settingsErr, slotFailed>>
    BY <2>1, Zenon DEF ErrorInv
  <2>2. CASE settingsErr = "none" /\ entry' = "start" /\ UNCHANGED <<settingsErr, slotFailed>>
    BY <2>2, Zenon DEF ErrorInv
  <2>3. CASE settingsErr' = "request" /\ slotFailed' = TRUE
    BY <2>3
  <2> QED BY <2>1, <2>2, <2>3 DEF SafeCommand!Word, SafeCommand!Reads
<1>5. FollowedInv'
  BY <1>1, <1>4 DEF FollowedInv, Place
<1>6. ErrorInv'
  BY <1>1, <1>2, <1>4 DEF ErrorInv
<1> QED BY <1>3, <1>5, <1>6

\* A list is first read where its sentinel points to.
LEMMA StartKeeps ==
  ASSUME ListsInv, FollowedInv, ErrorInv, SafeCommand!Start
  PROVE  (ListsInv /\ FollowedInv /\ ErrorInv)'
<1> DEFINE L == SafeCommand!List
<1>1. /\ slot \in {8, 9} /\ L \in Lists /\ Place(L) = slot /\ entry = "start"
      /\ UNCHANGED <<storage, lists, slot>>
      /\ \A l \in Lists : Place(l) = slot => l = L
  BY ListSlots DEF SafeCommand!Start
<1>2. \A l : SafeCommand!Pointer(l)' = SafeCommand!Pointer(l)
  BY <1>1, StorageStays
<1>3. lists[L] = <<>> /\ Len(lists[L]) = 0
  BY <1>1 DEF ListsInv
<1>4. SafeCommand!Pointer(L)[0] = storage[L][SafeCommand!Sentinel]
  <2>1. 0 \in 0 .. MaxListLength + 1
    BY CommandsAssumption
  <2> QED BY <2>1, PointerFollows DEF Follows
<1>5. ListsInv'
  BY <1>1, <1>2, <1>3 DEF ListsInv, Place
<1>6. /\ settingsErr' = "none" => settingsErr = "none" /\ entry' = storage[L][SafeCommand!Sentinel]
      /\ settingsErr' \in {settingsErr, "request"}
      /\ slotFailed' <=> settingsErr' = "request"
  <2>1. CASE settingsErr # "none" /\ UNCHANGED <<settingsErr, slotFailed>>
    BY <2>1, Zenon DEF ErrorInv
  <2>2. CASE settingsErr = "none" /\ entry' = storage[L][SafeCommand!Sentinel] /\ UNCHANGED <<settingsErr, slotFailed>>
    BY <2>2, Zenon DEF ErrorInv
  <2>3. CASE settingsErr' = "request" /\ slotFailed' = TRUE
    BY <2>3
  <2> QED BY <2>1, <2>2, <2>3 DEF SafeCommand!Start, SafeCommand!Reads
<1>7. FollowedInv'
  <2> SUFFICES ASSUME settingsErr' = "none" PROVE FollowedInv'
    BY DEF FollowedInv
  <2>1. \A l \in Lists : slot > Place(l) => Whole(l)'
    BY <1>1, <1>2, <1>6 DEF FollowedInv, Whole
  <2> HIDE DEF L
  <2>2. ASSUME NEW l \in Lists, slot = Place(l) PROVE entry' = SafeCommand!Pointer(l)[Len(lists[l])]
    BY <1>1, <1>3, <1>4, <1>6, <2>2
  <2> QED BY <1>1, <1>2, <2>1, <2>2 DEF FollowedInv
<1>8. ErrorInv'
  BY <1>1, <1>2, <1>6 DEF ErrorInv
<1> QED BY <1>5, <1>7, <1>8

\* An entry is added, and the next one is where it points to.
LEMMA EntryKeeps ==
  ASSUME ListsInv, FollowedInv, ErrorInv, SafeCommand!ListEntry
  PROVE  (ListsInv /\ FollowedInv /\ ErrorInv)'
<1> DEFINE L == SafeCommand!List
           n == Len(lists[L])
<1>1. /\ slot \in {8, 9} /\ L \in Lists /\ Place(L) = slot /\ entry \in Entries
      /\ settingsErr = "none" /\ n # MaxListLength
      /\ UNCHANGED <<storage, slot>> /\ lists' = [lists EXCEPT ![L] = Append(@, entry)]
      /\ \A l \in Lists : Place(l) = slot => l = L
  BY ListSlots DEF SafeCommand!ListEntry, SafeCommand!Loops, SafeCommand!Full
<1>2. \A l : SafeCommand!Pointer(l)' = SafeCommand!Pointer(l)
  BY <1>1, StorageStays
<1>3. entry # "start"
  BY <1>1, SafeAssumption
<1>4. lists \in [Lists -> Seq(Entries)] /\ lists[L] \in Seq(Entries) /\ n \in Nat /\ n + 1 <= MaxListLength
  BY <1>1, CommandsAssumption DEF ListsInv
<1>5. entry = SafeCommand!Pointer(L)[n]
  BY <1>1, <1>3 DEF FollowedInv
<1>6. SafeCommand!Pointer(L)[n + 1] = storage[L][entry]
  <2>1. n + 1 \in 0 .. MaxListLength + 1 /\ n + 1 # 0 /\ (n + 1) - 1 = n
    BY <1>4, CommandsAssumption
  <2>2. SafeCommand!Pointer(L)[n + 1] = Follows(SafeCommand!Pointer(L), L, n + 1)
    BY <2>1, PointerFollows
  <2> QED BY <1>1, <1>5, <2>1, <2>2 DEF Follows
<1>7. /\ lists' \in [Lists -> Seq(Entries)] /\ Len(lists'[L]) = n + 1
      /\ lists'[L][n + 1] = entry
      /\ \A k \in 1 .. n : lists'[L][k] = lists[L][k]
      /\ \A l \in Lists : l # L => lists'[l] = lists[l]
  <2> DEFINE s == lists[L]
  <2>1. lists'[L] = Append(s, entry)
    BY <1>1, <1>4
  <2>2. s \in Seq(Entries) /\ Len(s) = n
    BY <1>4
  <2> HIDE DEF s, n, L
  <2>3. /\ Append(s, entry) \in Seq(Entries) /\ Len(Append(s, entry)) = n + 1
        /\ Append(s, entry)[n + 1] = entry /\ \A k \in 1 .. n : Append(s, entry)[k] = s[k]
    BY <1>1, <2>2, AppendProperties
  <2>4. lists' \in [Lists -> Seq(Entries)] /\ \A l \in Lists : l # L => lists'[l] = lists[l]
    BY <1>1, <1>4, <2>1, <2>3
  <2> QED BY <2>1, <2>3, <2>4 DEF s
<1>8. /\ settingsErr' = "none" => entry' = storage[L][entry]
      /\ settingsErr' \in {settingsErr, "request"}
      /\ slotFailed' <=> settingsErr' = "request"
      /\ entry' = "start" => settingsErr' = "none"
  BY <1>1 DEF SafeCommand!ListEntry, SafeCommand!Reads, ErrorInv, SafeCommand!Zero
<1> HIDE DEF L, n
<1>9. entry' # "start"
  <2>1. storage[L] \in [SafeCommand!Keys -> SafeCommand!Values]
    BY <1>1, SafeAssumption DEF ListsInv, Lists
  <2>2. storage[L][entry] \in SafeCommand!Values
    BY <1>1, <2>1 DEF SafeCommand!Keys
  <2> QED BY <1>8, <2>2, SafeAssumption
          DEF SafeCommand!Values, SafeCommand!Keys, SafeCommand!Zero, SafeCommand!Sentinel
<1>10. ListsInv'
  <2>1. ASSUME NEW l \in Lists
        PROVE  /\ Len(lists'[l]) <= MaxListLength
               /\ \A k \in 1 .. Len(lists'[l]) : lists'[l][k] = SafeCommand!Pointer(l)[k - 1]
               /\ slot < Place(l) => lists'[l] = <<>>
    <3>1. CASE l = L
      <4>1. ASSUME NEW k \in 1 .. n + 1 PROVE lists'[L][k] = SafeCommand!Pointer(L)[k - 1]
        <5>1. k \in 1 .. n \/ (k = n + 1 /\ k - 1 = n)
          BY <1>4
        <5>2. \A i \in 1 .. n : lists[L][i] = SafeCommand!Pointer(L)[i - 1]
          BY <1>1 DEF ListsInv, n
        <5> QED BY <1>5, <1>7, <5>1, <5>2
      <4> QED BY <1>1, <1>4, <1>7, <3>1, <4>1
    <3>2. CASE l # L
      BY <1>7, <3>2 DEF ListsInv
    <3> QED BY <3>1, <3>2
  <2> QED BY <1>1, <1>2, <1>7, <1>9, <2>1 DEF ListsInv
<1>11. FollowedInv'
  <2> SUFFICES ASSUME settingsErr' = "none" PROVE FollowedInv'
    BY DEF FollowedInv
  <2>1. ASSUME NEW l \in Lists, slot > Place(l) PROVE Whole(l)'
    <3>1. l # L /\ Whole(l)
      BY <1>1, <2>1 DEF FollowedInv, Place
    <3> QED BY <1>1, <1>2, <1>7, <3>1 DEF Whole
  <2>2. ASSUME NEW l \in Lists, slot = Place(l) PROVE entry' = SafeCommand!Pointer(l)[Len(lists'[l])]
    BY <1>1, <1>6, <1>7, <1>8, <2>2
  <2>3. ~(slot < 8)
    BY <1>1
  <2> QED BY <1>1, <1>2, <2>1, <2>2, <2>3 DEF FollowedInv
<1>12. ErrorInv'
  BY <1>1, <1>2, <1>8 DEF ErrorInv
<1> QED BY <1>10, <1>11, <1>12

\* A list that ended, or whose reading failed, is left as it was.
LEMMA ListLeft ==
  ASSUME ListsInv, SafeCommand!IsList, SafeCommand!NextSlot
  PROVE  /\ ListsInv' /\ slot' = slot + 1 /\ entry' = "start"
         /\ UNCHANGED <<storage, lists, slotFailed>>
         /\ \A l : SafeCommand!Pointer(l)' = SafeCommand!Pointer(l)
         /\ \A l \in Lists : slot' > Place(l) => slot > Place(l) \/ l = SafeCommand!List
<1>1. /\ slot \in {8, 9} /\ slot' = slot + 1 /\ entry' = "start"
      /\ UNCHANGED <<storage, lists, slotFailed>>
      /\ \A l \in Lists : Place(l) = slot => l = SafeCommand!List
  BY ListSlots DEF SafeCommand!NextSlot
<1>2. \A l : SafeCommand!Pointer(l)' = SafeCommand!Pointer(l)
  BY <1>1, StorageStays
<1>3. \A l \in Lists : /\ slot' <= Place(l) => slot < Place(l)
                       /\ slot' > Place(l) => slot > Place(l) \/ Place(l) = slot
  BY <1>1 DEF Place
<1>4. ListsInv'
  BY <1>1, <1>2, <1>3 DEF ListsInv, Place
<1> QED BY <1>1, <1>2, <1>3, <1>4

\* A list that can't be read fails for what is in the storage.
LEMMA ListFailsKeeps ==
  ASSUME ListsInv, FollowedInv, ErrorInv, SafeCommand!ListFails
  PROVE  (ListsInv /\ FollowedInv /\ ErrorInv)'
<1> DEFINE L == SafeCommand!List
           n == Len(lists[L])
           p == SafeCommand!Pointer(L)
<1>1. /\ slot \in {8, 9} /\ L \in Lists /\ Place(L) = slot /\ settingsErr = "none" /\ entry # "start"
      /\ ListsInv' /\ UNCHANGED <<storage, slotFailed>>
      /\ \A l : SafeCommand!Pointer(l)' = SafeCommand!Pointer(l)
  BY ListSlots, ListLeft DEF SafeCommand!ListFails, SafeCommand!Loops
<1>2. lists[L] \in Seq(Entries) /\ n \in Nat /\ n <= MaxListLength
  BY <1>1 DEF ListsInv
<1>3. entry = p[n]
  BY <1>1 DEF FollowedInv
<1>4. slotFailed' <=> FALSE
  BY <1>1 DEF ErrorInv
<1>5. CASE settingsErr' = "ends" /\ entry = SafeCommand!Zero
  <2>1. lists[L] # <<>> /\ n # 0
    BY <1>2, <1>5, EmptySeq DEF SafeCommand!ListFails, SafeCommand!Empty
  <2>2. p[0] \in Entries
    <3>1. 1 \in 1 .. n /\ 1 - 1 = 0
      BY <1>2, <2>1
    <3>2. lists[L][1] = p[0]
      BY <1>1, <3>1 DEF ListsInv
    <3>3. lists[L][1] \in Entries
      BY <1>2, <3>1, ElementOfSeq
    <3> QED BY <3>2, <3>3
  <2>3. storage[L][SafeCommand!Sentinel] \in Entries
    <3>1. 0 \in 0 .. MaxListLength + 1
      BY CommandsAssumption
    <3>2. p[0] = storage[L][SafeCommand!Sentinel]
      BY <3>1, PointerFollows DEF Follows
    <3> QED BY <2>2, <3>2
  <2>4. p[MaxListLength + 1] = SafeCommand!Zero
    <3>1. /\ MaxListLength + 1 - n \in Nat /\ n + (MaxListLength + 1 - n) = MaxListLength + 1
          /\ n + (MaxListLength + 1 - n) <= MaxListLength + 1
      BY <1>2, CommandsAssumption
    <3>2. p[n] = SafeCommand!Zero /\ p[n] \notin Entries
      BY <1>3, <1>5, SafeAssumption
    <3> HIDE DEF n
    <3> QED BY <1>2, <3>1, <3>2, PointerStays
  <2>5. storage[L][SafeCommand!Sentinel] # SafeCommand!Zero
    BY <2>3, SafeAssumption
  <2> HIDE DEF L
  <2>6. \E l \in Lists : /\ storage[l][SafeCommand!Sentinel] # SafeCommand!Zero
                         /\ SafeCommand!Pointer(l)[MaxListLength + 1] = SafeCommand!Zero
    BY <1>1, <2>4, <2>5
  <2> QED BY <1>1, <1>4, <1>5, <2>6 DEF FollowedInv, ErrorInv
<1>6. CASE settingsErr' = "too long" /\ entry \in Entries /\ n = MaxListLength
  <2> HIDE DEF L
  <2>1. \E l \in Lists : SafeCommand!Pointer(l)[MaxListLength] \in Entries
    BY <1>1, <1>3, <1>6
  <2> QED BY <1>1, <1>4, <1>6, <2>1 DEF FollowedInv, ErrorInv
<1> QED BY <1>5, <1>6 DEF SafeCommand!ListFails, SafeCommand!Full

\* A list that ends is whole.
LEMMA ListEndsKeeps ==
  ASSUME ListsInv, FollowedInv, ErrorInv, SafeCommand!ListEnds
  PROVE  (ListsInv /\ FollowedInv /\ ErrorInv)'
<1> DEFINE L == SafeCommand!List
           n == Len(lists[L])
           p == SafeCommand!Pointer(L)
<1>1. /\ slot \in {8, 9} /\ L \in Lists /\ Place(L) = slot /\ entry # "start"
      /\ ListsInv' /\ UNCHANGED <<storage, lists, slotFailed, settingsErr>> /\ entry' = "start"
      /\ \A l : SafeCommand!Pointer(l)' = SafeCommand!Pointer(l)
      /\ slot' = slot + 1
      /\ \A l \in Lists : slot' > Place(l) => slot > Place(l) \/ l = L
  BY ListSlots, ListLeft DEF SafeCommand!ListEnds
<1>2. lists[L] \in Seq(Entries) /\ n \in Nat /\ n <= MaxListLength
  BY <1>1 DEF ListsInv
<1>3. ErrorInv'
  BY <1>1 DEF ErrorInv
<1>4. ASSUME settingsErr = "none" PROVE Whole(L)
  <2>1. entry = p[n]
    BY <1>1, <1>4 DEF FollowedInv
  <2>2. p[0] = storage[L][SafeCommand!Sentinel]
    <3>1. 0 \in 0 .. MaxListLength + 1
      BY CommandsAssumption
    <3> QED BY <3>1, PointerFollows DEF Follows
  <2>3. CASE SafeCommand!Empty
    <3>1. n = 0 /\ p[n] = SafeCommand!Zero
      BY <2>1, <2>3 DEF SafeCommand!Empty
    <3> QED BY <2>2, <3>1 DEF Whole
  <2>4. CASE entry = SafeCommand!Sentinel
    <3>1. p[0] # SafeCommand!Zero
      <4> SUFFICES ASSUME p[0] = SafeCommand!Zero PROVE FALSE
        OBVIOUS
      <4>1. p[0] \notin Entries /\ 0 + n <= MaxListLength + 1 /\ 0 + n = n
        BY <1>2, SafeAssumption, CommandsAssumption
      <4> HIDE DEF n
      <4>2. p[0 + n] = p[0]
        BY <1>2, <4>1, PointerStays
      <4> QED BY <2>1, <2>4, <4>1, <4>2 DEF SafeCommand!Sentinel, SafeCommand!Zero
    <3> QED BY <2>1, <2>2, <2>4, <3>1 DEF Whole
  <2> QED BY <1>4, <2>3, <2>4 DEF SafeCommand!ListEnds, SafeCommand!Loops
<1> HIDE DEF L
<1>5. FollowedInv'
  <2> SUFFICES ASSUME settingsErr = "none" PROVE FollowedInv'
    BY <1>1 DEF FollowedInv
  <2>1. \A l \in Lists : slot' > Place(l) => Whole(l)'
    BY <1>1, <1>4 DEF FollowedInv, Whole
  <2> QED BY <1>1, <2>1 DEF FollowedInv
<1> QED BY <1>1, <1>3, <1>5

\* Every step of safe keeps the three invariants.
LEMMA ListsKept ==
  ASSUME ListsInv, FollowedInv, ErrorInv, SafeCommand!Read \/ UNCHANGED safeVars
  PROVE  (ListsInv /\ FollowedInv /\ ErrorInv)'
<1>1. CASE UNCHANGED safeVars
  <2>1. \A l : SafeCommand!Pointer(l)' = SafeCommand!Pointer(l)
    BY <1>1, StorageStays DEF safeVars
  <2> QED BY <1>1, <2>1 DEF safeVars, ListsInv, FollowedInv, ErrorInv, Whole
<1> QED BY <1>1, WordKeeps, StartKeeps, EntryKeeps, ListFailsKeeps, ListEndsKeeps DEF SafeCommand!Read

\* A list that is whole has no entry twice: from there, it would repeat.
LEMMA WholeHasOnce ==
  ASSUME ListsInv, NEW l \in Lists, Whole(l),
         NEW j \in 1 .. Len(lists[l]), NEW k \in 1 .. Len(lists[l]), j < k, lists[l][j] = lists[l][k]
  PROVE  FALSE
<1> DEFINE n == Len(lists[l])
           p == SafeCommand!Pointer(l)
<1>1. lists[l] \in Seq(Entries) /\ n \in Nat /\ n <= MaxListLength
  BY DEF ListsInv
<1>2. p[n] \notin Entries
  BY SafeAssumption DEF Whole
<1>3. \A i \in 1 .. n : p[i - 1] \in Entries /\ lists[l][i] = p[i - 1]
  BY <1>1, ElementOfSeq DEF ListsInv
<1>4. p[j - 1] = p[k - 1]
  BY <1>3
<1> HIDE DEF n, p
<1>5. /\ j - 1 \in Nat /\ k - 1 \in Nat /\ j - 1 < k - 1
      /\ n - (k - 1) \in Nat /\ (k - 1) + (n - (k - 1)) = n /\ n <= MaxListLength + 1
  BY <1>1, CommandsAssumption DEF n
<1>6. p[(j - 1) + (n - (k - 1))] = p[(k - 1) + (n - (k - 1))]
  BY <1>4, <1>5, PointerRepeats DEF p
<1>7. (j - 1) + (n - (k - 1)) + 1 \in 1 .. n /\ ((j - 1) + (n - (k - 1)) + 1) - 1 = (j - 1) + (n - (k - 1))
  BY <1>1 DEF n
<1>8. p[(j - 1) + (n - (k - 1))] \in Entries
  BY <1>3, <1>7
<1> QED BY <1>2, <1>5, <1>6, <1>8

\* Whatever a Safe has stored, whichever request fails, and whatever the bound is:
\* safe shows both of its lists whole, in order, and with no entry twice, or it
\* fails for a cause that its error gives; and it reads no more than the bound.
THEOREM ListsAreWhole == Spec => []ListsOrCause
<1> DEFINE IInv == command = "safe" => ListsInv /\ FollowedInv /\ ErrorInv
<1>1. Init => IInv
  BY ListsInitially DEF Init
<1>2. IInv /\ [Next]_vars => IInv'
  BY ListsKept, OneCommand
<1>3. IInv => ListsOrCause
  <2> SUFFICES ASSUME ListsInv, FollowedInv, ErrorInv
               PROVE  SafeCommand!ReadsWholeLists /\ SafeCommand!ErrorSaysWhy
    BY DEF ListsOrCause
  <2>1. DOMAIN storage = Lists /\ DOMAIN lists = Lists
    BY SafeAssumption DEF ListsInv, Lists
  <2>2. \A l \in Lists : lists[l] \in Seq(Entries) /\ DOMAIN lists[l] = 1 .. Len(lists[l])
    BY LenProperties DEF ListsInv
  <2>3. SafeCommand!ReadsWholeLists
    <3> SUFFICES ASSUME SafeCommand!Done, settingsErr = "none", NEW l \in Lists
                 PROVE  /\ Whole(l)
                        /\ \A k \in 1 .. Len(lists[l]) : lists[l][k] = SafeCommand!Pointer(l)[k - 1]
                        /\ \A j, k \in 1 .. Len(lists[l]) : lists[l][j] = lists[l][k] => j = k
      BY <2>1, <2>2 DEF SafeCommand!ReadsWholeLists, Whole
    <3>1. slot > Place(l)
      BY ListSlots DEF Place
    <3>2. Whole(l)
      BY <3>1 DEF FollowedInv
    <3>3. \A j, k \in 1 .. Len(lists[l]) : lists[l][j] = lists[l][k] => ~(j < k) /\ ~(k < j)
      BY <3>2, WholeHasOnce
    <3>4. Len(lists[l]) \in Nat
      BY <2>2, LenProperties
    <3> QED BY <3>2, <3>3, <3>4 DEF ListsInv
  <2>4. SafeCommand!ErrorSaysWhy
    BY <2>1 DEF ListsInv, ErrorInv, SafeCommand!ErrorSaysWhy
  <2> QED BY <2>3, <2>4
<1> QED BY <1>1, <1>2, <1>3, PTL DEF Spec

-----------------------------------------------------------------------------
(* The calls that transactions make                                          *)

\* A sequence, by its length, and the elements that it has.
IsTuple(s) == OfLength(s, Len(s))

Has(s) == {s[k] : k \in DOMAIN s}

\* Two joined sequences have what each has.
LEMMA JoinedHas ==
  ASSUME NEW s, IsTuple(s), NEW r, IsTuple(r)
  PROVE  IsTuple(s \o r) /\ Has(s \o r) = Has(s) \cup Has(r)
<1> DEFINE m == Len(s)
           n == Len(r)
           q == s \o r
<1>1. OfLength(s, m) /\ OfLength(r, n)
  BY DEF IsTuple
<1>2. m \in Nat /\ n \in Nat /\ DOMAIN s = 1 .. m /\ DOMAIN r = 1 .. n
  BY <1>1, LengthOf
<1>3. Joins(q, s, m, r, n)
  BY <1>1, Joined
<1> HIDE DEF m, n, q
<1>4. /\ IsTuple(q) /\ DOMAIN q = 1 .. m + n
      /\ \A j \in 1 .. m : q[j] = s[j]
      /\ \A j \in 1 .. n : q[m + j] = r[j]
  BY <1>3 DEF Joins, IsTuple
<1>5. \A j \in 1 .. m + n : j \in 1 .. m \/ (j - m \in 1 .. n /\ m + (j - m) = j)
  BY <1>2
<1>6. \A j \in 1 .. n : m + j \in 1 .. m + n
  BY <1>2
<1>7. \A j \in 1 .. m : j \in 1 .. m + n
  BY <1>2
<1>8. ASSUME NEW j \in 1 .. m + n PROVE q[j] \in Has(s) \cup Has(r)
  <2>1. CASE j \in 1 .. m
    BY <1>2, <1>4, <2>1 DEF Has
  <2>2. CASE j - m \in 1 .. n /\ m + (j - m) = j
    <3>1. q[m + (j - m)] = r[j - m]
      BY <1>4, <2>2
    <3> QED BY <1>2, <2>2, <3>1 DEF Has
  <2> QED BY <1>5, <2>1, <2>2
<1>9. Has(s) \cup Has(r) \subseteq Has(q)
  BY <1>2, <1>4, <1>6, <1>7 DEF Has
<1> QED BY <1>4, <1>8, <1>9 DEF Has, q

\* The first n of the sequences s, joined, from the first n - 1 joined.
Flattens(q, s, n) == IF n = 1 THEN s[n] ELSE q[n - 1] \o s[n]

\* Some function joins the first n of s, for every n.
LEMMA FlattenFound ==
  ASSUME NEW s, NEW N \in Nat
  PROVE  \E q : q = [n \in 1 .. N |-> Flattens(q, s, n)]
<1> DEFINE S == {m \in Nat : \E q : q = [n \in 1 .. m |-> Flattens(q, s, n)]}
<1>1. 0 \in S
  <2> DEFINE q == [n \in 1 .. 0 |-> s]
  <2>1. q = [n \in 1 .. 0 |-> Flattens(q, s, n)]
    OBVIOUS
  <2> QED BY <2>1
<1>2. ASSUME NEW m \in S PROVE m + 1 \in S
  <2>1. PICK q : q = [n \in 1 .. m |-> Flattens(q, s, n)]
    OBVIOUS
  <2> DEFINE r == [n \in 1 .. m + 1 |-> IF n = m + 1 THEN Flattens(q, s, n) ELSE q[n]]
  <2>2. \A n \in 1 .. m : r[n] = q[n]
    OBVIOUS
  <2>3. \A n \in 1 .. m + 1 : Flattens(r, s, n) = Flattens(q, s, n)
    BY <2>2 DEF Flattens
  <2>4. \A n \in 1 .. m : q[n] = Flattens(q, s, n)
    BY <2>1
  <2>5. r = [n \in 1 .. m + 1 |-> Flattens(r, s, n)]
    BY <2>3, <2>4
  <2> HIDE DEF r
  <2>6. m + 1 \in Nat /\ \E f : f = [n \in 1 .. m + 1 |-> Flattens(f, s, n)]
    BY <2>5
  <2> QED BY <2>6
<1>3. S = Nat
  <2> HIDE DEF S
  <2>1. S \in SUBSET Nat
    BY DEF S
  <2> QED BY <1>1, <1>2, <2>1, AllNumbers
<1> QED BY <1>3

\* The joined sequence has what the sequences have.
LEMMA FlattenHas ==
  ASSUME NEW s, IsTuple(s), \A i \in DOMAIN s : IsTuple(s[i])
  PROVE  /\ IsTuple(FlattenSeq(s)) 
         /\ \A x : x \in Has(FlattenSeq(s)) <=> \E i \in DOMAIN s : x \in Has(s[i])
<1> DEFINE N == Len(s)
           P(q) == q = [n \in 1 .. N |-> Flattens(q, s, n)]
           f == CHOOSE q : P(q)
<1>1. N \in Nat /\ DOMAIN s = 1 .. N
  BY LengthOf DEF IsTuple
<1>2. FlattenSeq(s) = IF N = 0 THEN s ELSE f[N]
  BY DEF FlattenSeq, Flattens
<1>3. \E q : P(q)
  BY <1>1, FlattenFound
<1>4. P(f)
  <2> HIDE DEF P
  <2> QED BY <1>3
<1> HIDE DEF f
<1>5. \A n \in 1 .. N : f[n] = Flattens(f, s, n)
  BY <1>4
<1> HIDE DEF P
<1> DEFINE Upto(n) == IsTuple(f[n]) /\ \A x : x \in Has(f[n]) <=> \E i \in 1 .. n : x \in Has(s[i])
           S == {m \in Nat : m \in 1 .. N => Upto(m)}
<1> HIDE DEF N
<1>6. ASSUME NEW m \in S PROVE m + 1 \in S
  <2> SUFFICES ASSUME m + 1 \in 1 .. N PROVE Upto(m + 1)
    OBVIOUS
  <2>1. CASE m = 0
    <3>1. f[m + 1] = s[1] /\ 1 \in DOMAIN s
      BY <1>1, <1>5, <2>1 DEF Flattens
    <3>2. 1 .. m + 1 = {1}
      BY <2>1
    <3> QED BY <3>1, <3>2
  <2>2. CASE m # 0
    <3>1. m \in 1 .. N /\ m + 1 # 1 /\ (m + 1) - 1 = m /\ 1 .. m + 1 = (1 .. m) \cup {m + 1}
      BY <1>1, <2>2
    <3>2. Upto(m)
      BY <3>1
    <3>3. f[m + 1] = f[m] \o s[m + 1]
      BY <1>5, <3>1 DEF Flattens
    <3>4. IsTuple(s[m + 1])
      BY <1>1
    <3>5. IsTuple(f[m + 1]) /\ Has(f[m + 1]) = Has(f[m]) \cup Has(s[m + 1])
      BY <3>2, <3>3, <3>4, JoinedHas
    <3>6. ASSUME NEW x
          PROVE  (\E i \in 1 .. m + 1 : x \in Has(s[i])) <=> (\E i \in 1 .. m : x \in Has(s[i])) \/ x \in Has(s[m + 1])
      BY <3>1, Zenon
    <3> QED BY <3>2, <3>5, <3>6
  <2> QED BY <2>1, <2>2
<1>7. 0 \in S
  OBVIOUS
<1>8. S = Nat
  <2> HIDE DEF S
  <2>1. S \in SUBSET Nat
    BY DEF S
  <2> QED BY <1>6, <1>7, <2>1, AllNumbers
<1>9. CASE N = 0
  <2>1. FlattenSeq(s) = s /\ DOMAIN s = {}
    BY <1>1, <1>2, <1>9
  <2> QED BY <2>1 DEF Has
<1>10. CASE N # 0
  <2>1. N \in 1 .. N
    BY <1>1, <1>10
  <2>2. Upto(N)
    BY <1>1, <1>8, <2>1
  <2> QED BY <1>1, <1>2, <1>10, <2>2
<1> QED BY <1>9, <1>10

\* Safes that transactions are of.
Safes == {t.safe : t \in Txs \cup {r.tx : r \in Requests}}

\* A call that makes the calls of its transactions.
Batch(c) == IsMultiSend(c.to) /\ c.op = "delegatecall" /\ c.data.fn = "multiSend" /\ c.data.decodes

\* The call that a batch makes for its transaction i.
Sub(safe, c, i) == Batched(safe, MultiSends[c.to], Transactions(c.data)[i])

\* What the calls of a batch expand to, by q, and the batch with them.
Subs(q, safe, c) == [i \in DOMAIN Transactions(c.data) |-> q[Sub(safe, c, i)]]

Together(c, subs) ==
  IF \E i \in DOMAIN Transactions(c.data) :
       Invalid(MultiSends[c.to], Transactions(c.data)[i]) \/ subs[i].reverts
  THEN Reverts
  ELSE Makes(FlattenSeq([i \in DOMAIN subs |-> subs[i].calls]))

\* What calls expand to, where the calls in batches expand to q.
Expanded(q, safe, c) ==
  IF ~IsMultiSend(c.to) THEN Makes(<<c>>)
  ELSE IF RevertsAlways(c) THEN Reverts
  ELSE IF c.op # "delegatecall" \/ ~c.data.decodes THEN Makes(<<c>>)
  ELSE Together(c, Subs(q, safe, c))

\* What is packed in a batch nests less deep.
LEMMA SubNests ==
  ASSUME NEW safe \in Safes, NEW c \in Call, IsMultiSend(c.to), NEW i \in DOMAIN Transactions(c.data)
  PROVE  Sub(safe, c, i) \in Call /\ Nesting[Sub(safe, c, i)] < Nesting[c]
BY CallsAssumption DEF Safes, Sub

\* What a call expands to only depends on the calls in it.
LEMMA ExpandsAlike ==
  ASSUME NEW safe, NEW c, NEW q, NEW r,
         IsMultiSend(c.to) => \A i \in DOMAIN Transactions(c.data) : q[Sub(safe, c, i)] = r[Sub(safe, c, i)]
  PROVE  Expanded(q, safe, c) = Expanded(r, safe, c)
<1>1. CASE ~IsMultiSend(c.to)
  BY <1>1 DEF Expanded
<1>2. CASE IsMultiSend(c.to)
  <2>1. Subs(q, safe, c) = Subs(r, safe, c)
    BY <1>2 DEF Subs
  <2>2. Together(c, Subs(q, safe, c)) = Together(c, Subs(r, safe, c))
    BY <2>1
  <2> QED BY <2>2 DEF Expanded
<1> QED BY <1>1, <1>2

\* Some function is what every call expands to: of the calls that nest less deep
\* than m, for every m.
LEMMA ExpandFound ==
  ASSUME NEW safe \in Safes
  PROVE  \E q : q = [c \in Call |-> Expanded(q, safe, c)]
<1> DEFINE Below(m) == {c \in Call : Nesting[c] < m}
           S == {m \in Nat : \E q : q = [c \in Below(m) |-> Expanded(q, safe, c)]}
<1>1. DeepestBatch \in Nat /\ \A c \in Call : Nesting[c] \in 0 .. DeepestBatch
  BY CallsAssumption
<1>2. 0 \in S
  <2> DEFINE q == [c \in {} |-> safe]
  <2>1. Below(0) = {}
    BY <1>1
  <2>2. q = [c \in Below(0) |-> Expanded(q, safe, c)]
    BY <2>1
  <2> QED BY <2>2
<1>3. ASSUME NEW m \in S PROVE m + 1 \in S
  <2>1. PICK q : q = [c \in Below(m) |-> Expanded(q, safe, c)]
    OBVIOUS
  <2> DEFINE r == [c \in Below(m + 1) |-> Expanded(q, safe, c)]
  <2>2. \A c \in Below(m) : c \in Below(m + 1) /\ r[c] = q[c]
    <3> SUFFICES ASSUME NEW c \in Below(m) PROVE c \in Below(m + 1) /\ r[c] = q[c]
      OBVIOUS
    <3>1. q[c] = Expanded(q, safe, c)
      BY <2>1
    <3>2. c \in Below(m + 1)
      BY <1>1
    <3> QED BY <3>1, <3>2
  <2> HIDE DEF r
  <2>3. \A c \in Below(m + 1) : Expanded(q, safe, c) = Expanded(r, safe, c)
    <3> SUFFICES ASSUME NEW c \in Below(m + 1) PROVE Expanded(q, safe, c) = Expanded(r, safe, c)
      OBVIOUS
    <3>1. ASSUME IsMultiSend(c.to), NEW i \in DOMAIN Transactions(c.data)
          PROVE  q[Sub(safe, c, i)] = r[Sub(safe, c, i)]
      <4>1. Sub(safe, c, i) \in Call /\ Nesting[Sub(safe, c, i)] < Nesting[c]
        BY <3>1, SubNests
      <4>2. Sub(safe, c, i) \in Below(m)
        BY <1>1, <4>1
      <4> QED BY <2>2, <4>2
    <3> QED BY <3>1, ExpandsAlike
  <2>4. r = [c \in Below(m + 1) |-> Expanded(r, safe, c)]
    <3>1. r = [c \in Below(m + 1) |-> Expanded(q, safe, c)]
      BY DEF r
    <3> HIDE DEF Below
    <3> QED BY <2>3, <3>1, Zenon
  <2>5. \E f : f = [c \in Below(m + 1) |-> Expanded(f, safe, c)]
    <3> HIDE DEF Below
    <3> QED BY <2>4, Zenon
  <2>6. m + 1 \in Nat
    OBVIOUS
  <2> QED BY <2>5, <2>6
<1>4. S = Nat
  <2> HIDE DEF S
  <2>1. S \in SUBSET Nat
    BY DEF S
  <2> QED BY <1>2, <1>3, <2>1, AllNumbers
<1>5. DeepestBatch + 1 \in S
  <2> HIDE DEF S
  <2> QED BY <1>1, <1>4
<1>6. Below(DeepestBatch + 1) = Call
  BY <1>1
<1> HIDE DEF Below
<1> QED BY <1>5, <1>6

\* What calls expand to, as a function.
Expand(safe) == [c \in Call |-> ExpandMultiSendCall(safe, c)]

\* A call expands to what its definition says, of what the calls in it expand to.
LEMMA ExpandUnfolds ==
  ASSUME NEW safe \in Safes, NEW c \in Call
  PROVE  ExpandMultiSendCall(safe, c) = Expanded(Expand(safe), safe, c)
<1> DEFINE P(q) == q = [d \in Call |-> Expanded(q, safe, d)]
           f == CHOOSE q : P(q)
<1>1. \A d : ExpandMultiSendCall(safe, d) = f[d]
  BY Zenon DEF ExpandMultiSendCall, Expanded, Together, Subs, Sub
<1>2. P(f)
  <2>1. \E q : P(q)
    BY ExpandFound
  <2> HIDE DEF P
  <2> QED BY <2>1
<1>3. f[c] = Expanded(f, safe, c)
  BY <1>2
<1> HIDE DEF f, P
<1>4. \A d \in Call : Expand(safe)[d] = f[d]
  BY <1>1 DEF Expand
<1>5. Expanded(f, safe, c) = Expanded(Expand(safe), safe, c)
  <2>1. ASSUME IsMultiSend(c.to), NEW i \in DOMAIN Transactions(c.data)
        PROVE  f[Sub(safe, c, i)] = Expand(safe)[Sub(safe, c, i)]
    BY <1>4, <2>1, SubNests
  <2> QED BY <2>1, ExpandsAlike
<1> QED BY <1>1, <1>3, <1>5

\* A call that isn't a batch is left as it is, or reverts.
LEMMA ExpandOther ==
  ASSUME NEW safe \in Safes, NEW c \in Call, ~Batch(c)
  PROVE  ExpandMultiSendCall(safe, c) =
           IF IsMultiSend(c.to) /\ RevertsAlways(c) THEN Reverts ELSE Makes(<<c>>)
<1>1. ExpandMultiSendCall(safe, c) = Expanded(Expand(safe), safe, c)
  BY ExpandUnfolds
<1>2. Expanded(Expand(safe), safe, c) =
        IF IsMultiSend(c.to) /\ RevertsAlways(c) THEN Reverts ELSE Makes(<<c>>)
  BY DEF Expanded, RevertsAlways, Batch
<1> QED BY <1>1, <1>2

\* A batch reverts if one of its calls can't run, and makes the calls of all otherwise.
LEMMA ExpandBatch ==
  ASSUME NEW safe \in Safes, NEW c \in Call, Batch(c)
  PROVE  ExpandMultiSendCall(safe, c) =
           IF \E i \in DOMAIN Transactions(c.data) :
                \/ Invalid(MultiSends[c.to], Transactions(c.data)[i])
                \/ ExpandMultiSendCall(safe, Sub(safe, c, i)).reverts
           THEN Reverts
           ELSE Makes(FlattenSeq([i \in DOMAIN Transactions(c.data) |->
                                    ExpandMultiSendCall(safe, Sub(safe, c, i)).calls]))
<1> DEFINE I == DOMAIN Transactions(c.data)
           subs == Subs(Expand(safe), safe, c)
<1>1. subs = [i \in I |-> ExpandMultiSendCall(safe, Sub(safe, c, i))]
  <2>1. \A i \in I : Sub(safe, c, i) \in Call
    BY SubNests DEF Batch
  <2>2. \A i \in I : Expand(safe)[Sub(safe, c, i)] = ExpandMultiSendCall(safe, Sub(safe, c, i))
    BY <2>1 DEF Expand
  <2> QED BY <2>2 DEF Subs
<1>2. Together(c, subs) = IF \E i \in I : \/ Invalid(MultiSends[c.to], Transactions(c.data)[i])
                                          \/ ExpandMultiSendCall(safe, Sub(safe, c, i)).reverts
                          THEN Reverts
                          ELSE Makes(FlattenSeq([i \in I |-> ExpandMultiSendCall(safe, Sub(safe, c, i)).calls]))
  <2>1. DOMAIN subs = I /\ \A i \in I : subs[i] = ExpandMultiSendCall(safe, Sub(safe, c, i))
    BY <1>1
  <2>2. [i \in DOMAIN subs |-> subs[i].calls] = [i \in I |-> ExpandMultiSendCall(safe, Sub(safe, c, i)).calls]
    BY <2>1
  <2> HIDE DEF subs
  <2> QED BY <2>1, <2>2 DEF Together
<1>3. ExpandMultiSendCall(safe, c) = Expanded(Expand(safe), safe, c)
  BY ExpandUnfolds
<1>4. Expanded(Expand(safe), safe, c) = Together(c, subs)
  BY DEF Expanded, RevertsAlways, Batch
<1> HIDE DEF subs
<1> QED BY <1>2, <1>3, <1>4

\* The transactions of a call are packed in a sequence.
LEMMA TransactionsTuple ==
  ASSUME NEW c \in Call
  PROVE  IsTuple(Transactions(c.data))
<1> DEFINE packed == c.data.txs
           T == ToSet(packed)
           n == Len(packed)
<1>1. packed \in Seq(T)
  BY CallsAssumption
<1> HIDE DEF packed, T
<1>2. ASSUME NEW s \in Seq(T) PROVE IsTuple(s)
  <2>1. Len(s) \in Nat /\ s \in [1 .. Len(s) -> T]
    BY LenProperties
  <2> QED BY <2>1 DEF IsTuple, OfLength
<1>3. Front(packed) \in Seq(T)
  <2>1. n \in Nat /\ \A i \in 1 .. n - 1 : packed[i] \in T
    BY <1>1, ElementOfSeq, LenProperties
  <2> HIDE DEF n
  <2>2. SubSeq(packed, 1, n - 1) \in Seq(T)
    BY <2>1, SubSeqProperties
  <2> QED BY <2>2 DEF Front, n
<1>4. Transactions(c.data) \in Seq(T)
  BY <1>1, <1>3 DEF Transactions, packed
<1> QED BY <1>2, <1>4

\* What a call expands to: itself, or calls of batches in it.
Expands(safe, c) ==
  LET e == ExpandMultiSendCall(safe, c)
  IN /\ e.reverts \in BOOLEAN
     /\ e.reverts => e.calls = <<>>
     /\ IsTuple(e.calls)
     /\ \A x \in Has(e.calls) : x \in Call /\ (x = c \/ x.kind = "batched")

\* What a call expands to are calls, by how deep it nests.
LEMMA ExpandsCalls ==
  ASSUME NEW safe \in Safes
  PROVE  \A c \in Call : Expands(safe, c)
<1> DEFINE S == {m \in Nat : \A c \in Call : Nesting[c] < m => Expands(safe, c)}
<1>1. DeepestBatch \in Nat /\ \A c \in Call : Nesting[c] \in 0 .. DeepestBatch
  BY CallsAssumption
<1>2. IsTuple(<<>>) /\ Has(<<>>) = {}
  BY DEF IsTuple, OfLength, Has
<1>3. 0 \in S
  BY <1>1
<1>4. ASSUME NEW m \in S PROVE m + 1 \in S
  <2> SUFFICES ASSUME NEW c \in Call, Nesting[c] < m + 1 PROVE Expands(safe, c)
    OBVIOUS
  <2>1. CASE ExpandMultiSendCall(safe, c) = Reverts
    BY <1>2, <2>1 DEF Expands, Reverts
  <2>2. CASE ExpandMultiSendCall(safe, c) = Makes(<<c>>)
    <3>1. IsTuple(<<c>>) /\ Has(<<c>>) = {c}
      BY DEF IsTuple, OfLength, Has
    <3> QED BY <2>2, <3>1 DEF Expands, Makes
  <2>3. CASE Batch(c) /\ ExpandMultiSendCall(safe, c) # Reverts
    <3> DEFINE I == DOMAIN Transactions(c.data)
               e(i) == ExpandMultiSendCall(safe, Sub(safe, c, i))
               s == [i \in I |-> e(i).calls]
    <3>1. \A i \in I : Expands(safe, Sub(safe, c, i)) /\ Sub(safe, c, i).kind = "batched"
      <4> SUFFICES ASSUME NEW i \in I PROVE Expands(safe, Sub(safe, c, i)) /\ Sub(safe, c, i).kind = "batched"
        OBVIOUS
      <4>1. Sub(safe, c, i) \in Call /\ Nesting[Sub(safe, c, i)] < Nesting[c]
        BY <2>3, SubNests DEF Batch
      <4>2. Nesting[Sub(safe, c, i)] < m
        BY <1>1, <4>1
      <4> QED BY <4>1, <4>2 DEF Sub, Batched
    <3>2. ExpandMultiSendCall(safe, c) = Makes(FlattenSeq(s))
      BY <2>3, ExpandBatch
    <3>3. I = 1 .. Len(Transactions(c.data)) /\ Len(Transactions(c.data)) \in Nat
      BY TransactionsTuple, LengthOf DEF IsTuple
    <3> HIDE DEF I, e
    <3>4. IsTuple(s) /\ DOMAIN s = I
      <4>1. OfLength(s, Len(Transactions(c.data)))
        BY <3>3 DEF OfLength
      <4> QED BY <3>3, <4>1, LengthOf DEF IsTuple
    <3>5. \A i \in I : /\ IsTuple(s[i])
                       /\ \A x \in Has(s[i]) : x \in Call /\ x.kind = "batched"
      BY <3>1 DEF Expands, e
    <3> HIDE DEF s
    <3>6. /\ IsTuple(FlattenSeq(s))
          /\ \A x \in Has(FlattenSeq(s)) : x \in Call /\ x.kind = "batched"
      BY <3>4, <3>5, FlattenHas
    <3> QED BY <3>2, <3>6 DEF Expands, Makes
  <2> QED BY <2>1, <2>2, <2>3, ExpandOther
<1>5. S = Nat
  <2> HIDE DEF S
  <2>1. S \in SUBSET Nat
    BY DEF S
  <2> QED BY <1>3, <1>4, <2>1, AllNumbers
<1>6. DeepestBatch + 1 \in S /\ \A c \in Call : Nesting[c] < DeepestBatch + 1
  <2> HIDE DEF S
  <2> QED BY <1>1, <1>5
<1> QED BY <1>6

-----------------------------------------------------------------------------
(* calls                                                                     *)

\* A module that decodes calls has the definitions of SafeCalls as its own.
LEMMA ReadersCalls ==
  /\ \A safe, c : CallsCommand!ExpandMultiSendCall(safe, c) = ExpandMultiSendCall(safe, c)
  /\ \A t : CallsCommand!Components(t) = Components(t)
  /\ \A t : CallsCommand!OwnCall(t) = OwnCall(t)
  /\ \A to : CallsCommand!RevertingMultiSend(to) = RevertingMultiSend(to)
  /\ \A to : CallsCommand!EmptyMultiSend(to) = EmptyMultiSend(to)
<1>1. \A to : CallsCommand!RevertingMultiSend(to) = RevertingMultiSend(to)
  BY Zenon DEF CallsCommand!RevertingMultiSend, RevertingMultiSend, CallsCommand!NoData, NoData
<1>2. \A to : CallsCommand!EmptyMultiSend(to) = EmptyMultiSend(to)
  BY Zenon DEF CallsCommand!EmptyMultiSend, EmptyMultiSend, CallsCommand!Data, Data,
               CallsCommand!NoData, NoData
<1>3. \A t : CallsCommand!OwnCall(t) = OwnCall(t)
  BY Zenon DEF CallsCommand!OwnCall, OwnCall
<1>4. \A safe, c : CallsCommand!ExpandMultiSendCall(safe, c) = ExpandMultiSendCall(safe, c)
  BY Zenon DEF CallsCommand!ExpandMultiSendCall, ExpandMultiSendCall,
               CallsCommand!IsMultiSend, IsMultiSend, CallsCommand!MultiSends, MultiSends,
               CallsCommand!RevertsAlways, RevertsAlways, CallsCommand!Makes, Makes,
               CallsCommand!Reverts, Reverts, CallsCommand!Transactions, Transactions,
               CallsCommand!Batched, Batched, CallsCommand!Padded, Padded,
               CallsCommand!Invalid, Invalid, CallsCommand!NoData, NoData, 
               CallsCommand!FlattenSeq, FlattenSeq, CallsCommand!Last, Last, CallsCommand!Front, Front
<1>5. \A t : CallsCommand!GasRefund(t) = GasRefund(t)
  BY Zenon DEF CallsCommand!GasRefund, GasRefund, CallsCommand!RefundAmount, RefundAmount,
               CallsCommand!Data, Data, CallsCommand!NoData, NoData
<1>6. \A t : CallsCommand!ExpandTransactionCalls(t) = ExpandTransactionCalls(t)
  BY <1>1, <1>2, <1>3, <1>4 DEF CallsCommand!ExpandTransactionCalls, ExpandTransactionCalls
<1>7. \A t : CallsCommand!Components(t) = Components(t)
  BY <1>5, <1>6 DEF CallsCommand!Components, Components
<1> QED BY <1>1, <1>2, <1>3, <1>4, <1>7

\* The transactions of all requests.
Transacted == Txs \cup {r.tx : r \in Requests}

\* The calls of a transaction are the one that it makes itself, those of batches,
\* one in place of none, and the refund.
LEMMA ComponentsHave ==
  ASSUME NEW t \in Transacted
  PROVE  /\ IsTuple(Components(t))
         /\ \A x \in Has(Components(t)) :
              \/ x \in Call /\ (x = OwnCall(t) \/ x.kind = "batched")
              \/ x = RevertingMultiSend(t.to) /\ ExpandMultiSendCall(t.safe, OwnCall(t)).calls = <<>>
              \/ x = EmptyMultiSend(t.to) /\ ExpandMultiSendCall(t.safe, OwnCall(t)).calls = <<>>
              \/ x = GasRefund(t)
<1> DEFINE e == ExpandMultiSendCall(t.safe, OwnCall(t))
<1>1. t.safe \in Safes /\ OwnCall(t) \in Call
  BY CallsAssumption DEF Transacted, Safes
<1>2. Expands(t.safe, OwnCall(t))
  BY <1>1, ExpandsCalls
<1>3. \A x : IsTuple(<<x>>) /\ Has(<<x>>) = {x}
  BY DEF IsTuple, OfLength, Has
<1>4. /\ IsTuple(ExpandTransactionCalls(t))
      /\ \A x \in Has(ExpandTransactionCalls(t)) :
              \/ x \in Call /\ (x = OwnCall(t) \/ x.kind = "batched")
              \/ x = RevertingMultiSend(t.to) /\ e.calls = <<>>
              \/ x = EmptyMultiSend(t.to) /\ e.calls = <<>>
  BY <1>2, <1>3 DEF Expands, ExpandTransactionCalls
<1>5. IsTuple(<<>>) /\ Has(<<>>) = {}
  BY DEF IsTuple, OfLength, Has
<1>6. CASE t.gasPrice = 0
  <2>1. Components(t) = ExpandTransactionCalls(t) \o <<>>
    BY <1>6 DEF Components
  <2>2. IsTuple(Components(t)) /\ Has(Components(t)) = Has(ExpandTransactionCalls(t)) \cup {}
    BY <1>4, <1>5, <2>1, JoinedHas
  <2> HIDE DEF e
  <2> QED BY <1>4, <2>2 DEF e
<1>7. CASE t.gasPrice # 0
  <2>1. Components(t) = ExpandTransactionCalls(t) \o <<GasRefund(t)>>
    BY <1>7 DEF Components
  <2>2. IsTuple(Components(t)) /\ Has(Components(t)) = Has(ExpandTransactionCalls(t)) \cup {GasRefund(t)}
    BY <1>3, <1>4, <2>1, JoinedHas
  <2> HIDE DEF e
  <2> QED BY <1>4, <2>2 DEF e
<1> QED BY <1>6, <1>7

\* Accounts that a report of t is of.
Targets(t) == {Safe, t.to} \cup {x.to : x \in Has(Components(t))}

\* What a report of t has.
Reports(t) ==
  [target |-> t.to,
   calls |-> [k \in DOMAIN Components(t) |-> CallsCommand!Reported(t, Components(t)[k])]]

\* What is read, or left to read, is what the report needs, and the Safe's account
\* is kept if its storage was read.
ReaderInv ==
  /\ safeTx \in Txs /\ IsTuple(toRead)
  /\ reads = [a \in codes |-> 1]
  /\ status \in {"idle", "reading", "error"}
  /\ status = "idle" /\ safeRead => Safe \in codes
  /\ status = "reading" =>
       /\ report = CallsCommand!NoReport /\ safeTx.safe = Safe
       /\ Targets(safeTx) \subseteq codes \cup Has(toRead)
       /\ safeRead \/ "slot 0" \in Has(toRead)
  /\ report # CallsCommand!NoReport =>
       /\ report = Reports(safeTx) /\ safeTx.safe = Safe
       /\ Targets(safeTx) \subseteq codes /\ safeRead

\* Nothing is read or reported at first.
LEMMA ReaderInitially == CallsCommand!Init => ReaderInv
<1>1. IsTuple(<<>>)
  BY DEF IsTuple, OfLength
<1> QED BY <1>1 DEF CallsCommand!Init, ReaderInv

\* A request for a report puts what it needs in the list.
LEMMA CallsKeeps ==
  ASSUME ReaderInv, CallsCommand!Calls
  PROVE  ReaderInv'
<1>1. PICK t \in Txs :
        /\ safeTx' = t /\ report' = CallsCommand!NoReport
        /\ IF t.missing \/ t.safe # Safe \/ t.chain # Chain
           THEN status' = "error" /\ UNCHANGED toRead
           ELSE /\ status' = "reading"
                /\ toRead' = (IF safeRead THEN <<>> ELSE <<Safe, "slot 0">>) \o <<t.to>>
                             \o [k \in DOMAIN Components(t) |-> Components(t)[k].to]
  BY ReadersCalls DEF CallsCommand!Calls
<1>2. status = "idle" /\ UNCHANGED <<codes, safeRead, reads>>
  BY DEF CallsCommand!Calls
<1>3. CASE t.missing \/ t.safe # Safe \/ t.chain # Chain
  BY <1>1, <1>2, <1>3 DEF ReaderInv
<1>4. CASE ~(t.missing \/ t.safe # Safe \/ t.chain # Chain)
  <2> DEFINE C == Components(t)
             first == IF safeRead THEN <<>> ELSE <<Safe, "slot 0">>
             last == [k \in DOMAIN C |-> C[k].to]
  <2>1. IsTuple(C) /\ DOMAIN C = 1 .. Len(C) /\ Len(C) \in Nat
    BY ComponentsHave, LengthOf DEF IsTuple, Transacted
  <2> HIDE DEF C
  <2>2. IsTuple(last) /\ Has(last) = {x.to : x \in Has(C)}
    <3>1. OfLength(last, Len(C))
      BY <2>1 DEF OfLength
    <3>2. IsTuple(last)
      BY <3>1, LengthOf DEF IsTuple
    <3> QED BY <3>2 DEF Has
  <2>3. IsTuple(first) /\ Has(first) = IF safeRead THEN {} ELSE {Safe, "slot 0"}
    <3>1. IsTuple(<<>>) /\ Has(<<>>) = {}
      BY DEF IsTuple, OfLength, Has
    <3>2. OfLength(<<Safe, "slot 0">>, 2)
      BY DEF OfLength
    <3>3. IsTuple(<<Safe, "slot 0">>) /\ Has(<<Safe, "slot 0">>) = {Safe, "slot 0"}
      <4> DEFINE p == <<Safe, "slot 0">>
      <4>1. DOMAIN p = {1, 2} /\ Len(p) = 2 /\ p[1] = Safe /\ p[2] = "slot 0"
        BY TupleHas
      <4>2. OfLength(p, 2)
        BY <3>2
      <4> HIDE DEF p
      <4>3. IsTuple(p)
        BY <4>1, <4>2 DEF IsTuple
      <4>4. {p[k] : k \in {1, 2}} = {p[1], p[2]}
        OBVIOUS
      <4>5. Has(p) = {Safe, "slot 0"}
        BY <4>1, <4>4 DEF Has
      <4> QED BY <4>3, <4>5 DEF p
    <3> QED BY <3>1, <3>3
  <2>4. IsTuple(<<t.to>>) /\ Has(<<t.to>>) = {t.to}
    BY DEF IsTuple, OfLength, Has
  <2>5. toRead' = (first \o <<t.to>>) \o last
    BY <1>1, <1>4 DEF C
  <2> HIDE DEF first, last
  <2>6. IsTuple(first \o <<t.to>>) /\ Has(first \o <<t.to>>) = Has(first) \cup {t.to}
    BY <2>3, <2>4, JoinedHas
  <2>7. /\ IsTuple(toRead')
        /\ Has(toRead') = (Has(first) \cup {t.to}) \cup {x.to : x \in Has(C)}
    BY <2>2, <2>5, <2>6, JoinedHas
  <2>8. Targets(t) \subseteq codes \cup Has(toRead')
    BY <1>2, <2>3, <2>7 DEF Targets, C, ReaderInv
  <2>9. safeRead \/ "slot 0" \in Has(toRead')
    BY <2>3, <2>7
  <2> QED BY <1>1, <1>2, <1>4, <2>7, <2>8, <2>9 DEF ReaderInv
<1> QED BY <1>3, <1>4

\* What is left when the first was taken.
LEMMA TailHas ==
  ASSUME NEW s, IsTuple(s), s # <<>>
  PROVE  IsTuple(Tail(s)) /\ Has(s) = {Head(s)} \cup Has(Tail(s))
<1> DEFINE n == Len(s)
           T == Has(s)
<1>1. n \in Nat /\ DOMAIN s = 1 .. n /\ s = [k \in 1 .. n |-> s[k]]
  BY LengthOf DEF IsTuple, OfLength
<1>2. s \in [1 .. n -> T]
  BY <1>1 DEF Has
<1> HIDE DEF T
<1>3. s \in Seq(T)
  BY <1>1, <1>2
<1>4. /\ Head(s) = s[1] /\ Tail(s) \in Seq(T) /\ Len(Tail(s)) = n - 1
      /\ \A i \in 1 .. n - 1 : Tail(s)[i] = s[i + 1]
  BY <1>3, HeadTailProperties
<1>5. n # 0
  BY <1>3, EmptySeq
<1> HIDE DEF n
<1>6. DOMAIN Tail(s) = 1 .. n - 1 /\ IsTuple(Tail(s))
  <2>1. Tail(s) \in [1 .. n - 1 -> T]
    BY <1>1, <1>4, LenProperties
  <2> QED BY <1>1, <1>4, <1>5, <2>1 DEF IsTuple, OfLength
<1>7. \A k \in 1 .. n : k = 1 \/ (k - 1 \in 1 .. n - 1 /\ (k - 1) + 1 = k)
  BY <1>1
<1>8. 1 \in 1 .. n /\ \A k \in 1 .. n - 1 : k + 1 \in 1 .. n
  BY <1>1, <1>5
<1>9. ASSUME NEW k \in 1 .. n PROVE s[k] \in {Head(s)} \cup Has(Tail(s))
  <2>1. CASE k = 1
    BY <1>4, <2>1
  <2>2. CASE k - 1 \in 1 .. n - 1 /\ (k - 1) + 1 = k
    <3>1. Tail(s)[k - 1] = s[(k - 1) + 1]
      BY <1>4, <2>2
    <3> QED BY <1>6, <2>2, <3>1 DEF Has
  <2> QED BY <1>7, <2>1, <2>2
<1>10. Head(s) \in Has(s) /\ \A k \in 1 .. n - 1 : Tail(s)[k] \in Has(s)
  BY <1>1, <1>4, <1>8 DEF Has
<1> QED BY <1>1, <1>6, <1>9, <1>10 DEF Has

\* An account isn't named like the slot of the Safe's storage.
LEMMA TargetsAddresses ==
  ASSUME NEW t \in Txs, t.safe = Safe
  PROVE  "slot 0" \notin Targets(t)
<1>1. /\ "slot 0" \notin {c.to : c \in Call}
      /\ "slot 0" \notin {t.safe, t.gasToken, t.refundReceiver} /\ OwnCall(t) \in Call
  BY CallsAssumption
<1>2. "slot 0" # Safe /\ "slot 0" # t.to
  <2>1. OwnCall(t).to = t.to
    BY DEF OwnCall
  <2> QED BY <1>1, <2>1
<1>3. "slot 0" # GasRefund(t).to
  BY <1>1 DEF GasRefund
<1>4. RevertingMultiSend(t.to).to = t.to /\ EmptyMultiSend(t.to).to = t.to
  BY DEF RevertingMultiSend, EmptyMultiSend
<1>5. ASSUME NEW x \in Has(Components(t)) PROVE x.to # "slot 0"
  BY <1>1, <1>2, <1>3, <1>4, ComponentsHave DEF Transacted
<1> QED BY <1>2, <1>5 DEF Targets

\* What is taken from the list was read, or the report fails.
LEMMA ReadAccountKeeps ==
  ASSUME ReaderInv, CallsCommand!ReadAccount
  PROVE  ReaderInv'
<1> DEFINE a == Head(toRead)
<1>1. /\ status = "reading" /\ toRead # <<>> /\ toRead' = Tail(toRead)
      /\ UNCHANGED <<safeTx, report, status>> /\ IsTuple(toRead)
  BY DEF CallsCommand!ReadAccount, ReaderInv
<1>2. IsTuple(toRead') /\ Has(toRead) = {a} \cup Has(toRead')
  BY <1>1, TailHas
<1>3. /\ report = CallsCommand!NoReport /\ safeTx.safe = Safe /\ safeTx \in Txs
      /\ Targets(safeTx) \subseteq codes \cup Has(toRead)
      /\ safeRead \/ "slot 0" \in Has(toRead)
  BY <1>1 DEF ReaderInv
<1>4. IF a = "slot 0" THEN safeRead' = TRUE /\ UNCHANGED <<codes, reads>>
      ELSE /\ UNCHANGED safeRead
           /\ IF a \in codes THEN UNCHANGED <<codes, reads>>
              ELSE codes' = codes \cup {a} /\ reads' = CallsCommand!Count(a)
  BY DEF CallsCommand!ReadAccount, CallsCommand!Known
<1> HIDE DEF a
<1>5. reads' = [b \in codes' |-> 1]
  <2>1. reads = [b \in codes |-> 1]
    BY DEF ReaderInv
  <2>2. CASE codes' = codes \cup {a} /\ reads' = CallsCommand!Count(a) /\ a \notin codes
    <3>1. DOMAIN reads = codes /\ \A b \in codes : reads[b] = 1
      BY <2>1
    <3>2. reads' = [b \in codes \cup {a} |-> (IF b \in codes THEN reads[b] ELSE 0) + (IF b = a THEN 1 ELSE 0)]
      BY <2>2, <3>1 DEF CallsCommand!Count
    <3>3. \A b \in codes \cup {a} : (IF b \in codes THEN reads[b] ELSE 0) + (IF b = a THEN 1 ELSE 0) = 1
      BY <2>2, <3>1
    <3> QED BY <2>2, <3>2, <3>3
  <2>3. CASE UNCHANGED <<codes, reads>>
    BY <2>1, <2>3
  <2> QED BY <1>4, <2>2, <2>3
<1>6. Targets(safeTx) \subseteq codes' \cup Has(toRead')
  <2>1. "slot 0" \notin Targets(safeTx)
    BY <1>3, TargetsAddresses
  <2>2. a # "slot 0" => a \in codes'
    BY <1>4
  <2>3. codes \subseteq codes'
    BY <1>4
  <2> QED BY <1>2, <1>3, <2>1, <2>2, <2>3
<1>7. safeRead' \/ "slot 0" \in Has(toRead')
  BY <1>2, <1>3, <1>4
<1> QED BY <1>1, <1>2, <1>3, <1>5, <1>6, <1>7 DEF ReaderInv

\* A report is made when the list is empty, so all it needs was read.
LEMMA ReportKeeps ==
  ASSUME ReaderInv, CallsCommand!Report
  PROVE  ReaderInv'
<1>1. /\ status = "reading" /\ toRead = <<>> /\ status' = "idle"
      /\ UNCHANGED <<safeTx, toRead, codes, safeRead, reads>>
      /\ report' = Reports(safeTx)
  BY ReadersCalls DEF CallsCommand!Report, Reports
<1>2. Has(toRead) = {}
  BY <1>1 DEF Has
<1>3. Targets(safeTx) \subseteq codes /\ safeRead /\ safeTx.safe = Safe
  BY <1>1, <1>2 DEF ReaderInv
<1>4. Safe \in codes
  BY <1>3 DEF Targets
<1> QED BY <1>1, <1>3, <1>4 DEF ReaderInv

\* Every step of calls keeps what its report rests on.
LEMMA ReaderKept ==
  ASSUME ReaderInv, CallsCommand!Next \/ UNCHANGED callsVars
  PROVE  ReaderInv'
<1>1. CASE CallsCommand!ReadFails
  BY <1>1 DEF CallsCommand!ReadFails, ReaderInv
<1>2. CASE UNCHANGED callsVars
  BY <1>2 DEF callsVars, ReaderInv
<1> QED BY <1>1, <1>2, CallsKeeps, ReadAccountKeeps, ReportKeeps DEF CallsCommand!Next

\* A call stands for the transaction's own if it is there in place of none.
LEMMA PlaceholdersStand ==
  ASSUME NEW t \in Txs, NEW x \in Has(Components(t))
  PROVE  CallsCommand!Placeholder(t, x) # "" <=>
           /\ x.kind = "root"
           /\ ExpandMultiSendCall(t.safe, OwnCall(t)).calls = <<>>
           /\ x # OwnCall(t)
<1> DEFINE e == ExpandMultiSendCall(t.safe, OwnCall(t))
<1>1. \/ x = OwnCall(t) \/ x.kind = "batched" \/ x = GasRefund(t)
      \/ x \in {RevertingMultiSend(t.to), EmptyMultiSend(t.to)} /\ e.calls = <<>>
  BY ComponentsHave DEF Transacted
<1>2. GasRefund(t).kind = "refund"
  BY DEF GasRefund
<1>3. \A y \in {RevertingMultiSend(t.to), EmptyMultiSend(t.to)} :
        y.kind = "root" /\ (y = RevertingMultiSend(y.to) \/ y = EmptyMultiSend(y.to))
  BY DEF RevertingMultiSend, EmptyMultiSend
<1>4. CallsCommand!Placeholder(t, x) # "" <=>
        x.kind = "root" /\ x # OwnCall(t) /\ (x = RevertingMultiSend(x.to) \/ x = EmptyMultiSend(x.to))
  BY ReadersCalls DEF CallsCommand!Placeholder
<1> HIDE DEF e
<1>5. CASE x = OwnCall(t) \/ x.kind = "batched" \/ x = GasRefund(t)
  <2>1. x.kind # "root" \/ x = OwnCall(t)
    BY <1>2, <1>5
  <2> QED BY <1>4, <2>1
<1>6. CASE x \in {RevertingMultiSend(t.to), EmptyMultiSend(t.to)} /\ e.calls = <<>>
  BY <1>3, <1>4, <1>6 DEF e
<1> QED BY <1>1, <1>5, <1>6

\* Whichever transactions a reader is asked about: it reads the code of each account
\* once, reports only accounts that it read, and labels as placeholders the calls
\* that stand for a transaction's own and aren't it, however deep its batches nest.
THEOREM ReaderReportsReads == Spec => []ReportsWhatItRead
<1> DEFINE IInv == command = "calls" => ReaderInv
<1>1. Init => IInv
  BY ReaderInitially DEF Init
<1>2. IInv /\ [Next]_vars => IInv'
  BY ReaderKept, OneCommand
<1>3. IInv => ReportsWhatItRead
  <2> SUFFICES ASSUME ReaderInv PROVE CallsCommand!ReportsWhatItRead
    BY DEF ReportsWhatItRead
  <2>1. \A a \in DOMAIN reads : reads[a] = 1
    BY DEF ReaderInv
  <2>2. ASSUME report # CallsCommand!NoReport
        PROVE  /\ {report.target, Safe} \cup {report.calls[k].to.address : k \in DOMAIN report.calls} \subseteq codes
               /\ safeRead
               /\ \A k \in DOMAIN report.calls :
                    (report.calls[k].placeholder # "") <=>
                       /\ report.calls[k].kind = "root"
                       /\ ExpandMultiSendCall(safeTx.safe, OwnCall(safeTx)).calls = <<>>
                       /\ Components(safeTx)[k] # OwnCall(safeTx)
    <3> DEFINE C == Components(safeTx)
    <3>1. /\ report = Reports(safeTx) /\ Targets(safeTx) \subseteq codes /\ safeRead
          /\ safeTx \in Txs
      BY <2>2 DEF ReaderInv
    <3>2. /\ report.target = safeTx.to /\ DOMAIN report.calls = DOMAIN C
          /\ \A k \in DOMAIN C : report.calls[k] = CallsCommand!Reported(safeTx, C[k])
      BY <3>1 DEF Reports
    <3>3. \A x : /\ CallsCommand!Reported(safeTx, x).to.address = x.to
                 /\ CallsCommand!Reported(safeTx, x).kind = x.kind
                 /\ CallsCommand!Reported(safeTx, x).placeholder = CallsCommand!Placeholder(safeTx, x)
      BY DEF CallsCommand!Reported, CallsCommand!Account
    <3>4. \A k \in DOMAIN C : C[k] \in Has(C)
      BY DEF Has
    <3>5. \A x \in Has(C) : x.to \in Targets(safeTx)
      BY DEF Targets
    <3>6. safeTx.to \in Targets(safeTx) /\ Safe \in Targets(safeTx)
      BY DEF Targets
    <3>7. \A x \in Has(C) : CallsCommand!Placeholder(safeTx, x) # "" <=>
                              /\ x.kind = "root"
                              /\ ExpandMultiSendCall(safeTx.safe, OwnCall(safeTx)).calls = <<>>
                              /\ x # OwnCall(safeTx)
      BY <3>1, PlaceholdersStand
    <3> HIDE DEF C
    <3>8. \A k \in DOMAIN C : report.calls[k].to.address \in codes
      BY <3>1, <3>2, <3>3, <3>4, <3>5
    <3>9. \A k \in DOMAIN C : (report.calls[k].placeholder # "") <=>
                                 /\ report.calls[k].kind = "root"
                                 /\ ExpandMultiSendCall(safeTx.safe, OwnCall(safeTx)).calls = <<>>
                                 /\ C[k] # OwnCall(safeTx)
      <4> SUFFICES ASSUME NEW k \in DOMAIN C
                   PROVE  CallsCommand!Placeholder(safeTx, C[k]) # "" <=>
                            /\ C[k].kind = "root"
                            /\ ExpandMultiSendCall(safeTx.safe, OwnCall(safeTx)).calls = <<>>
                            /\ C[k] # OwnCall(safeTx)
        BY <3>2, <3>3, Zenon
      <4> QED BY <3>4, <3>7
    <3> QED BY <3>1, <3>2, <3>6, <3>8, <3>9 DEF C
  <2> QED BY <2>1, <2>2, ReadersCalls DEF CallsCommand!ReportsWhatItRead
<1> QED BY <1>1, <1>2, <1>3, PTL DEF Spec

-----------------------------------------------------------------------------
(* classify                                                                  *)

\* `Checks` has the definitions of `SafeCalls` as its own.
LEMMA ChecksCalls ==
  /\ \A t : ClassifyCommand!Components(t) = Components(t)
  /\ \A t : ClassifyCommand!OwnCall(t) = OwnCall(t)
  /\ \A to : ClassifyCommand!RevertingMultiSend(to) = RevertingMultiSend(to)
  /\ \A to : ClassifyCommand!EmptyMultiSend(to) = EmptyMultiSend(to)
  /\ \A safe, ms, t : ClassifyCommand!Batched(safe, ms, t) = Batched(safe, ms, t)
  /\ \A ms, t : ClassifyCommand!Invalid(ms, t) = Invalid(ms, t)
  /\ \A data : ClassifyCommand!Transactions(data) = Transactions(data)
  /\ \A a : ClassifyCommand!IsMultiSend(a) = IsMultiSend(a)
  /\ ClassifyCommand!MultiSends = MultiSends
  /\ ClassifyCommand!NoData = NoData
<1>1. \A to : ClassifyCommand!RevertingMultiSend(to) = RevertingMultiSend(to)
  BY Zenon DEF ClassifyCommand!RevertingMultiSend, RevertingMultiSend, ClassifyCommand!NoData, NoData
<1>2. \A to : ClassifyCommand!EmptyMultiSend(to) = EmptyMultiSend(to)
  BY Zenon DEF ClassifyCommand!EmptyMultiSend, EmptyMultiSend, ClassifyCommand!Data, Data,
               ClassifyCommand!NoData, NoData
<1>3. \A t : ClassifyCommand!OwnCall(t) = OwnCall(t)
  BY Zenon DEF ClassifyCommand!OwnCall, OwnCall
<1>4. \A safe, c : ClassifyCommand!ExpandMultiSendCall(safe, c) = ExpandMultiSendCall(safe, c)
  BY Zenon DEF ClassifyCommand!ExpandMultiSendCall, ExpandMultiSendCall,
               ClassifyCommand!IsMultiSend, IsMultiSend, ClassifyCommand!MultiSends, MultiSends,
               ClassifyCommand!RevertsAlways, RevertsAlways, ClassifyCommand!Makes, Makes,
               ClassifyCommand!Reverts, Reverts, ClassifyCommand!Transactions, Transactions,
               ClassifyCommand!Batched, Batched, ClassifyCommand!Padded, Padded,
               ClassifyCommand!Invalid, Invalid, ClassifyCommand!NoData, NoData,
               ClassifyCommand!FlattenSeq, FlattenSeq, ClassifyCommand!Last, Last,
               ClassifyCommand!Front, Front
<1>5. \A t : ClassifyCommand!GasRefund(t) = GasRefund(t)
  BY Zenon DEF ClassifyCommand!GasRefund, GasRefund, ClassifyCommand!RefundAmount, RefundAmount,
               ClassifyCommand!Data, Data, ClassifyCommand!NoData, NoData
<1>6. \A t : ClassifyCommand!ExpandTransactionCalls(t) = ExpandTransactionCalls(t)
  BY <1>1, <1>2, <1>3, <1>4 DEF ClassifyCommand!ExpandTransactionCalls, ExpandTransactionCalls
<1>7. \A t : ClassifyCommand!Components(t) = Components(t)
  BY <1>5, <1>6 DEF ClassifyCommand!Components, Components
<1>8. /\ \A safe, ms, t : ClassifyCommand!Batched(safe, ms, t) = Batched(safe, ms, t)
      /\ \A ms, t : ClassifyCommand!Invalid(ms, t) = Invalid(ms, t)
      /\ \A data : ClassifyCommand!Transactions(data) = Transactions(data)
  BY Zenon DEF ClassifyCommand!Batched, Batched, ClassifyCommand!Padded, Padded,
               ClassifyCommand!NoData, NoData, ClassifyCommand!Invalid, Invalid,
               ClassifyCommand!Transactions, Transactions, ClassifyCommand!Last, Last,
               ClassifyCommand!Front, Front
<1>9. /\ \A a : ClassifyCommand!IsMultiSend(a) = IsMultiSend(a)
      /\ ClassifyCommand!MultiSends = MultiSends
      /\ ClassifyCommand!NoData = NoData
  BY Zenon DEF ClassifyCommand!IsMultiSend, IsMultiSend, ClassifyCommand!MultiSends, MultiSends,
               ClassifyCommand!NoData, NoData
<1> QED BY <1>1, <1>2, <1>3, <1>7, <1>8, <1>9, Zenon

\* Level d of the tree, from the one before it.
Grows(q, r, d) ==
  IF d = 0 THEN {<<<<>>, OwnCall(r.tx), TRUE>>}
  ELSE UNION {ClassifyCommand!Below(r, n) : n \in {m \in q[d - 1] : m[3]}}

\* Some function has the first N levels.
LEMMA LevelsFound ==
  ASSUME NEW r, NEW N \in Nat
  PROVE  \E q : q = [d \in 0 .. N |-> Grows(q, r, d)]
<1> DEFINE S == {m \in Nat : \E q : q = [d \in 0 .. m |-> Grows(q, r, d)]}
<1>1. 0 \in S
  <2> DEFINE q == [d \in 0 .. 0 |-> {<<<<>>, OwnCall(r.tx), TRUE>>}]
  <2>1. q = [d \in 0 .. 0 |-> Grows(q, r, d)]
    BY DEF Grows
  <2> QED BY <2>1
<1>2. ASSUME NEW m \in S PROVE m + 1 \in S
  <2>1. PICK q : q = [d \in 0 .. m |-> Grows(q, r, d)]
    OBVIOUS
  <2> DEFINE p == [d \in 0 .. m + 1 |-> IF d = m + 1 THEN Grows(q, r, d) ELSE q[d]]
  <2>2. \A d \in 0 .. m : p[d] = q[d]
    OBVIOUS
  <2> HIDE DEF p
  <2>3. \A d \in 0 .. m + 1 : Grows(p, r, d) = Grows(q, r, d)
    <3> SUFFICES ASSUME NEW d \in 0 .. m + 1, d # 0 PROVE Grows(p, r, d) = Grows(q, r, d)
      BY DEF Grows
    <3>1. p[d - 1] = q[d - 1]
      BY <2>2
    <3> QED BY <3>1 DEF Grows
  <2>4. \A d \in 0 .. m : q[d] = Grows(q, r, d)
    BY <2>1
  <2>5. p = [d \in 0 .. m + 1 |-> Grows(p, r, d)]
    <3>1. p = [d \in 0 .. m + 1 |-> IF d = m + 1 THEN Grows(q, r, d) ELSE q[d]]
      BY DEF p
    <3>2. \A d \in 0 .. m + 1 : (IF d = m + 1 THEN Grows(q, r, d) ELSE q[d]) = Grows(p, r, d)
      BY <2>3, <2>4
    <3> QED BY <3>1, <3>2
  <2>6. m + 1 \in Nat /\ \E f : f = [d \in 0 .. m + 1 |-> Grows(f, r, d)]
    BY <2>5
  <2> QED BY <2>6
<1>3. S = Nat
  <2> HIDE DEF S
  <2>1. S \in SUBSET Nat
    BY DEF S
  <2> QED BY <1>1, <1>2, <2>1, AllNumbers
<1> QED BY <1>3

\* Each level of the tree is made of the one before.
LEMMA LevelsGrow ==
  ASSUME NEW r
  PROVE  \A d \in 0 .. DeepestBatch :
           ClassifyCommand!Levels(r)[d] = Grows(ClassifyCommand!Levels(r), r, d)
<1> DEFINE P(q) == q = [d \in 0 .. DeepestBatch |-> Grows(q, r, d)]
<1>1. ClassifyCommand!Levels(r) = CHOOSE q : P(q)
  BY ChecksCalls, Zenon DEF ClassifyCommand!Levels, Grows
<1>2. \E q : P(q)
  <2>1. DeepestBatch \in Nat
    BY CallsAssumption
  <2> QED BY <2>1, LevelsFound
<1> HIDE DEF P
<1>3. P(CHOOSE q : P(q))
  BY <1>2
<1> QED BY <1>1, <1>3 DEF P

\* The part of the tree that is below a call.
LEMMA BelowHas ==
  ASSUME NEW r, NEW n
  PROVE  \A m : m \in ClassifyCommand!Below(r, n) <=>
                  /\ Batch(n[2])
                  /\ \E k \in DOMAIN Transactions(n[2].data) :
                       m = <<Append(n[1], k), Sub(r.tx.safe, n[2], k),
                             ~Invalid(MultiSends[n[2].to], Transactions(n[2].data)[k])>>
<1>1. ClassifyCommand!IsBatch(n[2]) = Batch(n[2])
  BY ChecksCalls, Zenon DEF ClassifyCommand!IsBatch, Batch
<1>2. ClassifyCommand!Children(n[2]) = IF Batch(n[2]) THEN Transactions(n[2].data) ELSE <<>>
  BY <1>1, ChecksCalls, Zenon DEF ClassifyCommand!Children
<1>3. ClassifyCommand!Below(r, n) =
        {<<Append(n[1], k), Sub(r.tx.safe, n[2], k),
           ~Invalid(MultiSends[n[2].to], Transactions(n[2].data)[k])>> :
           k \in DOMAIN ClassifyCommand!Children(n[2])}
  <2>1. CASE Batch(n[2])
    <3>1. ClassifyCommand!Children(n[2]) = Transactions(n[2].data)
      BY <1>2, <2>1
    <3> QED BY <3>1, ChecksCalls, Zenon DEF ClassifyCommand!Below, Sub
  <2>2. CASE ~Batch(n[2])
    <3>1. DOMAIN ClassifyCommand!Children(n[2]) = {}
      BY <1>2, <2>2
    <3> QED BY <3>1 DEF ClassifyCommand!Below
  <2> QED BY <2>1, <2>2
<1>4. ~Batch(n[2]) => DOMAIN ClassifyCommand!Children(n[2]) = {}
  BY <1>2
<1> QED BY <1>2, <1>3, <1>4, Zenon

\* A call of level d of the tree of a request.
Node(r, d, n) ==
  /\ n[1] \in Seq(Nat) /\ n[2] \in Call /\ n[3] \in BOOLEAN
  /\ Nesting[n[2]] + d <= Nesting[OwnCall(r.tx)]
  /\ d = 0 => n = <<<<>>, OwnCall(r.tx), TRUE>>
  /\ d # 0 => n[1] # <<>> /\ n[2].kind = "batched"

\* The transaction's own call nests no deeper than a call may.
LEMMA OwnNests ==
  ASSUME NEW r \in Requests
  PROVE  /\ OwnCall(r.tx) \in Call /\ r.tx.safe \in Safes
         /\ DeepestBatch \in Nat /\ \A c \in Call : Nesting[c] \in 0 .. DeepestBatch
<1>1. r.tx \in Txs \cup {x.tx : x \in Requests}
  OBVIOUS
<1>2. r.tx.safe \in Safes
  BY <1>1 DEF Safes
<1>3. OwnCall(r.tx) \in Call
  BY <1>1, CallsAssumption
<1>4. DeepestBatch \in Nat /\ \A c \in Call : Nesting[c] \in 0 .. DeepestBatch
  BY CallsAssumption
<1> QED BY <1>2, <1>3, <1>4

\* What is below a call of a level is of the next level.
LEMMA BelowNodes ==
  ASSUME NEW r \in Requests, NEW d \in Nat, NEW n, Node(r, d, n), NEW m \in ClassifyCommand!Below(r, n)
  PROVE  Node(r, d + 1, m)
<1> DEFINE txs0 == Transactions(n[2].data)
<1>1. Batch(n[2])
  BY BelowHas
<1>2. PICK k \in DOMAIN txs0 :
        m = <<Append(n[1], k), Sub(r.tx.safe, n[2], k), ~Invalid(MultiSends[n[2].to], txs0[k])>>
  BY BelowHas
<1>3. n[1] \in Seq(Nat) /\ n[2] \in Call /\ Nesting[n[2]] + d <= Nesting[OwnCall(r.tx)]
  BY DEF Node
<1>4. DOMAIN txs0 = 1 .. Len(txs0)
  BY <1>3, TransactionsTuple, LengthOf DEF IsTuple
<1>5. k \in Nat
  BY <1>4
<1>6. Append(n[1], k) \in Seq(Nat) /\ Append(n[1], k) # <<>>
  BY <1>3, <1>5, AppendProperties
<1>7. r.tx.safe \in Safes
  BY OwnNests
<1>8. Sub(r.tx.safe, n[2], k) \in Call /\ Nesting[Sub(r.tx.safe, n[2], k)] < Nesting[n[2]]
  BY <1>1, <1>3, <1>7, SubNests DEF Batch
<1>9. Sub(r.tx.safe, n[2], k).kind = "batched"
  BY DEF Sub, Batched
<1>10. OwnCall(r.tx) \in Call /\ \A c \in Call : Nesting[c] \in Int
  BY OwnNests
<1> HIDE DEF txs0
<1>11. m[1] = Append(n[1], k) /\ m[2] = Sub(r.tx.safe, n[2], k) /\ m[3] \in BOOLEAN
  BY <1>2
<1>12. Nesting[m[2]] + (d + 1) <= Nesting[OwnCall(r.tx)]
  <2>1. m[2] \in Call /\ Nesting[m[2]] < Nesting[n[2]]
    BY <1>8, <1>11
  <2>2. Nesting[m[2]] \in Int /\ Nesting[n[2]] \in Int /\ Nesting[OwnCall(r.tx)] \in Int
    BY <1>3, <1>10, <2>1
  <2> QED BY <1>3, <2>1, <2>2
<1>13. m[1] \in Seq(Nat) /\ m[1] # <<>> /\ m[2] \in Call /\ m[2].kind = "batched"
  BY <1>6, <1>8, <1>9, <1>11
<1>14. d + 1 # 0
  OBVIOUS
<1> QED BY <1>11, <1>12, <1>13, <1>14 DEF Node

\* Each level has calls of that level.
LEMMA LevelNodes ==
  ASSUME NEW r \in Requests
  PROVE  \A d \in 0 .. DeepestBatch : \A n \in ClassifyCommand!Levels(r)[d] : Node(r, d, n)
<1> DEFINE L == ClassifyCommand!Levels(r)
           S == {d \in Nat : d \in 0 .. DeepestBatch => \A n \in L[d] : Node(r, d, n)}
<1> HIDE DEF L
<1>1. \A d \in 0 .. DeepestBatch : L[d] = Grows(L, r, d)
  BY LevelsGrow DEF L
<1>2. OwnCall(r.tx) \in Call /\ DeepestBatch \in Nat /\ \A c \in Call : Nesting[c] \in Int
  BY OwnNests
<1>3. 0 \in S
  <2>1. L[0] = {<<<<>>, OwnCall(r.tx), TRUE>>}
    <3>1. Grows(L, r, 0) = {<<<<>>, OwnCall(r.tx), TRUE>>}
      BY DEF Grows
    <3>2. 0 \in 0 .. DeepestBatch
      BY <1>2
    <3> QED BY <1>1, <3>1, <3>2, Zenon
  <2>2. Node(r, 0, <<<<>>, OwnCall(r.tx), TRUE>>)
    BY <1>2 DEF Node
  <2> QED BY <2>1, <2>2
<1>4. ASSUME NEW d \in S PROVE d + 1 \in S
  <2> SUFFICES ASSUME d + 1 \in 0 .. DeepestBatch, NEW m \in L[d + 1] PROVE Node(r, d + 1, m)
    OBVIOUS
  <2>1. d \in 0 .. DeepestBatch /\ d + 1 # 0 /\ (d + 1) - 1 = d
    BY <1>2
  <2>2. L[d + 1] = UNION {ClassifyCommand!Below(r, x) : x \in {y \in L[d] : y[3]}}
    BY <1>1, <2>1 DEF Grows
  <2>3. PICK n \in L[d] : m \in ClassifyCommand!Below(r, n)
    BY <2>2
  <2> QED BY <2>1, <2>3, BelowNodes
<1>5. S = Nat
  <2> HIDE DEF S
  <2>1. S \in SUBSET Nat
    BY DEF S
  <2> QED BY <1>3, <1>4, <2>1, AllNumbers
<1> QED BY <1>5 DEF L

\* The tree has the transaction's own call, and what is below its calls.
LEMMA TreeClosed ==
  ASSUME NEW r \in Requests
  PROVE  /\ <<<<>>, OwnCall(r.tx), TRUE>> \in ClassifyCommand!Tree(r)
         /\ \A n \in ClassifyCommand!Tree(r) :
              n[3] => ClassifyCommand!Below(r, n) \subseteq ClassifyCommand!Tree(r)
<1> DEFINE L == ClassifyCommand!Levels(r)
<1>1. \A d \in 0 .. DeepestBatch : L[d] = Grows(L, r, d)
  BY LevelsGrow
<1>2. \A d \in 0 .. DeepestBatch : \A n \in L[d] : Node(r, d, n)
  BY LevelNodes
<1>3. ClassifyCommand!Tree(r) = UNION {L[d] : d \in 0 .. DeepestBatch}
  BY DEF ClassifyCommand!Tree
<1> HIDE DEF L
<1>4. OwnCall(r.tx) \in Call /\ DeepestBatch \in Nat /\ \A c \in Call : Nesting[c] \in 0 .. DeepestBatch
  BY OwnNests
<1>5. L[0] = {<<<<>>, OwnCall(r.tx), TRUE>>} /\ 0 \in 0 .. DeepestBatch
  <2>1. Grows(L, r, 0) = {<<<<>>, OwnCall(r.tx), TRUE>>}
    BY DEF Grows
  <2>2. 0 \in 0 .. DeepestBatch
    BY <1>4
  <2> QED BY <1>1, <2>1, <2>2, Zenon
<1>6. ASSUME NEW d \in 0 .. DeepestBatch, NEW n \in L[d], n[3], NEW m \in ClassifyCommand!Below(r, n)
      PROVE  m \in ClassifyCommand!Tree(r)
  <2>1. Node(r, d + 1, m)
    BY <1>2, BelowNodes
  <2>2. d + 1 \in 0 .. DeepestBatch /\ d + 1 # 0 /\ (d + 1) - 1 = d
    BY <1>4, <2>1 DEF Node
  <2>3. L[d + 1] = UNION {ClassifyCommand!Below(r, x) : x \in {y \in L[d] : y[3]}}
    BY <1>1, <2>2 DEF Grows
  <2>4. m \in L[d + 1]
    BY <1>6, <2>3
  <2> QED BY <1>3, <2>2, <2>4
<1> QED BY <1>3, <1>5, <1>6

\* A batch reverts with any of its calls, and makes the calls of each.
LEMMA BatchParts ==
  ASSUME NEW safe \in Safes, NEW c \in Call, Batch(c)
  PROVE  /\ ExpandMultiSendCall(safe, c).reverts <=>
              \E k \in DOMAIN Transactions(c.data) :
                \/ Invalid(MultiSends[c.to], Transactions(c.data)[k])
                \/ ExpandMultiSendCall(safe, Sub(safe, c, k)).reverts
         /\ ~ExpandMultiSendCall(safe, c).reverts =>
              \A x : x \in Has(ExpandMultiSendCall(safe, c).calls) <=>
                       \E k \in DOMAIN Transactions(c.data) :
                         x \in Has(ExpandMultiSendCall(safe, Sub(safe, c, k)).calls)
<1> DEFINE I == DOMAIN Transactions(c.data)
           e(k) == ExpandMultiSendCall(safe, Sub(safe, c, k))
           s == [k \in I |-> e(k).calls]
           R == \E k \in I : Invalid(MultiSends[c.to], Transactions(c.data)[k]) \/ e(k).reverts
<1>1. ExpandMultiSendCall(safe, c) = IF R THEN Reverts ELSE Makes(FlattenSeq(s))
  BY ExpandBatch
<1>2. \A k \in I : Expands(safe, Sub(safe, c, k))
  BY SubNests, ExpandsCalls DEF Batch
<1>3. \A k \in I : IsTuple(s[k])
  BY <1>2 DEF Expands
<1>4. I = 1 .. Len(Transactions(c.data)) /\ Len(Transactions(c.data)) \in Nat
  BY TransactionsTuple, LengthOf DEF IsTuple
<1> HIDE DEF I, e
<1>5. IsTuple(s) /\ DOMAIN s = I
  <2>1. OfLength(s, Len(Transactions(c.data)))
    BY <1>4 DEF OfLength
  <2> QED BY <1>4, <2>1, LengthOf DEF IsTuple
<1>6. \A k \in I : s[k] = e(k).calls
  OBVIOUS
<1> HIDE DEF s
<1>7. \A x : x \in Has(FlattenSeq(s)) <=> \E k \in I : x \in Has(e(k).calls)
  <2>1. \A x : x \in Has(FlattenSeq(s)) <=> \E k \in I : x \in Has(s[k])
    BY <1>3, <1>5, FlattenHas
  <2> QED BY <1>6, <2>1, Zenon
<1>8. Reverts.reverts = TRUE /\ \A x : Makes(x).reverts = FALSE /\ Makes(x).calls = x
  BY DEF Reverts, Makes
<1>9. ExpandMultiSendCall(safe, c).reverts <=> R
  <2> HIDE DEF R
  <2>1. CASE R
    BY <1>1, <1>8, <2>1
  <2>2. CASE ~R
    BY <1>1, <1>8, <2>2
  <2> QED BY <2>1, <2>2
<1>10. ~R => ExpandMultiSendCall(safe, c).calls = FlattenSeq(s)
  <2> HIDE DEF R
  <2> QED BY <1>1, <1>8
<1>11. ~R => \A x : x \in Has(ExpandMultiSendCall(safe, c).calls) <=> \E k \in I : x \in Has(e(k).calls)
  <2> HIDE DEF R
  <2> QED BY <1>7, <1>10, Zenon
<1> QED BY <1>9, <1>11, Zenon DEF I, e

\* What one that isn't a batch makes.
LEMMA OtherParts ==
  ASSUME NEW safe \in Safes, NEW c \in Call, ~Batch(c)
  PROVE  /\ ExpandMultiSendCall(safe, c).reverts <=> IsMultiSend(c.to) /\ RevertsAlways(c)
         /\ ~ExpandMultiSendCall(safe, c).reverts => ExpandMultiSendCall(safe, c).calls = <<c>>
<1> DEFINE R == IsMultiSend(c.to) /\ RevertsAlways(c)
<1>1. ExpandMultiSendCall(safe, c) = IF R THEN Reverts ELSE Makes(<<c>>)
  BY ExpandOther
<1>2. Reverts.reverts = TRUE /\ Makes(<<c>>).reverts = FALSE /\ Makes(<<c>>).calls = <<c>>
  BY DEF Reverts, Makes
<1> HIDE DEF R
<1>3. CASE R
  BY <1>1, <1>2, <1>3 DEF R
<1>4. CASE ~R
  BY <1>1, <1>2, <1>4 DEF R
<1> QED BY <1>3, <1>4

\* Whether a call of the tree makes what it makes within that of c.
RunsIn(safe, c, n) ==
  /\ n[3] /\ ~ExpandMultiSendCall(safe, n[2]).reverts
  /\ Has(ExpandMultiSendCall(safe, n[2]).calls) \subseteq Has(ExpandMultiSendCall(safe, c).calls)

\* The calls of a batch that doesn't revert make what they make in it.
LEMMA BelowRuns ==
  ASSUME NEW r \in Requests, NEW n, n[2] \in Call, ~ExpandMultiSendCall(r.tx.safe, n[2]).reverts,
         NEW m \in ClassifyCommand!Below(r, n)
  PROVE  RunsIn(r.tx.safe, n[2], m)
<1> DEFINE safe == r.tx.safe
           c == n[2]
           ts == Transactions(c.data)
<1>1. Batch(c)
  BY BelowHas
<1>2. PICK k \in DOMAIN ts : m = <<Append(n[1], k), Sub(safe, c, k), ~Invalid(MultiSends[c.to], ts[k])>>
  BY BelowHas
<1>3. safe \in Safes
  BY OwnNests
<1>4. m[2] = Sub(safe, c, k) /\ m[3] = ~Invalid(MultiSends[c.to], ts[k])
  BY <1>2, Zenon
<1>5. /\ ~Invalid(MultiSends[c.to], ts[k]) /\ ~ExpandMultiSendCall(safe, Sub(safe, c, k)).reverts
      /\ \A x \in Has(ExpandMultiSendCall(safe, Sub(safe, c, k)).calls) :
           x \in Has(ExpandMultiSendCall(safe, c).calls)
  BY <1>1, <1>3, BatchParts, Zenon
<1> HIDE DEF ts, c, safe
<1>6. m[3] /\ ~ExpandMultiSendCall(safe, m[2]).reverts
  BY <1>4, <1>5, Zenon
<1>7. Has(ExpandMultiSendCall(safe, m[2]).calls) \subseteq Has(ExpandMultiSendCall(safe, c).calls)
  BY <1>4, <1>5, Zenon
<1> QED BY <1>6, <1>7, Zenon DEF RunsIn, c, safe

\* The calls of a tree are those of a transaction that runs.
LEMMA TreeRuns ==
  ASSUME NEW r \in Requests, ~ExpandMultiSendCall(r.tx.safe, OwnCall(r.tx)).reverts
  PROVE  \A n \in ClassifyCommand!Tree(r) : RunsIn(r.tx.safe, OwnCall(r.tx), n)
<1> DEFINE L == ClassifyCommand!Levels(r)
           Runs(n) == RunsIn(r.tx.safe, OwnCall(r.tx), n)
           S == {d \in Nat : d \in 0 .. DeepestBatch => \A n \in L[d] : Runs(n)}
<1>1. \A d \in 0 .. DeepestBatch : L[d] = Grows(L, r, d)
  BY LevelsGrow
<1>2. \A d \in 0 .. DeepestBatch : \A n \in L[d] : Node(r, d, n)
  BY LevelNodes
<1>3. ClassifyCommand!Tree(r) = UNION {L[d] : d \in 0 .. DeepestBatch}
  BY DEF ClassifyCommand!Tree
<1> HIDE DEF L
<1>4. DeepestBatch \in Nat
  BY OwnNests
<1>5. 0 \in S
  <2>1. 0 \in 0 .. DeepestBatch
    BY <1>4
  <2>2. \A n \in L[0] : n = <<<<>>, OwnCall(r.tx), TRUE>>
    BY <1>2, <2>1 DEF Node
  <2>3. ASSUME NEW n \in L[0] PROVE Runs(n)
    <3>1. n = <<<<>>, OwnCall(r.tx), TRUE>>
      BY <2>2
    <3>2. n[3] = TRUE /\ n[2] = OwnCall(r.tx)
      BY <3>1
    <3>3. n[3]
      BY <3>2
    <3> QED BY <3>2, <3>3, Zenon DEF RunsIn
  <2> HIDE DEF Runs
  <2> QED BY <2>3
<1>6. ASSUME NEW d \in S PROVE d + 1 \in S
  <2> SUFFICES ASSUME d + 1 \in 0 .. DeepestBatch, NEW m \in L[d + 1] PROVE Runs(m)
    OBVIOUS
  <2>1. d \in 0 .. DeepestBatch /\ d + 1 # 0 /\ (d + 1) - 1 = d
    BY <1>4
  <2>2. L[d + 1] = UNION {ClassifyCommand!Below(r, x) : x \in {y \in L[d] : y[3]}}
    BY <1>1, <2>1 DEF Grows
  <2>3. PICK n \in L[d] : m \in ClassifyCommand!Below(r, n)
    BY <2>2
  <2>4. Runs(n)
    BY <2>1
  <2>5. n[2] \in Call
    BY <1>2, <2>1 DEF Node
  <2>6. RunsIn(r.tx.safe, n[2], m)
    BY <2>3, <2>4, <2>5, BelowRuns DEF RunsIn
  <2> QED BY <2>4, <2>6, Zenon DEF RunsIn
<1>7. S = Nat
  <2> HIDE DEF S
  <2>1. S \in SUBSET Nat
    BY DEF S
  <2> QED BY <1>5, <1>6, <2>1, AllNumbers
<1> HIDE DEF Runs
<1> QED BY <1>3, <1>7 DEF Runs

\* A call of the tree is the transaction's own, or in a batch.
LEMMA TreeNodes ==
  ASSUME NEW r \in Requests, NEW n \in ClassifyCommand!Tree(r)
  PROVE  /\ n[2] \in Call /\ n[3] \in BOOLEAN
         /\ (n[1] = <<>> /\ n = <<<<>>, OwnCall(r.tx), TRUE>>) \/ (n[1] # <<>> /\ n[2].kind = "batched")
<1>1. PICK d \in 0 .. DeepestBatch : n \in ClassifyCommand!Levels(r)[d]
  BY DEF ClassifyCommand!Tree
<1>2. Node(r, d, n)
  BY <1>1, LevelNodes
<1>3. CASE d = 0
  <2>1. n = <<<<>>, OwnCall(r.tx), TRUE>> /\ n[2] \in Call /\ n[3] \in BOOLEAN
    BY <1>2, <1>3, Zenon DEF Node
  <2>2. n[1] = <<>>
    BY <2>1
  <2> QED BY <2>1, <2>2
<1>4. CASE d # 0
  BY <1>2, <1>4, Zenon DEF Node
<1> QED BY <1>3, <1>4

\* What a call of the tree comes to is in the tree.
LeadsTo(r, n) ==
  /\ ExpandMultiSendCall(r.tx.safe, n[2]).reverts =>
       \E m \in ClassifyCommand!Tree(r) : ClassifyCommand!CannotRun(m)
  /\ ~ExpandMultiSendCall(r.tx.safe, n[2]).reverts =>
       \A x \in Has(ExpandMultiSendCall(r.tx.safe, n[2]).calls) :
         \E m \in ClassifyCommand!Tree(r) : m[2] = x /\ ~Batch(x)

\* A call can't run if a batch doesn't take it, or if it always reverts.
LEMMA Cannot ==
  \A n : ClassifyCommand!CannotRun(n) <=>
           ~n[3] \/ (IsMultiSend(n[2].to) /\ RevertsAlways(n[2]))
BY ChecksCalls, Zenon DEF ClassifyCommand!CannotRun, RevertsAlways

\* A call that isn't a batch is in the tree itself.
LEMMA OtherLeads ==
  ASSUME NEW r \in Requests, NEW n \in ClassifyCommand!Tree(r), ~Batch(n[2])
  PROVE  LeadsTo(r, n)
<1>1. n[2] \in Call /\ r.tx.safe \in Safes
  BY TreeNodes, OwnNests
<1>2. /\ ExpandMultiSendCall(r.tx.safe, n[2]).reverts <=> IsMultiSend(n[2].to) /\ RevertsAlways(n[2])
      /\ ~ExpandMultiSendCall(r.tx.safe, n[2]).reverts =>
           ExpandMultiSendCall(r.tx.safe, n[2]).calls = <<n[2]>>
  BY <1>1, OtherParts
<1>3. Has(<<n[2]>>) = {n[2]}
  BY DEF Has
<1>4. ExpandMultiSendCall(r.tx.safe, n[2]).reverts => ClassifyCommand!CannotRun(n)
  BY <1>2, Cannot
<1>5. ~ExpandMultiSendCall(r.tx.safe, n[2]).reverts =>
        \A x \in Has(ExpandMultiSendCall(r.tx.safe, n[2]).calls) : n[2] = x /\ ~Batch(x)
  BY <1>2, <1>3
<1> QED BY <1>4, <1>5, Zenon DEF LeadsTo

\* A batch leads to what its calls lead to.
LEMMA BatchLeads ==
  ASSUME NEW r \in Requests, NEW n \in ClassifyCommand!Tree(r), n[3], Batch(n[2]),
         \A m \in ClassifyCommand!Below(r, n) : m[3] => LeadsTo(r, m)
  PROVE  LeadsTo(r, n)
<1> DEFINE safe == r.tx.safe
           c == n[2]
           ts == Transactions(c.data)
           T == ClassifyCommand!Tree(r)
           e(d) == ExpandMultiSendCall(safe, d)
           node(k) == <<Append(n[1], k), Sub(safe, c, k), ~Invalid(MultiSends[c.to], ts[k])>>
<1>1. c \in Call /\ safe \in Safes
  BY TreeNodes, OwnNests
<1>2. /\ e(c).reverts <=> \E k \in DOMAIN ts : Invalid(MultiSends[c.to], ts[k]) \/ e(Sub(safe, c, k)).reverts
      /\ ~e(c).reverts => \A x : x \in Has(e(c).calls) <=> \E k \in DOMAIN ts : x \in Has(e(Sub(safe, c, k)).calls)
  BY <1>1, BatchParts
<1>3. \A k \in DOMAIN ts : node(k) \in ClassifyCommand!Below(r, n) /\ node(k) \in T
  <2>1. \A k \in DOMAIN ts : node(k) \in ClassifyCommand!Below(r, n)
    BY BelowHas
  <2> HIDE DEF node
  <2> QED BY <2>1, TreeClosed
<1>4. \A k : node(k)[2] = Sub(safe, c, k) /\ node(k)[3] = ~Invalid(MultiSends[c.to], ts[k])
  BY Zenon
<1> HIDE DEF node, ts
<1>5. ASSUME NEW k \in DOMAIN ts
      PROVE  Invalid(MultiSends[c.to], ts[k]) \/ e(Sub(safe, c, k)).reverts
               => \E m \in T : ClassifyCommand!CannotRun(m)
  <2>1. CASE Invalid(MultiSends[c.to], ts[k])
    <3>1. ~node(k)[3]
      BY <1>4, <2>1, Zenon
    <3> QED BY <1>3, <3>1, Cannot, Zenon
  <2>2. CASE ~Invalid(MultiSends[c.to], ts[k]) /\ e(Sub(safe, c, k)).reverts
    <3>1. node(k)[3] /\ e(node(k)[2]).reverts
      BY <1>4, <2>2, Zenon
    <3>2. LeadsTo(r, node(k))
      BY <1>3, <3>1
    <3> QED BY <3>1, <3>2, Zenon DEF LeadsTo
  <2> QED BY <2>1, <2>2
<1>6. ASSUME ~e(c).reverts, NEW x \in Has(e(c).calls)
      PROVE  \E m \in T : m[2] = x /\ ~Batch(x)
  <2>1. PICK k \in DOMAIN ts : x \in Has(e(Sub(safe, c, k)).calls)
    BY <1>2, <1>6, Zenon
  <2>2. ~Invalid(MultiSends[c.to], ts[k]) /\ ~e(Sub(safe, c, k)).reverts
    BY <1>2, <1>6, Zenon
  <2>3. node(k)[3] /\ ~e(node(k)[2]).reverts /\ x \in Has(e(node(k)[2]).calls)
    BY <1>4, <2>1, <2>2, Zenon
  <2>4. LeadsTo(r, node(k))
    BY <1>3, <2>3
  <2> QED BY <2>3, <2>4, Zenon DEF LeadsTo
<1> QED BY <1>2, <1>5, <1>6, Zenon DEF LeadsTo

\* So what the transaction's own call comes to is in the tree, by how deep it nests.
LEMMA TreeLeads ==
  ASSUME NEW r \in Requests
  PROVE  LeadsTo(r, <<<<>>, OwnCall(r.tx), TRUE>>)
<1> DEFINE T == ClassifyCommand!Tree(r)
           S == {h \in Nat : \A n \in T : n[3] /\ Nesting[n[2]] < h => LeadsTo(r, n)}
<1>1. \A n \in T : n[2] \in Call
  BY TreeNodes
<1>2. DeepestBatch \in Nat /\ (\A c \in Call : Nesting[c] \in 0 .. DeepestBatch) /\ r.tx.safe \in Safes
  BY OwnNests
<1>3. 0 \in S
  BY <1>1, <1>2
<1>4. ASSUME NEW h \in S PROVE h + 1 \in S
  <2> SUFFICES ASSUME NEW n \in T, n[3], Nesting[n[2]] < h + 1 PROVE LeadsTo(r, n)
    OBVIOUS
  <2>1. CASE ~Batch(n[2])
    BY <2>1, OtherLeads
  <2>2. CASE Batch(n[2])
    <3>1. ASSUME NEW m \in ClassifyCommand!Below(r, n), m[3] PROVE LeadsTo(r, m)
      <4>1. m \in T
        BY <3>1, TreeClosed
      <4>2. PICK k \in DOMAIN Transactions(n[2].data) :
              m = <<Append(n[1], k), Sub(r.tx.safe, n[2], k),
                    ~Invalid(MultiSends[n[2].to], Transactions(n[2].data)[k])>>
        BY <3>1, BelowHas
      <4>3. m[2] = Sub(r.tx.safe, n[2], k)
        BY <4>2
      <4>4. Nesting[m[2]] < Nesting[n[2]]
        BY <1>1, <1>2, <2>2, <4>3, SubNests DEF Batch
      <4>5. Nesting[m[2]] \in Int /\ Nesting[n[2]] \in Int
        BY <1>1, <1>2, <4>1
      <4>6. Nesting[m[2]] < h
        BY <4>4, <4>5
      <4> QED BY <3>1, <4>1, <4>6
    <3> QED BY <2>2, <3>1, BatchLeads
  <2> QED BY <2>1, <2>2
<1>5. S = Nat
  <2> HIDE DEF S
  <2>1. S \in SUBSET Nat
    BY DEF S
  <2> QED BY <1>3, <1>4, <2>1, AllNumbers
<1> DEFINE root == <<<<>>, OwnCall(r.tx), TRUE>>
<1>6. root \in T /\ root[3] /\ root[2] = OwnCall(r.tx)
  BY TreeClosed
<1>7. Nesting[root[2]] < DeepestBatch + 1 /\ DeepestBatch + 1 \in Nat
  BY <1>1, <1>2, <1>6
<1> HIDE DEF root
<1> QED BY <1>5, <1>6, <1>7 DEF root

\* The calls that the rules judge are those that the transaction's expand to, if
\* none of them makes it revert.
LEMMA MadeAreExpanded ==
  ASSUME NEW r \in Requests
  PROVE  {n[2] : n \in ClassifyCommand!MadeCalls(r)} =
           Has(ExpandMultiSendCall(r.tx.safe, OwnCall(r.tx)).calls)
<1> DEFINE T == ClassifyCommand!Tree(r)
           own == OwnCall(r.tx)
           e(c) == ExpandMultiSendCall(r.tx.safe, c)
           M == ClassifyCommand!MadeCalls(r)
<1>1. own \in Call /\ r.tx.safe \in Safes
  BY OwnNests
<1>2. LeadsTo(r, <<<<>>, own, TRUE>>) /\ <<<<>>, own, TRUE>>[2] = own
  BY TreeLeads
<1>3. /\ e(own).reverts => \E m \in T : ClassifyCommand!CannotRun(m)
      /\ ~e(own).reverts => \A x \in Has(e(own).calls) : \E m \in T : m[2] = x /\ ~Batch(x)
  BY <1>2, Zenon DEF LeadsTo
<1>4. \A n : ClassifyCommand!IsBatch(n[2]) = Batch(n[2])
  BY ChecksCalls, Zenon DEF ClassifyCommand!IsBatch, Batch
<1>5. CASE e(own).reverts
  <2>1. M = {}
    BY <1>3, <1>5, Zenon DEF ClassifyCommand!MadeCalls
  <2>2. e(own).calls = <<>>
    BY <1>1, <1>5, ExpandsCalls DEF Expands
  <2>3. Has(<<>>) = {}
    BY DEF Has
  <2> QED BY <2>1, <2>2, <2>3
<1>6. CASE ~e(own).reverts
  <2>1. \A n \in T : /\ n[3] /\ ~e(n[2]).reverts /\ n[2] \in Call
                     /\ Has(e(n[2]).calls) \subseteq Has(e(own).calls)
    BY <1>6, TreeRuns, TreeNodes, Zenon DEF RunsIn
  <2>2. ASSUME NEW n \in T, ~Batch(n[2])
        PROVE  ~(IsMultiSend(n[2].to) /\ RevertsAlways(n[2])) /\ n[2] \in Has(e(own).calls)
    <3>1. /\ e(n[2]).reverts <=> IsMultiSend(n[2].to) /\ RevertsAlways(n[2])
          /\ ~e(n[2]).reverts => e(n[2]).calls = <<n[2]>>
      BY <1>1, <2>1, <2>2, OtherParts
    <3>2. Has(<<n[2]>>) = {n[2]}
      BY DEF Has
    <3> HIDE DEF T, e
    <3> QED BY <2>1, <2>2, <3>1, <3>2
  <2>3. ASSUME NEW n \in T PROVE ~ClassifyCommand!CannotRun(n)
    <3>1. CASE Batch(n[2])
      <4>1. ~RevertsAlways(n[2])
        BY <3>1 DEF Batch, RevertsAlways
      <4> QED BY <2>1, <4>1, Cannot, Zenon
    <3>2. CASE ~Batch(n[2])
      BY <2>1, <2>2, <3>2, Cannot, Zenon
    <3> QED BY <3>1, <3>2
  <2>4. M = {n \in T : ~Batch(n[2])}
    <3>1. ~\E n \in T : ClassifyCommand!CannotRun(n)
      BY <2>3
    <3>2. M = {n \in T : ~ClassifyCommand!IsBatch(n[2])}
      BY <3>1, Zenon DEF ClassifyCommand!MadeCalls
    <3> QED BY <1>4, <3>2, Zenon
  <2> HIDE DEF M, T, e, own
  <2>5. ASSUME NEW x \in Has(e(own).calls) PROVE x \in {n[2] : n \in M}
    <3>1. PICK m \in T : m[2] = x /\ ~Batch(x)
      BY <1>3, <1>6
    <3>2. m \in M
      BY <2>4, <3>1
    <3> QED BY <3>1, <3>2
  <2>6. \A n \in M : n[2] \in Has(e(own).calls)
    BY <2>2, <2>4
  <2>7. ASSUME NEW x \in {n[2] : n \in M} PROVE x \in Has(e(own).calls)
    <3>1. PICK n \in M : x = n[2]
      OBVIOUS
    <3> QED BY <2>6, <3>1
  <2> QED BY <2>5, <2>7, Zenon DEF M, e, own
<1> HIDE DEF e
<1> QED BY <1>5, <1>6

\* One of them is in no batch exactly if it is of the kind "root", and isn't one that
\* stands for others.
LEMMA MadeCall ==
  ASSUME NEW r \in Requests, NEW n \in ClassifyCommand!MadeCalls(r)
  PROVE  /\ n[2] \in Call /\ n[2].kind \in {"root", "batched"}
         /\ n[1] = <<>> <=> n[2].kind = "root"
         /\ ~Batch(n[2]) /\ ~(IsMultiSend(n[2].to) /\ RevertsAlways(n[2]))
<1>1. /\ n \in ClassifyCommand!Tree(r) /\ ~ClassifyCommand!IsBatch(n[2])
      /\ ~ClassifyCommand!CannotRun(n)
  BY Zenon DEF ClassifyCommand!MadeCalls
<1>2. ~Batch(n[2])
  BY <1>1, ChecksCalls, Zenon DEF ClassifyCommand!IsBatch, Batch
<1>3. ~(IsMultiSend(n[2].to) /\ RevertsAlways(n[2]))
  BY <1>1, Cannot, Zenon
<1>4. OwnCall(r.tx).kind = "root"
  BY DEF OwnCall
<1>5. CASE n[1] = <<>> /\ n = <<<<>>, OwnCall(r.tx), TRUE>>
  <2>1. n[2] = OwnCall(r.tx)
    BY <1>5
  <2> QED BY <1>1, <1>2, <1>3, <1>4, <1>5, <2>1, TreeNodes
<1>6. CASE n[1] # <<>> /\ n[2].kind = "batched"
  BY <1>1, <1>2, <1>3, <1>6, TreeNodes
<1> QED BY <1>1, <1>5, <1>6, TreeNodes

\* The calls that the rules judge, and the refund, if there is one.
Made(r) == {n[2] : n \in ClassifyCommand!MadeCalls(r)}

Refunds(t) == IF t.gasPrice = 0 THEN {} ELSE {GasRefund(t)}

\* The calls that checks judge are those that the rules judge, or one that stands
\* for none, and the refund.
LEMMA ComponentsAre ==
  ASSUME NEW r \in Requests
  PROVE  /\ Made(r) # {} => Has(Components(r.tx)) = Made(r) \cup Refunds(r.tx)
         /\ Made(r) = {} =>
              /\ IsMultiSend(r.tx.to)
              /\ \E x \in {RevertingMultiSend(r.tx.to), EmptyMultiSend(r.tx.to)} :
                   Has(Components(r.tx)) = {x} \cup Refunds(r.tx)
<1> DEFINE t == r.tx
           own == OwnCall(t)
           e == ExpandMultiSendCall(t.safe, own)
           E == ExpandTransactionCalls(t)
<1>1. own \in Call /\ t.safe \in Safes
  BY OwnNests
<1>2. Made(r) = Has(e.calls)
  BY MadeAreExpanded DEF Made
<1>3. IsTuple(e.calls) /\ (e.reverts => e.calls = <<>>)
  BY <1>1, ExpandsCalls DEF Expands
<1>4. \A x : IsTuple(<<x>>) /\ Has(<<x>>) = {x}
  BY DEF IsTuple, OfLength, Has
<1>5. IsTuple(<<>>) /\ Has(<<>>) = {}
  BY DEF IsTuple, OfLength, Has
<1>6. E = IF e.reverts THEN <<RevertingMultiSend(t.to)>>
          ELSE IF e.calls = <<>> THEN <<EmptyMultiSend(t.to)>> ELSE e.calls
  BY DEF ExpandTransactionCalls
<1>7. own.to = t.to
  BY DEF OwnCall
<1>8. Components(t) = E \o (IF t.gasPrice = 0 THEN <<>> ELSE <<GasRefund(t)>>)
  BY DEF Components
<1>9. ~IsMultiSend(own.to) => e.calls = <<own>>
  <2> HIDE DEF own
  <2> SUFFICES ASSUME ~IsMultiSend(own.to) PROVE e.calls = <<own>>
    OBVIOUS
  <2>1. ~Batch(own)
    BY DEF Batch
  <2> QED BY <1>1, <2>1, OtherParts
<1> HIDE DEF own, e, E
<1>10. IsTuple(E)
  BY <1>3, <1>4, <1>6
<1>11. Has(Components(t)) = Has(E) \cup Refunds(t)
  <2>1. CASE t.gasPrice = 0
    <3>1. Has(Components(t)) = Has(E) \cup {}
      BY <1>5, <1>8, <1>10, <2>1, JoinedHas
    <3> QED BY <2>1, <3>1 DEF Refunds
  <2>2. CASE t.gasPrice # 0
    <3>1. Has(Components(t)) = Has(E) \cup {GasRefund(t)}
      BY <1>4, <1>8, <1>10, <2>2, JoinedHas
    <3> QED BY <2>2, <3>1 DEF Refunds
  <2> QED BY <2>1, <2>2
<1>12. CASE e.calls = <<>>
  <2>1. Made(r) = {}
    BY <1>2, <1>5, <1>12
  <2>2. Has(<<own>>) # {}
    BY <1>4
  <2>3. IsMultiSend(t.to)
    BY <1>2, <1>7, <1>9, <2>1, <2>2
  <2>4. Has(E) = {RevertingMultiSend(t.to)} \/ Has(E) = {EmptyMultiSend(t.to)}
    BY <1>4, <1>6, <1>12
  <2> QED BY <1>11, <2>1, <2>3, <2>4
<1>13. CASE e.calls # <<>>
  <2>1. E = e.calls
    BY <1>3, <1>6, <1>13
  <2>2. Has(e.calls) # {}
    BY <1>3, <1>13, TailHas
  <2> QED BY <1>2, <1>11, <2>1, <2>2
<1> QED BY <1>12, <1>13

\* The functions that change a setting.
Settings ==
  {"addOwnerWithThreshold", "removeOwner", "swapOwner", "changeThreshold", "enableModule",
   "disableModule", "setGuard", "setFallbackHandler", "setModuleGuard"}

\* The list of functions has these nine.
LEMMA SettingsListed ==
  /\ ClassifyCommand!ToSet(ClassifyCommand!SettingsFunctions) = Settings
  /\ OfLength(ClassifyCommand!SettingsFunctions, 9)
<1> DEFINE f == ClassifyCommand!SettingsFunctions
<1>1. DOMAIN f = 1 .. 9 /\ OfLength(f, 9)
  BY DEF ClassifyCommand!SettingsFunctions, OfLength
<1>2. 1 .. 9 = {1, 2, 3, 4, 5, 6, 7, 8, 9}
  OBVIOUS
<1>3. /\ f[1] = "addOwnerWithThreshold" /\ f[2] = "removeOwner" /\ f[3] = "swapOwner"
      /\ f[4] = "changeThreshold" /\ f[5] = "enableModule" /\ f[6] = "disableModule"
      /\ f[7] = "setGuard" /\ f[8] = "setFallbackHandler" /\ f[9] = "setModuleGuard"
  BY DEF ClassifyCommand!SettingsFunctions
<1> HIDE DEF f
<1>4. ClassifyCommand!ToSet(f) = {f[k] : k \in {1, 2, 3, 4, 5, 6, 7, 8, 9}}
  BY <1>1, <1>2 DEF ClassifyCommand!ToSet
<1>5. ClassifyCommand!ToSet(f) = Settings
  BY <1>3, <1>4 DEF Settings
<1> QED BY <1>1, <1>5 DEF f

\* The first check is of the chain, the second of the Safe, and the others are of
\* the functions that change settings.
LEMMA InsecureListed ==
  LET q == ClassifyCommand!InsecureChecks
  IN /\ DOMAIN q = 1 .. 11 /\ Len(q) = 11
     /\ q[1] = "offNetwork" /\ q[2] = "unsupportedSafe"
     /\ Settings = {q[k] : k \in 3 .. 11}
<1> DEFINE q == ClassifyCommand!InsecureChecks
           s == <<"offNetwork", "unsupportedSafe">>
           f == ClassifyCommand!SettingsFunctions
<1>1. OfLength(s, 2) /\ s[1] = "offNetwork" /\ s[2] = "unsupportedSafe"
  BY DEF OfLength
<1>2. OfLength(f, 9) /\ DOMAIN f = 1 .. 9
  BY SettingsListed, LengthOf
<1>3. Settings = {f[k] : k \in DOMAIN f}
  BY SettingsListed DEF ClassifyCommand!ToSet
<1>4. q = s \o f
  BY DEF ClassifyCommand!InsecureChecks
<1> HIDE DEF q, s, f
<1>5. Joins(q, s, 2, f, 9)
  BY <1>1, <1>2, <1>4, Joined
<1>6. /\ OfLength(q, 2 + 9) /\ \A j \in 1 .. 2 : q[j] = s[j]
      /\ \A j \in 1 .. 9 : q[2 + j] = f[j]
  BY <1>5 DEF Joins
<1>7. DOMAIN q = 1 .. 11 /\ Len(q) = 11
  <2>1. 2 + 9 = 11
    OBVIOUS
  <2>2. OfLength(q, 11)
    BY <1>6, <2>1
  <2> QED BY <2>2, LengthOf
<1>8. q[1] = s[1] /\ q[2] = s[2]
  BY <1>6
<1>9. ASSUME NEW x \in Settings PROVE \E k \in 3 .. 11 : x = q[k]
  <2>1. PICK j \in 1 .. 9 : x = f[j]
    BY <1>2, <1>3
  <2>2. 2 + j \in 3 .. 11
    OBVIOUS
  <2> QED BY <1>6, <2>1, <2>2
<1>10. ASSUME NEW k \in 3 .. 11 PROVE q[k] \in Settings
  <2>1. k - 2 \in 1 .. 9 /\ 2 + (k - 2) = k
    OBVIOUS
  <2> QED BY <1>2, <1>3, <1>6, <2>1
<1>11. Settings = {q[k] : k \in 3 .. 11}
  BY <1>9, <1>10
<1> QED BY <1>1, <1>7, <1>8, <1>11 DEF q

\* What each check finds.
LEMMA MatchesIs ==
  ASSUME NEW r, NEW c, NEW v
  PROVE  /\ ClassifyCommand!Matches("offNetwork", r, c, v) <=> r.tx.chain \notin Networks
         /\ ClassifyCommand!Matches("unsupportedSafe", r, c, v) <=> v = "none"
         /\ \A f \in Settings : ClassifyCommand!Matches(f, r, c, v) <=> ClassifyCommand!SettingsChange(f, r, c, v)
         /\ ClassifyCommand!Matches("emptyMultiSend", r, c, v) <=> IsMultiSend(c.to) /\ c = EmptyMultiSend(c.to)
         /\ ClassifyCommand!Matches("invalidMultiSend", r, c, v) <=> IsMultiSend(c.to) /\ c = RevertingMultiSend(c.to)
         /\ ClassifyCommand!Matches("allowedDisableModule", r, c, v) <=>
              ClassifyCommand!SelfCall(r, c, "disableModule") /\ ClassifyCommand!AllowedDisableModule(c)
         /\ ClassifyCommand!Matches("allowedSetFallbackHandler", r, c, v) <=>
              ClassifyCommand!SelfCall(r, c, "setFallbackHandler") /\ ClassifyCommand!AllowedSetFallbackHandler(c)
         /\ ClassifyCommand!Matches("emptySelfCall", r, c, v) <=> ClassifyCommand!EmptyCall(c, r.tx.safe)
         /\ ClassifyCommand!Matches("emptyZeroAddressCall", r, c, v) <=> ClassifyCommand!EmptyCall(c, "zero")
<1>1. ClassifyCommand!Matches("offNetwork", r, c, v) <=> r.tx.chain \notin Networks
  BY DEF ClassifyCommand!Matches
<1>2. ClassifyCommand!Matches("unsupportedSafe", r, c, v) <=> v = "none"
  BY DEF ClassifyCommand!Matches
<1>3. ASSUME NEW f \in Settings
      PROVE  ClassifyCommand!Matches(f, r, c, v) <=> ClassifyCommand!SettingsChange(f, r, c, v)
  <2>1. f \notin {"offNetwork", "unsupportedSafe", "emptyMultiSend", "invalidMultiSend",
                  "allowedDisableModule", "allowedSetFallbackHandler", "emptySelfCall",
                  "emptyZeroAddressCall"}
    BY DEF Settings
  <2> QED BY <2>1 DEF ClassifyCommand!Matches
<1>4. ClassifyCommand!Matches("emptyMultiSend", r, c, v) <=> IsMultiSend(c.to) /\ c = EmptyMultiSend(c.to)
  BY ChecksCalls DEF ClassifyCommand!Matches
<1>5. ClassifyCommand!Matches("invalidMultiSend", r, c, v) <=> IsMultiSend(c.to) /\ c = RevertingMultiSend(c.to)
  BY ChecksCalls DEF ClassifyCommand!Matches
<1>6. ClassifyCommand!Matches("allowedDisableModule", r, c, v) <=>
        ClassifyCommand!SelfCall(r, c, "disableModule") /\ ClassifyCommand!AllowedDisableModule(c)
  BY DEF ClassifyCommand!Matches
<1>7. ClassifyCommand!Matches("allowedSetFallbackHandler", r, c, v) <=>
        ClassifyCommand!SelfCall(r, c, "setFallbackHandler") /\ ClassifyCommand!AllowedSetFallbackHandler(c)
  BY DEF ClassifyCommand!Matches
<1>8. ClassifyCommand!Matches("emptySelfCall", r, c, v) <=> ClassifyCommand!EmptyCall(c, r.tx.safe)
  BY DEF ClassifyCommand!Matches
<1>9. ClassifyCommand!Matches("emptyZeroAddressCall", r, c, v) <=> ClassifyCommand!EmptyCall(c, "zero")
  BY DEF ClassifyCommand!Matches
<1> QED BY <1>1, <1>2, <1>3, <1>4, <1>5, <1>6, <1>7, <1>8, <1>9, Zenon

\* A check of a settings function finds the calls that change its setting, each for
\* its own.
LEMMA ChangesSettingIs ==
  ASSUME NEW r \in Requests, NEW n \in ClassifyCommand!MadeCalls(r)
  PROVE  (\E f \in Settings : ClassifyCommand!SettingsChange(f, r, n[2], ClassifyCommand!ReadVersion(r)))
            <=> ClassifyCommand!ChangesSetting(r, n)
<1> DEFINE c == n[2]
           v == ClassifyCommand!ReadVersion(r)
           root == c.kind = "root"
           canonical == c.value = 0 /\ c.data.len = "exact" /\ ~c.data.dirty
<1>1. n[1] = <<>> <=> root
  BY MadeCall
<1> HIDE DEF c, v, root
<1>2. ClassifyCommand!AllowedDisableModule(c) <=> root /\ canonical
  BY Zenon DEF ClassifyCommand!AllowedDisableModule, ClassifyCommand!CanonicalRootCall, root
<1>3. ClassifyCommand!AllowedSetFallbackHandler(c) <=> root /\ canonical /\ c.data.arg = "zero"
  BY Zenon DEF ClassifyCommand!AllowedSetFallbackHandler, ClassifyCommand!CanonicalRootCall, root
<1>4. ClassifyCommand!Excepted(n) <=>
        root /\ canonical /\ (c.data.fn = "disableModule" \/ (c.data.fn = "setFallbackHandler" /\ c.data.arg = "zero"))
  BY <1>1, Zenon DEF ClassifyCommand!Excepted, c
<1> HIDE DEF canonical
<1>5. \A f : ClassifyCommand!Abstains(f, c, v) <=>
        \/ f \in {"addOwnerWithThreshold", "swapOwner"} /\ c.data.arg \in {"zero", "sentinel"}
        \/ f = "disableModule" /\ root /\ canonical
        \/ f = "setFallbackHandler" /\ root /\ canonical /\ c.data.arg = "zero"
        \/ f = "setModuleGuard" /\ v \notin {"1.5.0", "1.5.0+L2"}
  BY <1>2, <1>3, Zenon DEF ClassifyCommand!Abstains, ClassifyCommand!AddsInvalidOwner
<1>6. \A f : ClassifyCommand!SettingsChange(f, r, c, v) <=>
        /\ c.to = r.tx.safe /\ c.op = "call" /\ c.data.fn = f
        /\ c.data.len # "short" /\ ~ClassifyCommand!Abstains(f, c, v)
  BY Zenon DEF ClassifyCommand!SettingsChange, ClassifyCommand!SelfCall
<1>7. (\E f \in Settings : ClassifyCommand!SettingsChange(f, r, c, v)) <=>
        /\ c.to = r.tx.safe /\ c.op = "call" /\ c.data.fn \in Settings
        /\ c.data.len # "short" /\ ~ClassifyCommand!Abstains(c.data.fn, c, v)
  BY <1>6, Zenon
<1>8. ClassifyCommand!ChangesSetting(r, n) <=>
        /\ c.to = r.tx.safe /\ c.op = "call" /\ c.data.fn \in Settings
        /\ c.data.len # "short"
        /\ ~(c.data.fn \in {"addOwnerWithThreshold", "swapOwner"} /\ c.data.arg \in {"zero", "sentinel"})
        /\ c.data.fn = "setModuleGuard" => v \in {"1.5.0", "1.5.0+L2"}
        /\ ~ClassifyCommand!Excepted(n)
  BY SettingsListed, Zenon DEF ClassifyCommand!ChangesSetting, c, v
<1> HIDE DEF Settings
<1>9. ~ClassifyCommand!Abstains(c.data.fn, c, v) <=>
        /\ ~(c.data.fn \in {"addOwnerWithThreshold", "swapOwner"} /\ c.data.arg \in {"zero", "sentinel"})
        /\ c.data.fn = "setModuleGuard" => v \in {"1.5.0", "1.5.0+L2"}
        /\ ~ClassifyCommand!Excepted(n)
  BY <1>4, <1>5, Zenon
<1> QED BY <1>7, <1>8, <1>9, Zenon DEF c, v

\* No check of a settings function finds a call that stands for none, or the refund.
LEMMA OthersChangeNothing ==
  ASSUME NEW r, NEW to, NEW v, NEW f \in Settings,
         NEW x \in {RevertingMultiSend(to), EmptyMultiSend(to), GasRefund(r.tx)}
  PROVE  ~ClassifyCommand!SettingsChange(f, r, x, v)
<1>1. f \notin {"none", "transfer"}
  BY DEF Settings
<1>2. RevertingMultiSend(to).data.fn = "none" /\ EmptyMultiSend(to).op = "delegatecall"
  BY DEF RevertingMultiSend, EmptyMultiSend, NoData
<1>3. GasRefund(r.tx).data.fn \in {"none", "transfer"}
  BY DEF GasRefund, NoData, Data
<1>4. x.data.fn # f \/ x.op # "call"
  BY <1>1, <1>2, <1>3
<1> QED BY <1>4, Zenon DEF ClassifyCommand!SettingsChange, ClassifyCommand!SelfCall

\* A check of a settings function finds something exactly if a call changes a
\* setting.
LEMMA SettingsFound ==
  ASSUME NEW r \in Requests
  PROVE  (\E x \in Has(Components(r.tx)), f \in Settings :
            ClassifyCommand!Matches(f, r, x, ClassifyCommand!ReadVersion(r)))
            <=> \E n \in ClassifyCommand!MadeCalls(r) : ClassifyCommand!ChangesSetting(r, n)
<1> DEFINE v == ClassifyCommand!ReadVersion(r)
           C == Has(Components(r.tx))
           changes(x) == \E f \in Settings : ClassifyCommand!SettingsChange(f, r, x, v)
           Other == {RevertingMultiSend(r.tx.to), EmptyMultiSend(r.tx.to), GasRefund(r.tx)}
<1>1. \A x : changes(x) <=> \E f \in Settings : ClassifyCommand!Matches(f, r, x, v)
  BY MatchesIs, Zenon
<1>2. \A x \in Other : ~changes(x)
  BY OthersChangeNothing
<1>3. \A n \in ClassifyCommand!MadeCalls(r) : changes(n[2]) <=> ClassifyCommand!ChangesSetting(r, n)
  BY ChangesSettingIs
<1>4. Made(r) \subseteq C /\ C \subseteq Made(r) \cup Other
  BY ComponentsAre DEF Refunds
<1> HIDE DEF C, Other, changes, v
<1>5. (\E x \in C : changes(x)) <=> \E x \in Made(r) : changes(x)
  BY <1>2, <1>4
<1>6. (\E x \in Made(r) : changes(x)) <=> \E n \in ClassifyCommand!MadeCalls(r) : changes(n[2])
  BY DEF Made
<1> QED BY <1>1, <1>3, <1>5, <1>6, Zenon DEF C, v

\* A secure check has the call x in its class.
SecureFor(r, x) ==
  \E k \in DOMAIN ClassifyCommand!SecureChecks :
    ClassifyCommand!Matches(ClassifyCommand!SecureChecks[k], r, x, "unread")

\* What the secure checks match.
LEMMA SecureIs ==
  ASSUME NEW r, NEW x
  PROVE  SecureFor(r, x) <=>
           \/ IsMultiSend(x.to) /\ x \in {EmptyMultiSend(x.to), RevertingMultiSend(x.to)}
           \/ /\ x.to = r.tx.safe /\ x.op = "call"
              /\ x.kind = "root" /\ x.value = 0 /\ x.data.len = "exact" /\ ~x.data.dirty
              /\ x.data.fn = "disableModule" \/ (x.data.fn = "setFallbackHandler" /\ x.data.arg = "zero")
           \/ /\ x.kind # "refund" /\ x.to \in {r.tx.safe, "zero"}
              /\ x.op = "call" /\ x.value = 0 /\ x.data = NoData
<1> DEFINE q == ClassifyCommand!SecureChecks
           m(s) == ClassifyCommand!Matches(s, r, x, "unread")
<1>1. /\ DOMAIN q = {1, 2, 3, 4, 5, 6} 
      /\ q[1] = "emptyMultiSend" /\ q[2] = "invalidMultiSend" /\ q[3] = "allowedDisableModule"
      /\ q[4] = "allowedSetFallbackHandler" /\ q[5] = "emptySelfCall" /\ q[6] = "emptyZeroAddressCall"
  <2>1. DOMAIN q = 1 .. 6
    BY DEF ClassifyCommand!SecureChecks
  <2>2. 1 .. 6 = {1, 2, 3, 4, 5, 6}
    OBVIOUS
  <2> QED BY <2>1, <2>2 DEF ClassifyCommand!SecureChecks
<1>2. m("emptyMultiSend") <=> IsMultiSend(x.to) /\ x = EmptyMultiSend(x.to)
  BY MatchesIs
<1>3. m("invalidMultiSend") <=> IsMultiSend(x.to) /\ x = RevertingMultiSend(x.to)
  BY MatchesIs
<1>4. m("allowedDisableModule") <=>
        /\ x.to = r.tx.safe /\ x.op = "call" /\ x.data.fn = "disableModule"
        /\ x.kind = "root" /\ x.value = 0 /\ x.data.len = "exact" /\ ~x.data.dirty
  BY MatchesIs, Zenon DEF ClassifyCommand!SelfCall, ClassifyCommand!AllowedDisableModule,
                          ClassifyCommand!CanonicalRootCall
<1>5. m("allowedSetFallbackHandler") <=>
        /\ x.to = r.tx.safe /\ x.op = "call" /\ x.data.fn = "setFallbackHandler"
        /\ x.kind = "root" /\ x.value = 0 /\ x.data.len = "exact" /\ ~x.data.dirty
        /\ x.data.arg = "zero"
  BY MatchesIs, Zenon DEF ClassifyCommand!SelfCall, ClassifyCommand!AllowedSetFallbackHandler,
                          ClassifyCommand!CanonicalRootCall
<1>6. \A to : ClassifyCommand!EmptyCall(x, to) <=>
        x.kind # "refund" /\ x.to = to /\ x.op = "call" /\ x.value = 0 /\ x.data = NoData
  BY ChecksCalls, Zenon DEF ClassifyCommand!EmptyCall
<1>7. /\ m("emptySelfCall") <=> ClassifyCommand!EmptyCall(x, r.tx.safe)
      /\ m("emptyZeroAddressCall") <=> ClassifyCommand!EmptyCall(x, "zero")
  BY MatchesIs
<1> HIDE DEF m, q
<1>8. (\E k \in DOMAIN q : m(q[k])) <=>
        \/ m("emptyMultiSend") \/ m("invalidMultiSend") \/ m("allowedDisableModule")
        \/ m("allowedSetFallbackHandler") \/ m("emptySelfCall") \/ m("emptyZeroAddressCall")
  BY <1>1
<1>9. SecureFor(r, x) <=> \E k \in DOMAIN q : m(q[k])
  BY Zenon DEF SecureFor, m, q
<1> QED BY <1>2, <1>3, <1>4, <1>5, <1>6, <1>7, <1>8, <1>9, Zenon

\* Of the calls that the rules judge, the secure checks match those that are harmless.
LEMMA HarmlessIs ==
  ASSUME NEW r \in Requests, NEW n \in ClassifyCommand!MadeCalls(r)
  PROVE  SecureFor(r, n[2]) <=> ClassifyCommand!Harmless(r, n)
<1> DEFINE c == n[2]
           exception == /\ c.kind = "root" /\ c.value = 0 /\ c.data.len = "exact" /\ ~c.data.dirty
                        /\ c.data.fn = "disableModule" \/ (c.data.fn = "setFallbackHandler" /\ c.data.arg = "zero")
<1>1. /\ c.kind \in {"root", "batched"} /\ (n[1] = <<>> <=> c.kind = "root")
      /\ ~Batch(c) /\ ~(IsMultiSend(c.to) /\ RevertsAlways(c))
  BY MadeCall
<1>2. ClassifyCommand!Excepted(n) <=> exception
  BY <1>1, Zenon DEF ClassifyCommand!Excepted
<1>3. ClassifyCommand!Harmless(r, n) <=>
        /\ c.op = "call"
        /\ \/ c.to \in {r.tx.safe, "zero"} /\ c.value = 0 /\ c.data = NoData
           \/ c.to = r.tx.safe /\ exception
  BY <1>2, ChecksCalls, Zenon DEF ClassifyCommand!Harmless
<1> HIDE DEF c
<1>4. ~(IsMultiSend(c.to) /\ c \in {EmptyMultiSend(c.to), RevertingMultiSend(c.to)})
  <2>1. CASE IsMultiSend(c.to) /\ c = EmptyMultiSend(c.to)
    <3>1. EmptyMultiSend(c.to).op = "delegatecall" /\ EmptyMultiSend(c.to).data.fn = "multiSend"
          /\ EmptyMultiSend(c.to).data.decodes
      BY DEF EmptyMultiSend, Data, NoData
    <3> QED BY <1>1, <2>1, <3>1, Zenon DEF Batch
  <2>2. CASE IsMultiSend(c.to) /\ c = RevertingMultiSend(c.to)
    <3>1. RevertingMultiSend(c.to).data.fn = "none"
      BY DEF RevertingMultiSend, NoData
    <3>2. c.data.fn # "multiSend"
      BY <2>2, <3>1
    <3> QED BY <1>1, <2>2, <3>2 DEF RevertsAlways
  <2> QED BY <2>1, <2>2
<1>5. SecureFor(r, c) <=>
        \/ c.to = r.tx.safe /\ c.op = "call" /\ exception
        \/ c.kind # "refund" /\ c.to \in {r.tx.safe, "zero"} /\ c.op = "call" /\ c.value = 0 /\ c.data = NoData
  BY <1>4, SecureIs, Zenon
<1> HIDE DEF exception
<1> QED BY <1>1, <1>3, <1>5, Zenon DEF c

\* The secure checks have all calls in their classes exactly if there is no refund
\* and each call is harmless.
LEMMA SecureFound ==
  ASSUME NEW r \in Requests
  PROVE  (\A x \in Has(Components(r.tx)) : SecureFor(r, x)) <=>
            r.tx.gasPrice = 0 /\ \A n \in ClassifyCommand!MadeCalls(r) : ClassifyCommand!Harmless(r, n)
<1> DEFINE t == r.tx
           C == Has(Components(t))
<1>1. \A n \in ClassifyCommand!MadeCalls(r) : SecureFor(r, n[2]) <=> ClassifyCommand!Harmless(r, n)
  BY HarmlessIs
<1>2. (\A x \in Made(r) : SecureFor(r, x)) <=>
        \A n \in ClassifyCommand!MadeCalls(r) : ClassifyCommand!Harmless(r, n)
  BY <1>1 DEF Made
<1>3. ~SecureFor(r, GasRefund(t))
  <2>1. GasRefund(t).kind = "refund"
    BY DEF GasRefund
  <2>2. \A to : RevertingMultiSend(to).kind = "root" /\ EmptyMultiSend(to).kind = "root"
    BY DEF RevertingMultiSend, EmptyMultiSend
  <2> DEFINE x == GasRefund(t)
  <2> HIDE DEF x
  <2>3. x.kind = "refund" => ~SecureFor(r, x)
    BY <2>2, SecureIs
  <2> QED BY <2>1, <2>3 DEF x
<1>4. IsMultiSend(t.to) => \A x \in {RevertingMultiSend(t.to), EmptyMultiSend(t.to)} : SecureFor(r, x)
  <2> SUFFICES ASSUME IsMultiSend(t.to), NEW x \in {RevertingMultiSend(t.to), EmptyMultiSend(t.to)}
               PROVE  SecureFor(r, x)
    OBVIOUS
  <2>1. x.to = t.to
    BY DEF RevertingMultiSend, EmptyMultiSend
  <2> QED BY <2>1, SecureIs
<1>5. CASE t.gasPrice # 0
  <2>1. GasRefund(t) \in C
    BY <1>5, ComponentsAre DEF Refunds
  <2> QED BY <1>3, <1>5, <2>1
<1>6. CASE t.gasPrice = 0 /\ Made(r) # {}
  <2>1. C = Made(r)
    BY <1>6, ComponentsAre DEF Refunds
  <2> QED BY <1>2, <1>6, <2>1
<1>7. CASE t.gasPrice = 0 /\ Made(r) = {}
  <2>1. PICK x \in {RevertingMultiSend(t.to), EmptyMultiSend(t.to)} : C = {x}
    BY <1>7, ComponentsAre DEF Refunds
  <2>2. IsMultiSend(t.to)
    BY <1>7, ComponentsAre
  <2>3. \A y \in Made(r) : SecureFor(r, y)
    BY <1>7
  <2> HIDE DEF C
  <2> QED BY <1>2, <1>4, <1>7, <2>1, <2>2, <2>3 DEF C
<1> QED BY <1>5, <1>6, <1>7

\* Whether check k finds a call of a request insecure, with the version that its
\* Safe has.
FindsAt(r, k) ==
  \E x \in Has(Components(r.tx)) :
    ClassifyCommand!Matches(ClassifyCommand!InsecureChecks[k], r, x, ClassifyCommand!ReadVersion(r))

\* The checks in order: the chain, the Safe, and the settings functions.
LEMMA FindsAtIs ==
  ASSUME NEW r \in Requests
  PROVE  /\ FindsAt(r, 1) <=> r.tx.chain \notin Networks
         /\ FindsAt(r, 2) <=> ClassifyCommand!ReadVersion(r) = "none"
         /\ (\E k \in 3 .. 11 : FindsAt(r, k)) <=>
              \E n \in ClassifyCommand!MadeCalls(r) : ClassifyCommand!ChangesSetting(r, n)
<1> DEFINE q == ClassifyCommand!InsecureChecks
           C == Has(Components(r.tx))
           v == ClassifyCommand!ReadVersion(r)
           m(s, x) == ClassifyCommand!Matches(s, r, x, v)
<1>1. q[1] = "offNetwork" /\ q[2] = "unsupportedSafe" /\ Settings = {q[k] : k \in 3 .. 11}
  BY InsecureListed
<1>2. C # {}
  BY ComponentsAre
<1>3. \A x : /\ m("offNetwork", x) <=> r.tx.chain \notin Networks
             /\ m("unsupportedSafe", x) <=> v = "none"
  BY MatchesIs
<1>4. (\E x \in C, f \in Settings : m(f, x)) <=>
        \E n \in ClassifyCommand!MadeCalls(r) : ClassifyCommand!ChangesSetting(r, n)
  BY SettingsFound
<1>5. \A k : FindsAt(r, k) <=> \E x \in C : m(q[k], x)
  BY DEF FindsAt
<1> HIDE DEF q, C, v, m, Settings
<1>6. FindsAt(r, 1) <=> r.tx.chain \notin Networks
  BY <1>1, <1>2, <1>3, <1>5
<1>7. FindsAt(r, 2) <=> v = "none"
  BY <1>1, <1>2, <1>3, <1>5
<1>8. (\E k \in 3 .. 11 : FindsAt(r, k)) <=> \E x \in C, f \in Settings : m(f, x)
  BY <1>1, <1>5
<1> QED BY <1>4, <1>6, <1>7, <1>8, Zenon DEF v

\* What the rules say, by what the checks find.
LEMMA VerdictFound ==
  ASSUME NEW r \in Requests
  PROVE  /\ FindsAt(r, 1) \/ FindsAt(r, 2) => ClassifyCommand!CharterVerdict(r) = <<"insecure", "R-4.0">>
         /\ ~FindsAt(r, 1) /\ ~FindsAt(r, 2) =>
              ClassifyCommand!CharterVerdict(r) =
                IF \E k \in 3 .. 11 : FindsAt(r, k) THEN <<"insecure", "R-4.1">>
                ELSE IF \A x \in Has(Components(r.tx)) : SecureFor(r, x) THEN <<"secure", "">>
                ELSE <<"unclassified", "">>
<1> DEFINE changes == \E n \in ClassifyCommand!MadeCalls(r) : ClassifyCommand!ChangesSetting(r, n)
           harmless == \A n \in ClassifyCommand!MadeCalls(r) : ClassifyCommand!Harmless(r, n)
           chained == r.tx.chain \in Networks
           versioned == ClassifyCommand!ReadVersion(r) # "none"
           V == ClassifyCommand!CharterVerdict(r)
<1>1. /\ FindsAt(r, 1) <=> ~chained
      /\ FindsAt(r, 2) <=> ~versioned
      /\ (\E k \in 3 .. 11 : FindsAt(r, k)) <=> changes
  BY FindsAtIs, Zenon
<1>2. (\A x \in Has(Components(r.tx)) : SecureFor(r, x)) <=> r.tx.gasPrice = 0 /\ harmless
  BY SecureFound
<1>3. ~chained => V = <<"insecure", "R-4.0">>
  BY DEF ClassifyCommand!CharterVerdict
<1>4. chained /\ ~versioned => V = <<"insecure", "R-4.0">>
  BY DEF ClassifyCommand!CharterVerdict
<1>5. chained /\ versioned =>
        V = IF changes THEN <<"insecure", "R-4.1">>
            ELSE IF r.tx.gasPrice = 0 /\ harmless THEN <<"secure", "">> ELSE <<"unclassified", "">>
  BY DEF ClassifyCommand!CharterVerdict
<1> HIDE DEF changes, harmless, chained, versioned, V
<1>6. FindsAt(r, 1) \/ FindsAt(r, 2) => V = <<"insecure", "R-4.0">>
  BY <1>1, <1>3, <1>4
<1>7. ~FindsAt(r, 1) /\ ~FindsAt(r, 2) =>
        V = IF \E k \in 3 .. 11 : FindsAt(r, k) THEN <<"insecure", "R-4.1">>
            ELSE IF \A x \in Has(Components(r.tx)) : SecureFor(r, x) THEN <<"secure", "">>
            ELSE <<"unclassified", "">>
  BY <1>1, <1>2, <1>5
<1> QED BY <1>6, <1>7 DEF V

\* What the cache has is what an account has. While checks run, those before the
\* next found nothing, as they would with the version of the Safe.
ClassifyInv ==
  /\ \A r \in Requests : ClassifyCommand!Key(r) \in DOMAIN safeVersions =>
                           safeVersions[ClassifyCommand!Key(r)] = ClassifyCommand!ReadVersion(r)
  /\ result = ClassifyCommand!Idle => check = 1
  /\ result # ClassifyCommand!Idle => request \in Requests
  /\ result = ClassifyCommand!Running =>
       /\ ~request.missing /\ request.block # 0 /\ calls = Components(request.tx)
       /\ check \in 1 .. 12 /\ \A k \in 1 .. check - 1 : ~FindsAt(request, k)
  /\ ClassifyCommand!VerdictIsCharters

\* A classification is none of the other results.
LEMMA ResultsDiffer ==
  /\ ClassifyCommand!Idle # ClassifyCommand!Running /\ ClassifyCommand!Idle # ClassifyCommand!Error
  /\ ClassifyCommand!Running # ClassifyCommand!Error
  /\ \A v \in {"insecure", "secure", "unclassified"} : \A rule, d :
       /\ ClassifyCommand!Classification(v, rule, d) \notin
            {ClassifyCommand!Idle, ClassifyCommand!Running, ClassifyCommand!Error}
       /\ ClassifyCommand!Classification(v, rule, d).verdict = v
       /\ ClassifyCommand!Classification(v, rule, d).rule = rule
<1>1. \A v, rule, d : /\ ClassifyCommand!Classification(v, rule, d).verdict = v
                      /\ ClassifyCommand!Classification(v, rule, d).rule = rule
  BY DEF ClassifyCommand!Classification
<1>2. /\ ClassifyCommand!Idle.verdict = "idle" /\ ClassifyCommand!Running.verdict = "running"
      /\ ClassifyCommand!Error.verdict = "error"
  BY <1>1 DEF ClassifyCommand!Idle, ClassifyCommand!Running, ClassifyCommand!Error
<1> QED BY <1>1, <1>2

\* Nothing is classified or cached at first.
LEMMA ClassifyInitially == ClassifyCommand!Init => ClassifyInv
BY ResultsDiffer DEF ClassifyCommand!Init, ClassifyInv, ClassifyCommand!VerdictIsCharters

\* A request starts at the first check, or has an error.
LEMMA ClassifyKeeps ==
  ASSUME ClassifyInv, ClassifyCommand!Classify
  PROVE  ClassifyInv'
<1>1. PICK r \in Requests :
        /\ request' = r
        /\ IF r.missing \/ r.block = 0
           THEN result' = ClassifyCommand!Error /\ UNCHANGED calls
           ELSE result' = ClassifyCommand!Running /\ calls' = Components(r.tx)
  BY ChecksCalls DEF ClassifyCommand!Classify
<1>2. result = ClassifyCommand!Idle /\ UNCHANGED <<check, safeVersions, dialed>>
  BY DEF ClassifyCommand!Classify
<1>3. check' = 1
  BY <1>2 DEF ClassifyInv
<1>4. \A x \in Requests : ClassifyCommand!Key(x) \in DOMAIN safeVersions' =>
                           safeVersions'[ClassifyCommand!Key(x)] = ClassifyCommand!ReadVersion(x)
  BY <1>2 DEF ClassifyInv
<1>5. CASE r.missing \/ r.block = 0
  <2>1. result' = ClassifyCommand!Error
    BY <1>1, <1>5
  <2> QED BY <1>1, <1>4, <1>5, <2>1, ResultsDiffer DEF ClassifyInv, ClassifyCommand!VerdictIsCharters
<1>6. CASE ~(r.missing \/ r.block = 0)
  <2>1. result' = ClassifyCommand!Running /\ calls' = Components(r.tx)
    BY <1>1, <1>6
  <2>2. check' \in 1 .. 12 /\ 1 .. check' - 1 = {}
    BY <1>3
  <2> QED BY <1>1, <1>4, <1>6, <2>1, <2>2, ResultsDiffer DEF ClassifyInv, ClassifyCommand!VerdictIsCharters
<1> QED BY <1>5, <1>6

\* Two requests with one key read one version.
LEMMA KeyHasVersion ==
  ASSUME NEW r, NEW q, ClassifyCommand!Key(r) = ClassifyCommand!Key(q)
  PROVE  ClassifyCommand!ReadVersion(r) = ClassifyCommand!ReadVersion(q)
<1>1. r.tx.safe = q.tx.safe /\ r.tx.chain = q.tx.chain /\ r.block = q.block
  BY DEF ClassifyCommand!Key
<1> QED BY <1>1, Zenon DEF ClassifyCommand!ReadVersion

\* A version that is read is cached for its key, or the request fails.
LEMMA VersionReadKeeps ==
  ASSUME ClassifyInv, ClassifyCommand!Read
  PROVE  ClassifyInv'
<1> DEFINE key == ClassifyCommand!Key(request)
           v == ClassifyCommand!ReadVersion(request)
<1>1. /\ result = ClassifyCommand!Running /\ check \in 1 .. 11 /\ UNCHANGED <<request, calls, check>>
      /\ ClassifyCommand!CheckReads(ClassifyCommand!InsecureChecks[check])
      /\ \/ safeVersions' = ClassifyCommand!Store(safeVersions, key, v) /\ UNCHANGED result
         \/ result' = ClassifyCommand!Error /\ UNCHANGED safeVersions
  BY InsecureListed DEF ClassifyCommand!Read
<1>2. /\ request \in Requests /\ check \in 1 .. 12
      /\ \A k \in 1 .. check - 1 : ~FindsAt(request, k)
  BY <1>1, ResultsDiffer DEF ClassifyInv
<1>3. request.tx.chain \in Networks
  <2>1. check # 1
    BY <1>1, InsecureListed DEF ClassifyCommand!CheckReads
  <2>2. 1 \in 1 .. check - 1
    BY <1>1, <2>1
  <2> QED BY <1>2, <2>2, FindsAtIs
<1>4. CASE safeVersions' = ClassifyCommand!Store(safeVersions, key, v) /\ UNCHANGED result
  <2>1. safeVersions' = [k \in DOMAIN safeVersions \cup {key} |-> IF k = key THEN v ELSE safeVersions[k]]
    BY <1>4 DEF ClassifyCommand!Store
  <2>2. ASSUME NEW x \in Requests, ClassifyCommand!Key(x) \in DOMAIN safeVersions'
        PROVE  safeVersions'[ClassifyCommand!Key(x)] = ClassifyCommand!ReadVersion(x)
    <3>1. CASE ClassifyCommand!Key(x) = key
      <4>1. ClassifyCommand!ReadVersion(x) = v
        BY <3>1, KeyHasVersion
      <4> HIDE DEF key, v
      <4> QED BY <2>1, <3>1, <4>1
    <3>2. CASE ClassifyCommand!Key(x) # key
      <4> HIDE DEF key, v
      <4>1. ClassifyCommand!Key(x) \in DOMAIN safeVersions
        BY <2>1, <2>2, <3>2
      <4> QED BY <2>1, <3>2, <4>1 DEF ClassifyInv
    <3> QED BY <3>1, <3>2
  <2> QED BY <1>1, <1>4, <2>2, ResultsDiffer DEF ClassifyInv, ClassifyCommand!VerdictIsCharters
<1>5. CASE result' = ClassifyCommand!Error /\ UNCHANGED safeVersions
  BY <1>1, <1>2, <1>3, <1>5, ResultsDiffer DEF ClassifyInv, ClassifyCommand!VerdictIsCharters
<1> QED BY <1>1, <1>4, <1>5

\* Where a check doesn't read the version, it would find the same with it.
LEMMA UnreadAlike ==
  ASSUME NEW k \in 1 .. 11, NEW x \in Has(calls), NEW v,
         ~ClassifyCommand!CheckReads(ClassifyCommand!InsecureChecks[k])
  PROVE  ClassifyCommand!Matches(ClassifyCommand!InsecureChecks[k], request, x, "unread") <=>
         ClassifyCommand!Matches(ClassifyCommand!InsecureChecks[k], request, x, v)
<1> DEFINE s == ClassifyCommand!InsecureChecks[k]
<1>1. /\ ClassifyCommand!InsecureChecks[1] = "offNetwork"
      /\ ClassifyCommand!InsecureChecks[2] = "unsupportedSafe"
      /\ Settings = {ClassifyCommand!InsecureChecks[j] : j \in 3 .. 11}
  BY InsecureListed
<1>2. s = "offNetwork" \/ s = "unsupportedSafe" \/ s \in Settings
  <2>1. k = 1 \/ k = 2 \/ k \in 3 .. 11
    OBVIOUS
  <2> HIDE DEF Settings
  <2> QED BY <1>1, <2>1
<1>3. s # "unsupportedSafe"
  BY DEF ClassifyCommand!CheckReads
<1>4. s = "setModuleGuard" => ~(ClassifyCommand!SelfCall(request, x, s) /\ x.data.len # "short")
  <2>1. PICK j \in DOMAIN calls : x = calls[j]
    BY DEF Has
  <2> QED BY <2>1, Zenon DEF ClassifyCommand!CheckReads
<1> HIDE DEF s
<1>5. CASE s = "offNetwork"
  BY <1>5, MatchesIs DEF s
<1>6. CASE s \in Settings
  <2>1. s # "setModuleGuard" => (ClassifyCommand!Abstains(s, x, "unread") <=> ClassifyCommand!Abstains(s, x, v))
    BY Zenon DEF ClassifyCommand!Abstains
  <2>2. ClassifyCommand!SettingsChange(s, request, x, "unread") <=> ClassifyCommand!SettingsChange(s, request, x, v)
    BY <1>4, <2>1, Zenon DEF ClassifyCommand!SettingsChange
  <2> QED BY <1>6, <2>2, MatchesIs DEF s
<1> QED BY <1>2, <1>3, <1>5, <1>6

\* A check finds what it would with the Safe's version, as it reads it if it needs it.
LEMMA FindsIs ==
  ASSUME ClassifyInv, result = ClassifyCommand!Running, check \in 1 .. 11,
         ClassifyCommand!CheckReads(ClassifyCommand!InsecureChecks[check]) => ClassifyCommand!Cached
  PROVE  ClassifyCommand!Finds(ClassifyCommand!InsecureChecks[check]) <=> FindsAt(request, check)
<1> DEFINE s == ClassifyCommand!InsecureChecks[check]
           v == ClassifyCommand!ReadVersion(request)
           u == IF ClassifyCommand!CheckReads(s) THEN ClassifyCommand!Version ELSE "unread"
<1>1. request \in Requests /\ calls = Components(request.tx)
  BY ResultsDiffer DEF ClassifyInv
<1>2. ClassifyCommand!CheckReads(s) => ClassifyCommand!Version = v
  BY <1>1 DEF ClassifyInv, ClassifyCommand!Cached, ClassifyCommand!Version
<1>3. ClassifyCommand!Finds(s) <=> \E k \in DOMAIN calls : ClassifyCommand!Matches(s, request, calls[k], u)
  BY Zenon DEF ClassifyCommand!Finds
<1>4. FindsAt(request, check) <=> \E x \in Has(calls) : ClassifyCommand!Matches(s, request, x, v)
  BY <1>1, Zenon DEF FindsAt
<1>5. \A x \in Has(calls) : ClassifyCommand!Matches(s, request, x, u) <=> ClassifyCommand!Matches(s, request, x, v)
  <2>1. CASE ClassifyCommand!CheckReads(s)
    <3>1. u = v
      BY <1>2, <2>1
    <3> QED BY <3>1
  <2>2. CASE ~ClassifyCommand!CheckReads(s)
    <3>1. u = "unread"
      BY <2>2
    <3> QED BY <2>2, <3>1, UnreadAlike
  <2> QED BY <2>1, <2>2
<1> HIDE DEF u, v, s
<1>6. (\E k \in DOMAIN calls : ClassifyCommand!Matches(s, request, calls[k], u)) <=>
        \E x \in Has(calls) : ClassifyCommand!Matches(s, request, x, u)
  BY Zenon DEF Has
<1> QED BY <1>3, <1>4, <1>5, <1>6 DEF s

\* A check ends the request with its rule, or has found nothing.
LEMMA InsecureCheckKeeps ==
  ASSUME ClassifyInv, ClassifyCommand!RunInsecureCheck
  PROVE  ClassifyInv'
<1> DEFINE s == ClassifyCommand!InsecureChecks[check]
<1>1. /\ result = ClassifyCommand!Running /\ check \in 1 .. 11 /\ check' = check + 1
      /\ UNCHANGED <<request, calls, safeVersions, dialed>>
      /\ IF ClassifyCommand!Finds(s)
         THEN result' = ClassifyCommand!Classification("insecure", ClassifyCommand!Rule(s), {s})
         ELSE UNCHANGED result
  BY InsecureListed DEF ClassifyCommand!RunInsecureCheck
<1>2. ClassifyCommand!Finds(s) <=> FindsAt(request, check)
  BY <1>1, FindsIs DEF ClassifyCommand!RunInsecureCheck
<1>3. request \in Requests /\ \A k \in 1 .. check - 1 : ~FindsAt(request, k)
  BY <1>1, ResultsDiffer DEF ClassifyInv
<1>4. \A x \in Requests : ClassifyCommand!Key(x) \in DOMAIN safeVersions' =>
                           safeVersions'[ClassifyCommand!Key(x)] = ClassifyCommand!ReadVersion(x)
  BY <1>1 DEF ClassifyInv
<1> HIDE DEF s
<1>5. CASE FindsAt(request, check)
  <2>1. result' = ClassifyCommand!Classification("insecure", ClassifyCommand!Rule(s), {s})
    BY <1>1, <1>2, <1>5
  <2>2. ClassifyCommand!CharterVerdict(request) = <<"insecure", ClassifyCommand!Rule(s)>>
    <3>1. CASE check \in {1, 2}
      <4>1. ClassifyCommand!Rule(s) = "R-4.0"
        BY <3>1, InsecureListed DEF ClassifyCommand!Rule, s
      <4>2. ClassifyCommand!CharterVerdict(request) = <<"insecure", "R-4.0">>
        BY <1>3, <1>5, <3>1, VerdictFound
      <4> QED BY <4>1, <4>2
    <3>2. CASE check \in 3 .. 11
      <4>1. s \in Settings
        BY <3>2, InsecureListed DEF s
      <4>2. ClassifyCommand!Rule(s) = "R-4.1"
        BY <4>1 DEF ClassifyCommand!Rule, Settings
      <4>3. 1 \in 1 .. check - 1 /\ 2 \in 1 .. check - 1
        BY <3>2
      <4>4. ClassifyCommand!CharterVerdict(request) = <<"insecure", "R-4.1">>
        BY <1>3, <1>5, <3>2, <4>3, VerdictFound
      <4> QED BY <4>2, <4>4
    <3> QED BY <1>1, <3>1, <3>2
  <2>3. <<result'.verdict, result'.rule>> = ClassifyCommand!CharterVerdict(request)
    BY <2>1, <2>2, ResultsDiffer
  <2>4. result' \notin {ClassifyCommand!Idle, ClassifyCommand!Running, ClassifyCommand!Error}
    BY <2>1, ResultsDiffer
  <2> QED BY <1>1, <1>3, <1>4, <2>3, <2>4 DEF ClassifyInv, ClassifyCommand!VerdictIsCharters
<1>6. CASE ~FindsAt(request, check)
  <2>1. UNCHANGED result
    BY <1>1, <1>2, <1>6
  <2>2. check' \in 1 .. 12 /\ \A k \in 1 .. check' - 1 : k \in 1 .. check - 1 \/ k = check
    BY <1>1
  <2>3. \A k \in 1 .. check' - 1 : ~FindsAt(request, k)
    BY <1>3, <1>6, <2>2
  <2>4. ~request.missing /\ request.block # 0 /\ calls = Components(request.tx)
    BY <1>1 DEF ClassifyInv
  <2> QED BY <1>1, <1>3, <1>4, <2>1, <2>2, <2>3, <2>4, ResultsDiffer
          DEF ClassifyInv, ClassifyCommand!VerdictIsCharters, FindsAt
<1> QED BY <1>5, <1>6

\* The secure checks run when no other found anything.
LEMMA SecureChecksKeep ==
  ASSUME ClassifyInv, ClassifyCommand!RunSecureChecks
  PROVE  ClassifyInv'
<1> DEFINE all == \A x \in Has(calls) : SecureFor(request, x)
           described == {ClassifyCommand!FirstMatch(x) : x \in ClassifyCommand!ToSet(calls)}
<1>1. /\ result = ClassifyCommand!Running /\ check = 12
      /\ UNCHANGED <<request, calls, check, safeVersions, dialed>>
  <2>1. check = Len(ClassifyCommand!InsecureChecks) + 1
    BY DEF ClassifyCommand!RunSecureChecks
  <2>2. Len(ClassifyCommand!InsecureChecks) = 11
    BY InsecureListed
  <2>3. check = 12
    BY <2>1, <2>2
  <2> QED BY <2>3 DEF ClassifyCommand!RunSecureChecks
<1>2. ClassifyCommand!ToSet(calls) = Has(calls)
  BY DEF ClassifyCommand!ToSet, Has
<1>3. \A x : ClassifyCommand!SecureMatches(x) # {} <=> SecureFor(request, x)
  BY DEF ClassifyCommand!SecureMatches, SecureFor
<1>4. result' = IF all THEN ClassifyCommand!Classification("secure", "", described)
                ELSE ClassifyCommand!Classification("unclassified", "", {})
  <2>1. (\A x \in ClassifyCommand!ToSet(calls) : ClassifyCommand!SecureMatches(x) # {}) <=> all
    BY <1>2, <1>3
  <2> HIDE DEF all
  <2> QED BY <2>1 DEF ClassifyCommand!RunSecureChecks
<1>5. /\ request \in Requests /\ calls = Components(request.tx)
      /\ \A k \in 1 .. 11 : ~FindsAt(request, k)
  BY <1>1, ResultsDiffer DEF ClassifyInv
<1>6. ClassifyCommand!CharterVerdict(request) = IF all THEN <<"secure", "">> ELSE <<"unclassified", "">>
  <2>1. ~FindsAt(request, 1) /\ ~FindsAt(request, 2) /\ ~\E k \in 3 .. 11 : FindsAt(request, k)
    BY <1>5
  <2> QED BY <1>5, <2>1, VerdictFound
<1>7. \A x \in Requests : ClassifyCommand!Key(x) \in DOMAIN safeVersions' =>
                           safeVersions'[ClassifyCommand!Key(x)] = ClassifyCommand!ReadVersion(x)
  BY <1>1 DEF ClassifyInv
<1> HIDE DEF all, described
<1>8. <<result'.verdict, result'.rule>> = ClassifyCommand!CharterVerdict(request)
  <2>1. CASE all
    <3>1. result' = ClassifyCommand!Classification("secure", "", described)
      BY <1>4, <2>1
    <3>2. ClassifyCommand!CharterVerdict(request) = <<"secure", "">>
      BY <1>6, <2>1
    <3>3. result'.verdict = "secure" /\ result'.rule = ""
      BY <3>1 DEF ClassifyCommand!Classification
    <3> QED BY <3>2, <3>3
  <2>2. CASE ~all
    <3>1. result' = ClassifyCommand!Classification("unclassified", "", {})
      BY <1>4, <2>2
    <3>2. ClassifyCommand!CharterVerdict(request) = <<"unclassified", "">>
      BY <1>6, <2>2
    <3>3. result'.verdict = "unclassified" /\ result'.rule = ""
      BY <3>1 DEF ClassifyCommand!Classification
    <3> QED BY <3>2, <3>3
  <2> QED BY <2>1, <2>2
<1>9. result' \notin {ClassifyCommand!Idle, ClassifyCommand!Running, ClassifyCommand!Error}
  BY <1>4, ResultsDiffer
<1> QED BY <1>1, <1>5, <1>7, <1>8, <1>9 DEF ClassifyInv, ClassifyCommand!VerdictIsCharters

\* Every step of classify keeps its invariant.
LEMMA ClassifyKept ==
  ASSUME ClassifyInv, ClassifyCommand!Next \/ UNCHANGED classifyVars
  PROVE  ClassifyInv'
<1>1. CASE ClassifyCommand!Return
  BY <1>1, ResultsDiffer DEF ClassifyCommand!Return, ClassifyInv, ClassifyCommand!VerdictIsCharters
<1>2. CASE UNCHANGED classifyVars
  BY <1>2 DEF classifyVars, ClassifyInv, ClassifyCommand!VerdictIsCharters, FindsAt
<1> QED BY <1>1, <1>2, ClassifyKeeps, VersionReadKeeps, InsecureCheckKeeps, SecureChecksKeep
        DEF ClassifyCommand!Next

\* For any requests, however deep their batches nest, whatever the process
\* classified before, and wherever reading fails: a verdict is the one that the
\* Charter's rules give, from the tree of the request's batches.
THEOREM VerdictsAreCharters == Spec => []VerdictIsCharters
<1> DEFINE IInv == command = "classify" => ClassifyInv
<1>1. Init => IInv
  BY ClassifyInitially DEF Init
<1>2. IInv /\ [Next]_vars => IInv'
  BY ClassifyKept, OneCommand
<1>3. IInv => VerdictIsCharters
  BY DEF ClassifyInv, VerdictIsCharters
<1> QED BY <1>1, <1>2, <1>3, PTL DEF Spec

-----------------------------------------------------------------------------
(* call data                                                                 *)

\* What is encoded of the first n values, from what is of those before the last.
Adds(q, values, n) ==
  IF n = 0 THEN [head |-> <<>>, tail |-> <<>>]
  ELSE CallDecoding!AddValue(q[n - 1], values[n], Len(values))

\* Some function has what is encoded of the first n values, for every n.
LEMMA AddsFound ==
  ASSUME NEW values, NEW N \in Nat
  PROVE  \E q : q = [n \in 0 .. N |-> Adds(q, values, n)]
<1> DEFINE S == {m \in Nat : \E q : q = [n \in 0 .. m |-> Adds(q, values, n)]}
<1>1. 0 \in S
  <2> DEFINE q == [n \in 0 .. 0 |-> [head |-> <<>>, tail |-> <<>>]]
  <2>1. q = [n \in 0 .. 0 |-> Adds(q, values, n)]
    BY DEF Adds
  <2> QED BY <2>1
<1>2. ASSUME NEW m \in S PROVE m + 1 \in S
  <2>1. PICK q : q = [n \in 0 .. m |-> Adds(q, values, n)]
    OBVIOUS
  <2> DEFINE p == [n \in 0 .. m + 1 |-> IF n = m + 1 THEN Adds(q, values, n) ELSE q[n]]
  <2>2. \A n \in 0 .. m : p[n] = q[n]
    OBVIOUS
  <2> HIDE DEF p
  <2>3. \A n \in 0 .. m + 1 : Adds(p, values, n) = Adds(q, values, n)
    <3> SUFFICES ASSUME NEW n \in 0 .. m + 1, n # 0 PROVE Adds(p, values, n) = Adds(q, values, n)
      BY DEF Adds
    <3>1. p[n - 1] = q[n - 1]
      BY <2>2
    <3> QED BY <3>1 DEF Adds
  <2>4. \A n \in 0 .. m : q[n] = Adds(q, values, n)
    BY <2>1
  <2>5. p = [n \in 0 .. m + 1 |-> Adds(p, values, n)]
    <3>1. p = [n \in 0 .. m + 1 |-> IF n = m + 1 THEN Adds(q, values, n) ELSE q[n]]
      BY DEF p
    <3>2. \A n \in 0 .. m + 1 : (IF n = m + 1 THEN Adds(q, values, n) ELSE q[n]) = Adds(p, values, n)
      BY <2>3, <2>4
    <3> QED BY <3>1, <3>2
  <2>6. m + 1 \in Nat /\ \E f : f = [n \in 0 .. m + 1 |-> Adds(f, values, n)]
    BY <2>5
  <2> QED BY <2>6
<1>3. S = Nat
  <2> HIDE DEF S
  <2>1. S \in SUBSET Nat
    BY DEF S
  <2> QED BY <1>1, <1>2, <2>1, AllNumbers
<1> QED BY <1>3

\* So an encoding is made of its values one by one.
LEMMA EncodeUnfolds ==
  ASSUME NEW values, Len(values) \in Nat
  PROVE  \E q : /\ \A n \in 0 .. Len(values) : q[n] = Adds(q, values, n)
                /\ CallDecoding!Encode(values) = q[Len(values)].head \o q[Len(values)].tail
<1> DEFINE P(q) == q = [n \in 0 .. Len(values) |-> Adds(q, values, n)]
           f == CHOOSE q : P(q)
<1>1. CallDecoding!Encode(values) = f[Len(values)].head \o f[Len(values)].tail
  BY Zenon DEF CallDecoding!Encode, Adds
<1>2. \E q : P(q)
  BY AddsFound
<1>3. P(f)
  <2> HIDE DEF P
  <2> QED BY <1>2
<1> HIDE DEF f
<1>4. \A n \in 0 .. Len(values) : f[n] = Adds(f, values, n)
  BY <1>3
<1> QED BY <1>1, <1>4

\* Where the bytes of two joined sequences are.
LEMMA BytesJoined ==
  ASSUME NEW s \in Seq(Nat), NEW t \in Seq(Nat)
  PROVE  /\ s \o t \in Seq(Nat) /\ Len(s \o t) = Len(s) + Len(t)
         /\ Len(s) \in Nat /\ Len(t) \in Nat
         /\ \A j \in 1 .. Len(s) : (s \o t)[j] = s[j]
         /\ \A j \in 1 .. Len(t) : (s \o t)[Len(s) + j] = t[j]
<1>1. Len(s) \in Nat /\ Len(t) \in Nat
  BY LenProperties
<1>2. OfLength(s, Len(s)) /\ OfLength(t, Len(t))
  BY <1>1, LenProperties DEF OfLength
<1>3. Joins(s \o t, s, Len(s), t, Len(t))
  BY <1>2, Joined
<1>4. s \o t \in Seq(Nat) /\ Len(s \o t) = Len(s) + Len(t)
  BY ConcatProperties
<1> QED BY <1>1, <1>3, <1>4 DEF Joins

\* The words of a dynamic value: its length, and its bytes.
LEMMA EncodingHas ==
  ASSUME NEW value, value.bytes \in Seq(Nat), value.dynamic
  PROVE  LET w == CallDecoding!Encoding(value)
         IN /\ w \in Seq(Nat) /\ Len(w) >= 2 + Len(value.bytes)
            /\ w[1] = 0 /\ w[2] = Len(value.bytes)
            /\ \A j \in 1 .. Len(value.bytes) : w[2 + j] = value.bytes[j]
<1> DEFINE b == value.bytes
           z == CallDecoding!Zeros(Len(b) % CallDecoding!WordSize)
           h == <<0, Len(b)>>
           g == h \o b
           w == g \o z
<1>1. b \in Seq(Nat) /\ Len(b) \in Nat
  BY LenProperties
<1>2. CallDecoding!Encoding(value) = w
  BY DEF CallDecoding!Encoding
<1>3. h \in Seq(Nat) /\ Len(h) = 2 /\ h[1] = 0 /\ h[2] = Len(b)
  BY <1>1
<1>4. z \in Seq(Nat)
  <2>1. ASSUME NEW n \in Nat PROVE n % 2 \in Nat
    OBVIOUS
  <2>2. Len(b) % CallDecoding!WordSize \in Nat
    BY <1>1, <2>1 DEF CallDecoding!WordSize
  <2>3. ASSUME NEW n \in Nat PROVE CallDecoding!Zeros(n) \in Seq(Nat)
    BY DEF CallDecoding!Zeros
  <2> QED BY <2>2, <2>3
<1> HIDE DEF b, z, h
<1>5. /\ g \in Seq(Nat) /\ Len(g) = Len(h) + Len(b)
      /\ \A j \in 1 .. Len(h) : g[j] = h[j]
      /\ \A j \in 1 .. Len(b) : g[Len(h) + j] = b[j]
  BY <1>1, <1>3, BytesJoined
<1> HIDE DEF g
<1>6. /\ w \in Seq(Nat) /\ Len(w) = Len(g) + Len(z) /\ Len(z) \in Nat
      /\ \A j \in 1 .. Len(g) : w[j] = g[j]
  BY <1>4, <1>5, BytesJoined
<1> HIDE DEF w
<1>7. Len(g) = 2 + Len(b) /\ Len(w) >= 2 + Len(b)
  BY <1>1, <1>3, <1>5, <1>6
<1>8. w[1] = 0 /\ w[2] = Len(b)
  <2>1. 1 \in 1 .. Len(g) /\ 2 \in 1 .. Len(g) /\ 1 \in 1 .. Len(h) /\ 2 \in 1 .. Len(h)
    BY <1>1, <1>3, <1>7
  <2> QED BY <1>3, <1>5, <1>6, <2>1
<1>9. ASSUME NEW j \in 1 .. Len(b) PROVE w[2 + j] = b[j]
  <2>1. 2 + j \in 1 .. Len(g)
    BY <1>1, <1>7
  <2> QED BY <1>3, <1>5, <1>6, <2>1
<1>10. \A j \in 1 .. Len(b) : w[2 + j] = b[j]
  BY <1>9
<1> QED BY <1>2, <1>6, <1>7, <1>8, <1>10, Zenon DEF b

\* The sequence t has w from its position o on.
Within(t, o, w) ==
  o \in Nat /\ o + Len(w) <= Len(t) /\ \A j \in 1 .. Len(w) : t[o + j] = w[j]

\* A value that can be encoded.
IsValue(value) ==
  /\ value.dynamic \in BOOLEAN /\ value.bytes \in Seq(Nat)
  /\ ~value.dynamic => Len(value.bytes) = 2

\* The k-th value is in its place in the head, or where the head points to.
HeadHas(e, values, k) ==
  LET w == values[k].bytes
  IN IF values[k].dynamic
     THEN /\ e.head[2 * k - 1] = 0
          /\ \E o \in Nat : /\ e.head[2 * k] = 2 * Len(values) + o
                            /\ Within(e.tail, o, CallDecoding!Encoding(values[k]))
     ELSE e.head[2 * k - 1] = w[1] /\ e.head[2 * k] = w[2]

\* What is encoded of the first n values has each of them in its place.
EncodedTo(e, values, n) ==
  /\ e.head \in Seq(Nat) /\ e.tail \in Seq(Nat) /\ Len(e.head) = 2 * n
  /\ \A k \in 1 .. n : HeadHas(e, values, k)

\* What is in a sequence is in the same place when more follows.
LEMMA WithinJoined ==
  ASSUME NEW s \in Seq(Nat), NEW t \in Seq(Nat), NEW o, NEW w, Len(w) \in Nat, Within(s, o, w)
  PROVE  Within(s \o t, o, w)
<1> DEFINE q == s \o t
<1>1. /\ Len(q) = Len(s) + Len(t) /\ Len(s) \in Nat /\ Len(t) \in Nat
      /\ \A j \in 1 .. Len(s) : q[j] = s[j]
  BY BytesJoined
<1> HIDE DEF q
<1>2. o \in Nat /\ o + Len(w) <= Len(s) /\ \A j \in 1 .. Len(w) : s[o + j] = w[j]
  BY DEF Within
<1>3. \A j \in 1 .. Len(w) : o + j \in 1 .. Len(s)
  BY <1>1, <1>2
<1>4. o + Len(w) <= Len(q) /\ \A j \in 1 .. Len(w) : q[o + j] = w[j]
  BY <1>1, <1>2, <1>3
<1> QED BY <1>2, <1>4 DEF Within, q

\* The word that the head has for a value.
HeadWord(value, offset) == IF value.dynamic THEN <<0, offset>> ELSE value.bytes

\* It has two bytes, those of the value or of the offset.
LEMMA HeadWordHas ==
  ASSUME NEW value, IsValue(value), NEW offset \in Nat
  PROVE  LET w == HeadWord(value, offset)
         IN /\ w \in Seq(Nat) /\ Len(w) = 2
            /\ IF value.dynamic THEN w[1] = 0 /\ w[2] = offset
               ELSE w[1] = value.bytes[1] /\ w[2] = value.bytes[2]
<1>1. CASE value.dynamic
  <2>1. HeadWord(value, offset) = <<0, offset>>
    BY <1>1 DEF HeadWord
  <2>2. <<0, offset>> \in Seq(Nat) /\ Len(<<0, offset>>) = 2
    OBVIOUS
  <2> QED BY <1>1, <2>1, <2>2
<1>2. CASE ~value.dynamic
  <2>1. HeadWord(value, offset) = value.bytes
    BY <1>2 DEF HeadWord
  <2>2. value.bytes \in Seq(Nat) /\ Len(value.bytes) = 2
    BY <1>2 DEF IsValue
  <2> QED BY <1>2, <2>1, <2>2
<1> QED BY <1>1, <1>2

\* The head of r is that of e with the word for the next value.
HeadAdded(r, e, values, n) ==
  /\ r.head \in Seq(Nat) /\ Len(r.head) = 2 * (n + 1)
  /\ \A j \in 1 .. 2 * n : r.head[j] = e.head[j]
  /\ IF values[n + 1].dynamic
     THEN r.head[2 * n + 1] = 0 /\ r.head[2 * n + 2] = 2 * Len(values) + Len(e.tail)
     ELSE r.head[2 * n + 1] = values[n + 1].bytes[1] /\ r.head[2 * n + 2] = values[n + 1].bytes[2]

\* Adding a value adds its word to the head.
LEMMA AddedHead ==
  ASSUME NEW e, NEW values, NEW n \in Nat, EncodedTo(e, values, n), Len(values) \in Nat,
         IsValue(values[n + 1]),
         NEW r, r = CallDecoding!AddValue(e, values[n + 1], Len(values))
  PROVE  HeadAdded(r, e, values, n)
<1> DEFINE v == values[n + 1]
           o == 2 * Len(values) + Len(e.tail)
           w == HeadWord(v, o)
           h == e.head
<1>1. r.head = h \o w
  BY DEF CallDecoding!AddValue, CallDecoding!WordSize, CallDecoding!Encoding, HeadWord
<1>2. h \in Seq(Nat) /\ Len(h) = 2 * n
  BY DEF EncodedTo
<1>3. o \in Nat
  <2>1. Len(e.tail) \in Nat
    BY LenProperties DEF EncodedTo
  <2>2. ASSUME NEW a \in Nat, NEW b \in Nat PROVE 2 * a + b \in Nat
    OBVIOUS
  <2> QED BY <2>1, <2>2
<1>4. /\ w \in Seq(Nat) /\ Len(w) = 2
      /\ IF v.dynamic THEN w[1] = 0 /\ w[2] = o ELSE w[1] = v.bytes[1] /\ w[2] = v.bytes[2]
  <2> HIDE DEF o, v
  <2>1. IsValue(v)
    BY DEF v
  <2> QED BY <1>3, <2>1, HeadWordHas
<1> HIDE DEF w, h
<1>5. /\ h \o w \in Seq(Nat) /\ Len(h \o w) = Len(h) + Len(w)
      /\ \A j \in 1 .. Len(h) : (h \o w)[j] = h[j]
      /\ \A j \in 1 .. Len(w) : (h \o w)[Len(h) + j] = w[j]
  BY <1>2, <1>4, BytesJoined
<1>6. /\ r.head \in Seq(Nat) /\ Len(r.head) = 2 * n + 2
      /\ \A j \in 1 .. 2 * n : r.head[j] = h[j]
      /\ r.head[2 * n + 1] = w[1] /\ r.head[2 * n + 2] = w[2]
  <2>1. 1 \in 1 .. Len(w) /\ 2 \in 1 .. Len(w)
    BY <1>4
  <2>2. r.head[Len(h) + 1] = w[1] /\ r.head[Len(h) + 2] = w[2]
    BY <1>1, <1>5, <2>1, Zenon
  <2>3. r.head \in Seq(Nat) /\ Len(r.head) = Len(h) + Len(w) /\ \A j \in 1 .. Len(h) : r.head[j] = h[j]
    BY <1>1, <1>5, Zenon
  <2> QED BY <1>2, <1>4, <2>2, <2>3
<1>7. 2 * n + 2 = 2 * (n + 1)
  OBVIOUS
<1> QED BY <1>4, <1>6, <1>7, Zenon DEF HeadAdded, h

\* Adding a dynamic value adds its words to the tail, where the head points to.
LEMMA AddedTail ==
  ASSUME NEW e, NEW values, NEW n \in Nat, EncodedTo(e, values, n), IsValue(values[n + 1]),
         NEW r, r = CallDecoding!AddValue(e, values[n + 1], Len(values))
  PROVE  /\ r.tail \in Seq(Nat) /\ Len(e.tail) \in Nat
         /\ \A o, w : Len(w) \in Nat /\ Within(e.tail, o, w) => Within(r.tail, o, w)
         /\ values[n + 1].dynamic =>
              Within(r.tail, Len(e.tail), CallDecoding!Encoding(values[n + 1]))
<1> DEFINE v == values[n + 1]
           w == IF v.dynamic THEN CallDecoding!Encoding(v) ELSE <<>>
<1>1. r.tail = e.tail \o w
  BY DEF CallDecoding!AddValue
<1>2. e.tail \in Seq(Nat) /\ Len(e.tail) \in Nat
  BY LenProperties DEF EncodedTo
<1>3. w \in Seq(Nat)
  <2>1. v.dynamic => CallDecoding!Encoding(v) \in Seq(Nat)
    BY EncodingHas DEF IsValue
  <2>2. <<>> \in Seq(Nat)
    OBVIOUS
  <2> HIDE DEF v
  <2> QED BY <2>1, <2>2
<1> HIDE DEF w
<1>4. /\ r.tail \in Seq(Nat) /\ Len(r.tail) = Len(e.tail) + Len(w) /\ Len(w) \in Nat
      /\ \A j \in 1 .. Len(w) : r.tail[Len(e.tail) + j] = w[j]
  BY <1>1, <1>2, <1>3, BytesJoined
<1>5. Within(r.tail, Len(e.tail), w)
  BY <1>2, <1>4 DEF Within
<1>6. ASSUME NEW o, NEW u, Len(u) \in Nat, Within(e.tail, o, u) PROVE Within(r.tail, o, u)
  BY <1>1, <1>2, <1>3, <1>6, WithinJoined
<1>7. v.dynamic => w = CallDecoding!Encoding(v)
  BY DEF w
<1> QED BY <1>2, <1>4, <1>5, <1>6, <1>7

\* So with a value added, one more is in its place.
LEMMA AddKeeps ==
  ASSUME NEW e, NEW values, NEW n \in Nat, EncodedTo(e, values, n), Len(values) \in Nat,
         \A k \in 1 .. n + 1 : IsValue(values[k]),
         NEW r, r = CallDecoding!AddValue(e, values[n + 1], Len(values))
  PROVE  EncodedTo(r, values, n + 1)
<1>1. IsValue(values[n + 1])
  BY n + 1 \in 1 .. n + 1
<1>0. HeadAdded(r, e, values, n)
  BY <1>1, AddedHead
<1>2. /\ r.head \in Seq(Nat) /\ Len(r.head) = 2 * (n + 1)
      /\ \A j \in 1 .. 2 * n : r.head[j] = e.head[j]
      /\ IF values[n + 1].dynamic
         THEN r.head[2 * n + 1] = 0 /\ r.head[2 * n + 2] = 2 * Len(values) + Len(e.tail)
         ELSE r.head[2 * n + 1] = values[n + 1].bytes[1] /\ r.head[2 * n + 2] = values[n + 1].bytes[2]
  BY <1>0 DEF HeadAdded
<1>3. /\ r.tail \in Seq(Nat) /\ Len(e.tail) \in Nat
      /\ \A o, w : Len(w) \in Nat /\ Within(e.tail, o, w) => Within(r.tail, o, w)
      /\ values[n + 1].dynamic =>
           Within(r.tail, Len(e.tail), CallDecoding!Encoding(values[n + 1]))
  BY <1>1, AddedTail
<1>4. ASSUME NEW k \in 1 .. n PROVE HeadHas(r, values, k)
  <2>1. HeadHas(e, values, k) /\ IsValue(values[k])
    BY DEF EncodedTo
  <2>2. r.head[2 * k - 1] = e.head[2 * k - 1] /\ r.head[2 * k] = e.head[2 * k]
    <3>1. 2 * k - 1 \in 1 .. 2 * n /\ 2 * k \in 1 .. 2 * n
      OBVIOUS
    <3> QED BY <1>2, <3>1
  <2>3. CASE ~values[k].dynamic
    BY <2>1, <2>2, <2>3 DEF HeadHas
  <2>4. CASE values[k].dynamic
    <3>1. PICK o \in Nat : e.head[2 * k] = 2 * Len(values) + o
                           /\ Within(e.tail, o, CallDecoding!Encoding(values[k]))
      BY <2>1, <2>4 DEF HeadHas
    <3>2. Len(CallDecoding!Encoding(values[k])) \in Nat
      <4>1. CallDecoding!Encoding(values[k]) \in Seq(Nat)
        BY <2>1, <2>4, EncodingHas DEF IsValue
      <4> QED BY <4>1, LenProperties
    <3>3. Within(r.tail, o, CallDecoding!Encoding(values[k]))
      BY <1>3, <3>1, <3>2
    <3>4. e.head[2 * k - 1] = 0
      BY <2>1, <2>4 DEF HeadHas
    <3> QED BY <2>2, <2>4, <3>1, <3>3, <3>4 DEF HeadHas
  <2> QED BY <2>3, <2>4
<1>5. HeadHas(r, values, n + 1)
  <2>1. 2 * (n + 1) - 1 = 2 * n + 1 /\ 2 * (n + 1) = 2 * n + 2
    OBVIOUS
  <2>2. CASE values[n + 1].dynamic
    <3>1. r.head[2 * n + 1] = 0 /\ r.head[2 * n + 2] = 2 * Len(values) + Len(e.tail)
      BY <1>2, <2>2
    <3> QED BY <1>3, <2>1, <2>2, <3>1 DEF HeadHas
  <2>3. CASE ~values[n + 1].dynamic
    <3>1. r.head[2 * n + 1] = values[n + 1].bytes[1] /\ r.head[2 * n + 2] = values[n + 1].bytes[2]
      BY <1>2, <2>3
    <3> QED BY <2>1, <2>3, <3>1 DEF HeadHas
  <2> QED BY <2>2, <2>3
<1>6. \A k \in 1 .. n + 1 : k \in 1 .. n \/ k = n + 1
  OBVIOUS
<1>7. \A k \in 1 .. n + 1 : HeadHas(r, values, k)
  BY <1>4, <1>5, <1>6
<1> QED BY <1>2, <1>3, <1>7 DEF EncodedTo

\* What the encoding of values has for the k-th, v: its word, or the offset of its
\* length and bytes.
EncodesAt(e, v, k) ==
  IF v.dynamic
  THEN e[2 * k - 1] = 0 /\ \E o \in Nat : e[2 * k] = o /\ Within(e, o, CallDecoding!Encoding(v))
  ELSE e[2 * k - 1] = v.bytes[1] /\ e[2 * k] = v.bytes[2]

\* What is in a tail is after the head in both.
LEMMA TailFound ==
  ASSUME NEW h \in Seq(Nat), NEW t \in Seq(Nat), NEW o, NEW w, Len(w) \in Nat, Within(t, o, w)
  PROVE  Within(h \o t, Len(h) + o, w)
<1> DEFINE q == h \o t
           p == Len(h)
<1>1. /\ Len(q) = p + Len(t) /\ p \in Nat /\ Len(t) \in Nat
      /\ \A j \in 1 .. Len(t) : q[p + j] = t[j]
  BY BytesJoined
<1> HIDE DEF q, p
<1>2. o \in Nat /\ o + Len(w) <= Len(t) /\ \A j \in 1 .. Len(w) : t[o + j] = w[j]
  BY DEF Within
<1>3. p + o \in Nat /\ p + o + Len(w) <= Len(q)
  BY <1>1, <1>2
<1>4. ASSUME NEW j \in 1 .. Len(w) PROVE q[p + o + j] = w[j]
  <2>1. o + j \in 1 .. Len(t) /\ p + (o + j) = p + o + j
    BY <1>1, <1>2
  <2> QED BY <1>1, <1>2, <2>1
<1>5. Within(q, p + o, w)
  BY <1>3, <1>4 DEF Within
<1> QED BY <1>5 DEF q, p

\* An encoding has each value in its place.
LEMMA EncodeHas ==
  ASSUME NEW values, Len(values) \in Nat, \A k \in 1 .. Len(values) : IsValue(values[k]),
         NEW e, e = CallDecoding!Encode(values)
  PROVE  /\ e \in Seq(Nat) /\ Len(e) >= 2 * Len(values)
         /\ \A k \in 1 .. Len(values) : EncodesAt(e, values[k], k)
<1> DEFINE N == Len(values)
<1>1. PICK q : /\ \A n \in 0 .. N : q[n] = Adds(q, values, n)
               /\ CallDecoding!Encode(values) = q[N].head \o q[N].tail
  BY EncodeUnfolds
<1> DEFINE S == {n \in Nat : n <= N => EncodedTo(q[n], values, n)}
<1>2. 0 \in S
  <2>1. q[0] = [head |-> <<>>, tail |-> <<>>]
    BY <1>1 DEF Adds
  <2>2. <<>> \in Seq(Nat) /\ Len(<<>>) = 0
    OBVIOUS
  <2>3. EncodedTo(q[0], values, 0)
    BY <2>1, <2>2 DEF EncodedTo
  <2> QED BY <2>3
<1>3. ASSUME NEW n \in S PROVE n + 1 \in S
  <2> SUFFICES ASSUME n + 1 <= N PROVE EncodedTo(q[n + 1], values, n + 1)
    OBVIOUS
  <2>1. n \in Nat /\ n <= N /\ n + 1 \in 0 .. N /\ n + 1 # 0 /\ (n + 1) - 1 = n
    OBVIOUS
  <2>2. q[n + 1] = Adds(q, values, n + 1)
    BY <1>1, <2>1
  <2>3. q[n + 1] = CallDecoding!AddValue(q[n], values[n + 1], Len(values))
    BY <2>1, <2>2 DEF Adds
  <2>4. EncodedTo(q[n], values, n)
    BY <2>1
  <2>5. \A k \in 1 .. n + 1 : IsValue(values[k])
    BY <2>1
  <2> QED BY <2>1, <2>3, <2>4, <2>5, AddKeeps
<1>4. EncodedTo(q[N], values, N)
  <2> HIDE DEF S
  <2>1. S \in SUBSET Nat
    BY DEF S
  <2>2. N \in S
    BY <1>2, <1>3, <2>1, AllNumbers
  <2> QED BY <2>2 DEF S
<1> DEFINE h == q[N].head
           t == q[N].tail
<1>5. h \in Seq(Nat) /\ t \in Seq(Nat) /\ Len(h) = 2 * N /\ \A k \in 1 .. N : HeadHas(q[N], values, k)
  BY <1>4 DEF EncodedTo
<1>6. e = h \o t
  BY <1>1
<1> HIDE DEF h, t
<1>7. /\ e \in Seq(Nat) /\ Len(e) = Len(h) + Len(t) /\ Len(t) \in Nat
      /\ \A j \in 1 .. Len(h) : e[j] = h[j]
  <2>1. /\ h \o t \in Seq(Nat) /\ Len(h \o t) = Len(h) + Len(t) /\ Len(t) \in Nat
        /\ \A j \in 1 .. Len(h) : (h \o t)[j] = h[j]
    BY <1>5, BytesJoined
  <2> QED BY <1>6, <2>1, Zenon
<1>8. ASSUME NEW k \in 1 .. N PROVE EncodesAt(e, values[k], k)
  <2>1. e[2 * k - 1] = h[2 * k - 1] /\ e[2 * k] = h[2 * k]
    <3>1. 2 * k - 1 \in 1 .. 2 * N /\ 2 * k \in 1 .. 2 * N
      OBVIOUS
    <3> QED BY <1>5, <1>7, <3>1
  <2>2. CASE ~values[k].dynamic
    <3>1. h[2 * k - 1] = values[k].bytes[1] /\ h[2 * k] = values[k].bytes[2]
      BY <1>5, <2>2 DEF HeadHas, h
    <3> QED BY <2>1, <2>2, <3>1 DEF EncodesAt
  <2>3. CASE values[k].dynamic
    <3> DEFINE w == CallDecoding!Encoding(values[k])
    <3>1. h[2 * k - 1] = 0
      BY <1>5, <2>3 DEF HeadHas, h
    <3>2. PICK o \in Nat : h[2 * k] = 2 * N + o /\ Within(t, o, w)
      BY <1>5, <2>3 DEF HeadHas, h, t
    <3>3. Len(w) \in Nat
      <4>1. w \in Seq(Nat)
        BY <2>3, EncodingHas DEF IsValue
      <4> QED BY <4>1, LenProperties
    <3> HIDE DEF w
    <3>4. Within(e, 2 * N + o, w)
      BY <1>5, <1>6, <3>2, <3>3, TailFound
    <3>5. 2 * N + o \in Nat
      OBVIOUS
    <3> QED BY <2>1, <2>3, <3>1, <3>2, <3>4, <3>5 DEF EncodesAt, w
  <2> QED BY <2>2, <2>3
<1>9. Len(e) >= 2 * N
  BY <1>5, <1>7
<1> QED BY <1>7, <1>8, <1>9

\* The data d starts with that of the call c, after its first bytes and up to others.
Prefixed(d, from, to, c) ==
  LET x == CallDecoding!EncodeCall(c)
  IN Len(x) <= to - from /\ SubSeq(d, from + 1, from + Len(x)) = x

\* A call's frame in d is that of a known function, after its selector.
Ranged(d, f) ==
  /\ f.start \in Nat /\ f.end \in Nat /\ 1 <= f.start /\ f.start <= f.end /\ f.end <= Len(d)
  /\ f.fn \in {1, 2} /\ d[f.start] = f.fn

\* A range of the data has its bytes.
LEMMA RangeHas ==
  ASSUME NEW d \in Seq(Nat), NEW from \in Nat, NEW to \in Nat,
         1 <= from, from <= to + 1, to <= Len(d), NEW s, s = SubSeq(d, from, to)
  PROVE  /\ s \in Seq(Nat) /\ Len(s) = to + 1 - from
         /\ \A j \in 1 .. Len(s) : s[j] = d[from + j - 1]
<1>1. Len(d) \in Nat
  BY LenProperties
<1>2. CASE from <= to
  <2>1. \A i \in from .. to : d[i] \in Nat
    <3>1. \A i \in from .. to : i \in 1 .. Len(d)
      BY <1>1
    <3>2. \A i \in 1 .. Len(d) : d[i] \in Nat
      OBVIOUS
    <3> QED BY <3>1, <3>2
  <2>2. from \in Int /\ to \in Int
    OBVIOUS
  <2>3. /\ SubSeq(d, from, to) \in Seq(Nat)
        /\ Len(SubSeq(d, from, to)) = IF from <= to THEN to - from + 1 ELSE 0
        /\ \A j \in 1 .. to - from + 1 : SubSeq(d, from, to)[j] = d[from + j - 1]
    BY <1>1, <1>2
  <2>4. to - from + 1 = to + 1 - from
    OBVIOUS
  <2> QED BY <1>2, <2>3, <2>4
<1>3. CASE from = to + 1
  <2>1. s = <<>>
    BY <1>3
  <2>2. <<>> \in Seq(Nat) /\ Len(<<>>) = 0 /\ to + 1 - from = 0
    BY <1>3
  <2> QED BY <2>1, <2>2
<1> QED BY <1>2, <1>3

\* The values of well-known calls can be encoded.
LEMMA WellKnownArgs ==
  ASSUME NEW c \in WellKnown
  PROVE  /\ c.fn \in {1, 2} /\ Len(c.args) = Len(CallDecoding!Definitions[c.fn])
         /\ Len(c.args) \in {2, 3} /\ 1 \in 1 .. Len(c.args)
         /\ \A k \in 1 .. Len(c.args) : CallDecoding!Fits(CallDecoding!Definitions[c.fn][k], c.args[k])
         /\ \A k \in 1 .. Len(c.args) : IsValue(c.args[k])
<1>1. CallDecoding!IsCall(c)
  BY DataAssumption
<1>2. /\ DOMAIN CallDecoding!Definitions = {1, 2}
      /\ Len(CallDecoding!Definitions[1]) = 2 /\ DOMAIN CallDecoding!Definitions[1] = {1, 2}
      /\ Len(CallDecoding!Definitions[2]) = 3 /\ DOMAIN CallDecoding!Definitions[2] = {1, 2, 3}
  BY DEF CallDecoding!Definitions
<1>3. c.fn \in {1, 2} /\ Len(c.args) = Len(CallDecoding!Definitions[c.fn])
  BY <1>1, <1>2 DEF CallDecoding!IsCall
<1>4. /\ Len(c.args) \in {2, 3} /\ 1 \in 1 .. Len(c.args)
      /\ DOMAIN CallDecoding!Definitions[c.fn] = 1 .. Len(c.args)
  <2>1. 1 .. 2 = {1, 2} /\ 1 .. 3 = {1, 2, 3}
    OBVIOUS
  <2>2. CASE c.fn = 1
    BY <1>2, <1>3, <2>1, <2>2
  <2>3. CASE c.fn = 2
    BY <1>2, <1>3, <2>1, <2>3
  <2> QED BY <1>3, <2>2, <2>3
<1>5. \A k \in 1 .. Len(c.args) : CallDecoding!Fits(CallDecoding!Definitions[c.fn][k], c.args[k])
  BY <1>1, <1>4 DEF CallDecoding!IsCall
<1>6. ASSUME NEW k \in 1 .. Len(c.args) PROVE IsValue(c.args[k])
  <2>1. CallDecoding!Fits(CallDecoding!Definitions[c.fn][k], c.args[k])
    BY <1>5
  <2> QED BY <2>1 DEF CallDecoding!Fits, IsValue, CallDecoding!WordSize
<1> QED BY <1>3, <1>4, <1>5, <1>6

\* The data of a call is its selector and its encoded arguments.
LEMMA CallEncodes ==
  ASSUME NEW c \in WellKnown, NEW x, x = CallDecoding!EncodeCall(c),
         NEW e, e = CallDecoding!Encode(c.args)
  PROVE  /\ e \in Seq(Nat) /\ Len(e) >= 2 * Len(c.args)
         /\ \A k \in 1 .. Len(c.args) : EncodesAt(e, c.args[k], k)
         /\ x \in Seq(Nat) /\ Len(x) = 1 + Len(e) /\ x[1] = c.fn
         /\ \A j \in 1 .. Len(e) : x[1 + j] = e[j]
<1>1. /\ e \in Seq(Nat) /\ Len(e) >= 2 * Len(c.args)
      /\ \A k \in 1 .. Len(c.args) : EncodesAt(e, c.args[k], k)
  <2>1. Len(c.args) \in Nat /\ \A k \in 1 .. Len(c.args) : IsValue(c.args[k])
    BY WellKnownArgs
  <2> QED BY <2>1, EncodeHas
<1> DEFINE h == <<c.fn>>
<1>2. h \in Seq(Nat) /\ Len(h) = 1 /\ h[1] = c.fn
  BY WellKnownArgs
<1>3. x = h \o e
  BY DEF CallDecoding!EncodeCall
<1> HIDE DEF h
<1>4. /\ h \o e \in Seq(Nat) /\ Len(h \o e) = Len(h) + Len(e)
      /\ \A j \in 1 .. Len(h) : (h \o e)[j] = h[j]
      /\ \A j \in 1 .. Len(e) : (h \o e)[Len(h) + j] = e[j]
  BY <1>1, <1>2, BytesJoined
<1>5. 1 \in 1 .. Len(h)
  BY <1>2
<1>6. /\ x \in Seq(Nat) /\ Len(x) = 1 + Len(e) /\ x[1] = c.fn
      /\ \A j \in 1 .. Len(e) : x[1 + j] = e[j]
  BY <1>2, <1>3, <1>4, <1>5, Zenon
<1> QED BY <1>1, <1>6

\* Data that starts with a call has its selector and its arguments.
LEMMA PrefixedHas ==
  ASSUME NEW d \in Seq(Nat), NEW from \in Nat, NEW to \in Nat, to <= Len(d),
         NEW c \in WellKnown, Prefixed(d, from, to, c),
         NEW e, e = CallDecoding!Encode(c.args)
  PROVE  /\ d[from + 1] = c.fn /\ from + 1 + Len(e) <= to
         /\ \A j \in 1 .. Len(e) : d[from + 1 + j] = e[j]
<1> DEFINE x == CallDecoding!EncodeCall(c)
           n == Len(x)
<1>1. /\ e \in Seq(Nat) /\ x \in Seq(Nat) /\ n = 1 + Len(e) /\ x[1] = c.fn
      /\ \A j \in 1 .. Len(e) : x[1 + j] = e[j]
  BY CallEncodes
<1>2. n <= to - from /\ x = SubSeq(d, from + 1, from + n)
  BY DEF Prefixed
<1>3. Len(e) \in Nat /\ n \in Nat /\ Len(d) \in Nat
  BY <1>1, LenProperties
<1>4. \A j \in 1 .. n : x[j] = d[from + 1 + j - 1]
  <2> DEFINE p == from + 1
             q == from + n
  <2>1. p \in Nat /\ q \in Nat /\ 1 <= p /\ p <= q + 1 /\ q <= Len(d)
    BY <1>2, <1>3
  <2>2. x = SubSeq(d, p, q)
    BY <1>2
  <2> HIDE DEF x, p, q
  <2>3. \A j \in 1 .. Len(x) : x[j] = d[p + j - 1]
    BY <2>1, <2>2, RangeHas
  <2> QED BY <2>3 DEF p
<1> HIDE DEF x, n
<1>5. d[from + 1] = c.fn
  <2>1. 1 \in 1 .. n /\ from + 1 + 1 - 1 = from + 1
    BY <1>1, <1>3
  <2> QED BY <1>1, <1>4, <2>1
<1>6. ASSUME NEW j \in 1 .. Len(e) PROVE d[from + 1 + j] = e[j]
  <2>1. 1 + j \in 1 .. n /\ from + 1 + (1 + j) - 1 = from + 1 + j
    BY <1>1, <1>3
  <2> QED BY <1>1, <1>4, <2>1
<1>7. from + 1 + Len(e) <= to
  BY <1>1, <1>2, <1>3
<1> QED BY <1>5, <1>6, <1>7

\* The bytes of a call are those of a call that starts with it.
LEMMA PrefixedByItself ==
  ASSUME NEW d \in Seq(Nat), NEW from \in Nat, NEW to \in Nat, from <= to, to <= Len(d),
         NEW c \in WellKnown, SubSeq(d, from + 1, to) = CallDecoding!EncodeCall(c)
  PROVE  Prefixed(d, from, to, c) /\ from < to
<1> DEFINE x == CallDecoding!EncodeCall(c)
           p == from + 1
<1>1. p \in Nat /\ 1 <= p /\ p <= to + 1 /\ x = SubSeq(d, p, to)
  OBVIOUS
<1>2. Len(x) >= 1
  <2>1. CallDecoding!Encode(c.args) \in Seq(Nat) /\ Len(x) = 1 + Len(CallDecoding!Encode(c.args))
    BY CallEncodes
  <2> HIDE DEF x
  <2>2. Len(CallDecoding!Encode(c.args)) \in Nat
    BY <2>1, LenProperties
  <2> QED BY <2>1, <2>2
<1> HIDE DEF x, p
<1>3. Len(x) = to + 1 - p
  BY <1>1, RangeHas
<1>4. Len(x) <= to - from /\ from + Len(x) = to /\ from < to
  BY <1>2, <1>3 DEF p
<1>5. SubSeq(d, from + 1, from + Len(x)) = x
  BY <1>1, <1>4 DEF p
<1> QED BY <1>4, <1>5 DEF Prefixed, x

\* The word w that is read at an offset o of f.
WordRead(f, o, w) ==
  IF o + 2 <= f.end - f.start
  THEN /\ w.status = "ok" /\ w.value \in Seq(Nat) /\ Len(w.value) = 2
       /\ w.value[1] = callData[f.start + (o + 1)] /\ w.value[2] = callData[f.start + (o + 2)]
  ELSE w.status = "error"

\* The number u of the word at o, if it has one that is small enough.
NumberRead(f, o, u) ==
  IF o + 2 <= f.end - f.start /\ callData[f.start + (o + 1)] = 0
  THEN u.status = "ok" /\ u.value = callData[f.start + (o + 2)] /\ u.value \in Nat
  ELSE u.status = "error"

\* A word is read if it is within the frame, and is that of the data.
LEMMA WordIsRead ==
  ASSUME callData \in Seq(Nat), NEW f, Ranged(callData, f), NEW o \in Nat,
         NEW w, w = CallDecoding!Word(f, o)
  PROVE  WordRead(f, o, w)
<1> DEFINE s == f.start
           n == f.end
<1>1. s \in Nat /\ n \in Nat /\ 1 <= s /\ s <= n /\ n <= Len(callData)
  BY DEF Ranged
<1>2. CallDecoding!HasWord(f, o) <=> o <= n - s /\ (n - s) - o >= 2
  BY DEF CallDecoding!HasWord, CallDecoding!Length, CallDecoding!WordSize
<1>3. (o + 2 > CallDecoding!Length(f)) <=> (o + 2 > n - s)
  BY DEF CallDecoding!Length
<1>4. w = IF ~CallDecoding!HasWord(f, o) THEN CallDecoding!Error
          ELSE IF o + 2 > CallDecoding!Length(f) THEN CallDecoding!Panic
          ELSE CallDecoding!Ok(SubSeq(callData, s + o + 1, s + o + 2))
  BY DEF CallDecoding!Word, CallDecoding!WordSize
<1> HIDE DEF s, n
<1>5. CASE o + 2 <= n - s
  <2> DEFINE r == SubSeq(callData, s + o + 1, s + o + 2)
  <2>1. CallDecoding!HasWord(f, o) /\ ~(o + 2 > CallDecoding!Length(f))
    BY <1>1, <1>2, <1>3, <1>5
  <2>2. w.status = "ok" /\ w.value = r
    <3> HIDE DEF r
    <3>1. w = CallDecoding!Ok(r)
      BY <1>4, <2>1, Zenon DEF r
    <3> QED BY <3>1 DEF CallDecoding!Ok
  <2>3. r \in Seq(Nat) /\ Len(r) = 2 /\ r[1] = callData[s + (o + 1)] /\ r[2] = callData[s + (o + 2)]
    <3>1. /\ s + o + 1 \in Nat /\ s + o + 2 \in Nat /\ 1 <= s + o + 1 /\ s + o + 1 <= s + o + 2 + 1
          /\ s + o + 2 <= Len(callData)
      <4>1. Len(callData) \in Nat
        BY LenProperties
      <4> QED BY <1>1, <1>5, <4>1
    <3> HIDE DEF r
    <3> DEFINE from == s + o + 1
               to == s + o + 2
    <3>2. r = SubSeq(callData, from, to)
      BY DEF r
    <3> HIDE DEF from, to
    <3>0. from \in Nat /\ to \in Nat /\ 1 <= from /\ from <= to + 1 /\ to <= Len(callData)
      BY <3>1 DEF from, to
    <3>6. /\ r \in Seq(Nat) /\ Len(r) = to + 1 - from
          /\ \A j \in 1 .. Len(r) : r[j] = callData[from + j - 1]
      BY <3>0, <3>2, RangeHas
    <3>3. /\ r \in Seq(Nat) /\ Len(r) = s + o + 2 + 1 - (s + o + 1)
          /\ \A j \in 1 .. Len(r) : r[j] = callData[s + o + 1 + j - 1]
      BY <3>6 DEF from, to
    <3>4. /\ s + o + 2 + 1 - (s + o + 1) = 2 /\ s + o + 1 + 1 - 1 = s + (o + 1)
          /\ s + o + 1 + 2 - 1 = s + (o + 2)
      BY <1>1
    <3>5. Len(r) = 2 /\ 1 \in 1 .. Len(r) /\ 2 \in 1 .. Len(r)
      BY <3>3, <3>4
    <3> QED BY <3>3, <3>4, <3>5
  <2> HIDE DEF r
  <2> QED BY <1>5, <2>2, <2>3, Zenon DEF WordRead, s, n
<1>6. CASE ~(o + 2 <= n - s)
  <2>1. ~CallDecoding!HasWord(f, o)
    BY <1>1, <1>2, <1>6
  <2>2. w.status = "error"
    BY <1>4, <2>1 DEF CallDecoding!Error
  <2> QED BY <1>6, <2>2, Zenon DEF WordRead, s, n
<1> QED BY <1>5, <1>6

\* A number is read of such a word.
LEMMA NumberIsRead ==
  ASSUME callData \in Seq(Nat), NEW f, Ranged(callData, f), NEW o \in Nat,
         NEW u, u = CallDecoding!Uint64(CallDecoding!Word(f, o))
  PROVE  NumberRead(f, o, u)
<1> DEFINE w == CallDecoding!Word(f, o)
<1>1. WordRead(f, o, w)
  BY WordIsRead
<1>2. u = IF w.status # "ok" THEN w
          ELSE IF w.value[1] # 0 THEN CallDecoding!Error ELSE CallDecoding!Ok(w.value[2])
  BY DEF CallDecoding!Uint64
<1> HIDE DEF w
<1>3. CASE o + 2 <= f.end - f.start
  <2>1. /\ w.status = "ok" /\ w.value \in Seq(Nat) /\ Len(w.value) = 2
        /\ w.value[1] = callData[f.start + (o + 1)] /\ w.value[2] = callData[f.start + (o + 2)]
    BY <1>1, <1>3, Zenon DEF WordRead
  <2>2. w.value[2] \in Nat
    BY <2>1
  <2>3. CASE callData[f.start + (o + 1)] = 0
    <3> DEFINE x == w.value[2]
    <3>2. u = CallDecoding!Ok(x)
      BY <1>2, <2>1, <2>3
    <3> HIDE DEF x
    <3>3. u.status = "ok" /\ u.value = x
      BY <3>2 DEF CallDecoding!Ok
    <3>1. u.status = "ok" /\ u.value = w.value[2]
      BY <3>3 DEF x
    <3> QED BY <1>3, <2>1, <2>2, <2>3, <3>1, Zenon DEF NumberRead
  <2>4. CASE callData[f.start + (o + 1)] # 0
    <3>2. u = CallDecoding!Error
      BY <1>2, <2>1, <2>4
    <3>1. u.status = "error"
      BY <3>2 DEF CallDecoding!Error
    <3> QED BY <2>4, <3>1, Zenon DEF NumberRead
  <2> QED BY <2>3, <2>4
<1>4. CASE ~(o + 2 <= f.end - f.start)
  <2>1. w.status = "error"
    BY <1>1, <1>4, Zenon DEF WordRead
  <2>2. u = w
    <3>1. "error" # "ok"
      OBVIOUS
    <3> QED BY <1>2, <2>1, <3>1
  <2> QED BY <1>4, <2>1, <2>2, Zenon DEF NumberRead
<1> QED BY <1>3, <1>4

\* The range of b is within f.
RangeOk(f, b) ==
  /\ b.value.from \in Nat /\ b.value.to \in Nat
  /\ f.start <= b.value.from /\ b.value.from <= b.value.to /\ b.value.to <= f.end

\* The head of f has, at i, the offset o of n bytes that are all in f.
HasRange(f, i, o, n) ==
  /\ 2 * i + 2 <= f.end - f.start /\ callData[f.start + (2 * i + 1)] = 0 /\ callData[f.start + (2 * i + 2)] = o
  /\ o + 2 + n <= f.end - f.start
  /\ callData[f.start + (o + 1)] = 0 /\ callData[f.start + (o + 2)] = n

\* Bytes that are read are within the frame, whatever offset and length say; and
\* those that it has are read.
LEMMA BytesAreRead ==
  ASSUME callData \in Seq(Nat), NEW f, Ranged(callData, f), NEW i \in Nat,
         NEW b, b = CallDecoding!BytesAt(f, i)
  PROVE  /\ b.status \in {"ok", "error"} /\ (b.status = "ok" => RangeOk(f, b))
         /\ \A o, n \in Nat : HasRange(f, i, o, n) =>
              b.status = "ok" /\ b.value.from = f.start + o + 2 /\ b.value.to = f.start + o + 2 + n
<1> DEFINE a == CallDecoding!Uint64(CallDecoding!Word(f, 2 * i))
           l == IF a.status = "ok" THEN CallDecoding!Uint64(CallDecoding!Word(f, a.value)) ELSE a
           s == a.value + 2
           len == f.end - f.start
<1>1. b = IF l.status # "ok" THEN l
          ELSE IF l.value > len - s THEN CallDecoding!Error
          ELSE CallDecoding!Ok([from |-> f.start + s, to |-> f.start + s + l.value])
  BY Zenon DEF CallDecoding!BytesAt, CallDecoding!WordSize, CallDecoding!Length
<1>2. NumberRead(f, 2 * i, a)
  <2>1. 2 * i \in Nat
    OBVIOUS
  <2> QED BY <2>1, NumberIsRead
<1>3. f.start \in Nat /\ f.end \in Nat /\ len \in Nat /\ f.start <= f.end
  BY DEF Ranged
<1>4. a.status # "ok" => l = a
  BY Zenon
<1>5. a.status = "ok" => l = CallDecoding!Uint64(CallDecoding!Word(f, a.value))
  BY Zenon
<1> HIDE DEF a, l
<1>6. CASE ~(2 * i + 2 <= len /\ callData[f.start + (2 * i + 1)] = 0)
  <2>1. a.status = "error"
    BY <1>2, <1>6, Zenon DEF NumberRead
  <2>2. l = a /\ l.status # "ok"
    BY <1>4, <2>1
  <2>3. b.status = "error"
    BY <1>1, <2>1, <2>2, Zenon
  <2>4. \A o, n \in Nat : ~HasRange(f, i, o, n)
    BY <1>6, Zenon DEF HasRange
  <2> QED BY <2>3, <2>4
<1>7. CASE 2 * i + 2 <= len /\ callData[f.start + (2 * i + 1)] = 0
  <2>1. a.status = "ok" /\ a.value = callData[f.start + (2 * i + 2)] /\ a.value \in Nat
    BY <1>2, <1>7, Zenon DEF NumberRead
  <2>2. NumberRead(f, a.value, l)
    BY <1>5, <2>1, NumberIsRead
  <2> DEFINE p == a.value
  <2>3. p \in Nat /\ s = p + 2
    BY <2>1
  <2> HIDE DEF s
  <2>4. CASE ~(p + 2 <= len /\ callData[f.start + (p + 1)] = 0)
    <3>1. l.status = "error"
      BY <2>2, <2>4, Zenon DEF NumberRead
    <3>2. b.status = "error"
      <4>1. "error" # "ok"
        OBVIOUS
      <4> QED BY <1>1, <3>1, <4>1, Zenon
    <3>3. ASSUME NEW o \in Nat, NEW n \in Nat, HasRange(f, i, o, n) PROVE FALSE
      <4>1. o = p /\ p + 2 + n <= len /\ callData[f.start + (p + 1)] = 0
        BY <2>1, <3>3, Zenon DEF HasRange
      <4>2. p + 2 <= len
        BY <1>3, <2>3, <4>1
      <4> QED BY <2>4, <4>1, <4>2
    <3> QED BY <3>2, <3>3
  <2>5. CASE p + 2 <= len /\ callData[f.start + (p + 1)] = 0
    <3>1. l.status = "ok" /\ l.value = callData[f.start + (p + 2)] /\ l.value \in Nat
      BY <2>2, <2>5, Zenon DEF NumberRead
    <3> DEFINE v == l.value
               r == [from |-> f.start + s, to |-> f.start + s + v]
    <3>2. v \in Nat
      BY <3>1
    <3>3. b = IF v > len - s THEN CallDecoding!Error ELSE CallDecoding!Ok(r)
      BY <1>1, <3>1
    <3>4. CASE v > len - s
      <4>1. b.status = "error"
        BY <3>3, <3>4 DEF CallDecoding!Error
      <4>2. ASSUME NEW o \in Nat, NEW n \in Nat, HasRange(f, i, o, n) PROVE FALSE
        <5>1. o = p /\ p + 2 + n <= len /\ n = v
          BY <2>1, <3>1, <4>2, Zenon DEF HasRange
        <5> HIDE DEF v
        <5> QED BY <1>3, <2>3, <3>2, <3>4, <5>1
      <4> QED BY <4>1, <4>2
    <3>5. CASE ~(v > len - s)
      <4> HIDE DEF v
      <4>1. b = CallDecoding!Ok(r)
        BY <3>3, <3>5
      <4>8. r.from = f.start + s /\ r.to = f.start + s + v
        OBVIOUS
      <4> HIDE DEF p, r
      <4>9. ASSUME NEW x \in Nat, NEW y \in Nat, x <= y, s + v <= y - x
            PROVE  /\ x + s = x + p + 2 /\ x + s + v = x + p + 2 + v
                   /\ x + s \in Nat /\ x + s + v \in Nat
                   /\ x <= x + s /\ x + s <= x + s + v /\ x + s + v <= y
        BY <2>3, <3>2, <4>9
      <4>10. s + v <= f.end - f.start
        BY <1>3, <2>3, <3>2, <3>5
      <4>2. r.from = f.start + p + 2 /\ r.to = f.start + p + 2 + v
        BY <1>3, <4>8, <4>9, <4>10
      <4>3. /\ r.from \in Nat /\ r.to \in Nat
            /\ f.start <= r.from /\ r.from <= r.to /\ r.to <= f.end
        BY <1>3, <4>8, <4>9, <4>10
      <4> HIDE DEF r
      <4>4. b.status = "ok" /\ b.value = r
        BY <4>1 DEF CallDecoding!Ok
      <4>5. ASSUME NEW o \in Nat, NEW n \in Nat, HasRange(f, i, o, n) PROVE o = p /\ n = v
        BY <2>1, <3>1, <4>5, Zenon DEF HasRange, p, v
      <4>6. RangeOk(f, b)
        BY <4>3, <4>4, Zenon DEF RangeOk
      <4>7. b.value.from = f.start + p + 2 /\ b.value.to = f.start + p + 2 + v
        BY <4>2, <4>4, Zenon
      <4> QED BY <4>4, <4>5, <4>6, <4>7, Zenon
    <3> QED BY <3>4, <3>5
  <2> QED BY <2>4, <2>5
<1> QED BY <1>6, <1>7

\* Where the k-th argument v of a call is in f, if f starts with that call.
ArgFound(f, k, v) ==
  IF v.dynamic
  THEN \E o \in Nat : /\ HasRange(f, k - 1, o, Len(v.bytes))
                      /\ \A j \in 1 .. Len(v.bytes) : callData[f.start + (o + 2 + j)] = v.bytes[j]
  ELSE /\ 2 * (k - 1) + 2 <= f.end - f.start
       /\ callData[f.start + (2 * (k - 1) + 1)] = v.bytes[1]
       /\ callData[f.start + (2 * (k - 1) + 2)] = v.bytes[2]

\* The arguments of a call are in a frame that starts with it.
LEMMA ArgIsFound ==
  ASSUME callData \in Seq(Nat), NEW f, Ranged(callData, f),
         NEW c \in WellKnown, Prefixed(callData, f.start - 1, f.end, c),
         NEW k \in 1 .. Len(c.args)
  PROVE  c.fn = f.fn /\ ArgFound(f, k, c.args[k])
<1> DEFINE e == CallDecoding!Encode(c.args)
           v == c.args[k]
           s == f.start
           n == f.end
<1>1. s \in Nat /\ n \in Nat /\ 1 <= s /\ s <= n /\ n <= Len(callData) /\ callData[s] = f.fn
  BY DEF Ranged
<1>2. callData[s] = c.fn /\ s + Len(e) <= n /\ \A j \in 1 .. Len(e) : callData[s + j] = e[j]
  <2> DEFINE from == s - 1
  <2>1. from \in Nat /\ from + 1 = s
    BY <1>1
  <2>2. Prefixed(callData, from, n, c)
    OBVIOUS
  <2> HIDE DEF from, e, n, s
  <2>3. /\ callData[from + 1] = c.fn /\ from + 1 + Len(e) <= n
        /\ \A j \in 1 .. Len(e) : callData[from + 1 + j] = e[j]
    BY <1>1, <2>1, <2>2, PrefixedHas DEF e
  <2> QED BY <2>1, <2>3
<1>3. /\ e \in Seq(Nat) /\ Len(e) >= 2 * Len(c.args) /\ EncodesAt(e, v, k)
  BY CallEncodes
<1>4. Len(c.args) \in Nat /\ IsValue(v)
  BY WellKnownArgs
<1>5. Len(e) \in Nat
  BY <1>3, LenProperties
<1> HIDE DEF e, v, s, n
<1>6. k \in Nat /\ 1 <= k /\ 2 * k <= Len(e) /\ 2 * (k - 1) + 2 = 2 * k /\ 2 * (k - 1) + 1 = 2 * k - 1
  BY <1>3, <1>4, <1>5
<1>7. 2 * (k - 1) + 2 <= n - s
  BY <1>1, <1>2, <1>5, <1>6
<1>8. callData[s + (2 * (k - 1) + 1)] = e[2 * k - 1] /\ callData[s + (2 * (k - 1) + 2)] = e[2 * k]
  <2>1. 2 * k - 1 \in 1 .. Len(e) /\ 2 * k \in 1 .. Len(e)
    BY <1>5, <1>6
  <2> QED BY <1>2, <1>6, <2>1
<1>9. CASE ~v.dynamic
  <2>1. e[2 * k - 1] = v.bytes[1] /\ e[2 * k] = v.bytes[2]
    BY <1>3, <1>9, Zenon DEF EncodesAt
  <2>2. ArgFound(f, k, v)
    BY <1>7, <1>8, <1>9, <2>1, Zenon DEF ArgFound, s, n
  <2> QED BY <1>1, <1>2, <2>2 DEF v
<1>10. CASE v.dynamic
  <2> DEFINE w == CallDecoding!Encoding(v)
             m == Len(v.bytes)
  <2>1. PICK o \in Nat : e[2 * k - 1] = 0 /\ e[2 * k] = o /\ Within(e, o, w)
    BY <1>3, <1>10 DEF EncodesAt
  <2>2. /\ w \in Seq(Nat) /\ Len(w) >= 2 + m /\ w[1] = 0 /\ w[2] = m
        /\ \A j \in 1 .. m : w[2 + j] = v.bytes[j]
    BY <1>4, <1>10, EncodingHas DEF IsValue
  <2>3. m \in Nat
    BY <1>4, LenProperties DEF IsValue
  <2> HIDE DEF w, m
  <2>4. Len(w) \in Nat
    BY <2>2, LenProperties
  <2>5. o + Len(w) <= Len(e) /\ \A j \in 1 .. Len(w) : e[o + j] = w[j]
    BY <2>1, Zenon DEF Within
  <2>6. ASSUME NEW j \in 1 .. 2 + m PROVE callData[s + (o + j)] = w[j]
    <3>1. j \in 1 .. Len(w) /\ o + j \in 1 .. Len(e)
      BY <1>5, <2>2, <2>3, <2>4, <2>5
    <3> QED BY <1>2, <2>5, <3>1
  <2>7. callData[s + (o + 1)] = 0 /\ callData[s + (o + 2)] = m
    <3>1. 1 \in 1 .. 2 + m /\ 2 \in 1 .. 2 + m
      BY <2>3
    <3> QED BY <2>2, <2>6, <3>1
  <2>8. o + 2 + m <= n - s
    BY <1>1, <1>2, <1>5, <2>2, <2>3, <2>4, <2>5
  <2>9. ASSUME NEW j \in 1 .. m PROVE callData[s + (o + 2 + j)] = v.bytes[j]
    <3>1. 2 + j \in 1 .. 2 + m /\ o + (2 + j) = o + 2 + j
      BY <2>3
    <3> QED BY <2>2, <2>6, <3>1
  <2>10. HasRange(f, k - 1, o, m)
    BY <1>7, <1>8, <2>1, <2>7, <2>8, Zenon DEF HasRange, s, n
  <2>11. \A j \in 1 .. m : callData[f.start + (o + 2 + j)] = v.bytes[j]
    BY <2>9 DEF s
  <2>12. ArgFound(f, k, v)
    BY <1>10, <2>10, <2>11, Zenon DEF ArgFound, m
  <2> QED BY <1>1, <1>2, <2>12 DEF v
<1> QED BY <1>9, <1>10

\* What shows an argument of a type that was encoded with these bytes.
ValueShown(d, type, value, bytes) ==
  /\ type = "address" => value[1] = bytes[2]
  /\ type = "uint256" => value = bytes
  /\ type = "uint8" => value = bytes[2]
  /\ type \in {"call", "bytes"} => SubSeq(d, value.from + 1, value.to) = bytes

\* Reading an argument gives a value or an error, and no bytes that aren't f's.
ReadAs(f, k, type, a) ==
  /\ a.status \in {"ok", "error"}
  /\ a.status = "ok" /\ type \in {"call", "bytes"} => RangeOk(f, a)

\* If the frame has the value v there, that is what is read.
ReadsArg(f, k, type, a, v) ==
  ArgFound(f, k, v) => a.status = "ok" /\ ValueShown(callData, type, a.value, v.bytes)

\* Sequences with the same bytes are the same.
LEMMA SameBytes ==
  ASSUME NEW s \in Seq(Nat), NEW t \in Seq(Nat), Len(s) = Len(t),
         \A j \in 1 .. Len(s) : s[j] = t[j]
  PROVE  s = t
<1> DEFINE n == Len(s)
<1>1. n \in Nat /\ s \in [1 .. n -> Nat] /\ t \in [1 .. n -> Nat]
  BY LenProperties
<1>2. \A j \in 1 .. n : s[j] = t[j]
  OBVIOUS
<1> HIDE DEF n
<1>3. s = [j \in 1 .. n |-> s[j]] /\ t = [j \in 1 .. n |-> t[j]]
  BY <1>1
<1>4. [j \in 1 .. n |-> s[j]] = [j \in 1 .. n |-> t[j]]
  BY <1>2
<1> QED BY <1>3, <1>4, Zenon

\* An address is read as it was encoded.
LEMMA AddressIsRead ==
  ASSUME callData \in Seq(Nat), NEW f, Ranged(callData, f), NEW k \in Nat \ {0},
         NEW a, a = CallDecoding!Value(f, k - 1, "address")
  PROVE  ReadAs(f, k, "address", a) /\ \A v : ~v.dynamic => ReadsArg(f, k, "address", a, v)
<1> DEFINE w == CallDecoding!Word(f, 2 * (k - 1))
<1>1. WordRead(f, 2 * (k - 1), w)
  <2>1. 2 * (k - 1) \in Nat
    OBVIOUS
  <2> QED BY <2>1, WordIsRead
<1>2. a = IF w.status = "ok" THEN CallDecoding!Ok(<<w.value[2]>>) ELSE w
  BY DEF CallDecoding!Value, CallDecoding!WordSize
<1> HIDE DEF w
<1>3. CASE 2 * (k - 1) + 2 <= f.end - f.start
  <2>1. w.status = "ok" /\ w.value[2] = callData[f.start + (2 * (k - 1) + 2)]
    BY <1>1, <1>3, Zenon DEF WordRead
  <2> DEFINE x == w.value[2]
  <2>2. a = CallDecoding!Ok(<<x>>)
    BY <1>2, <2>1
  <2> HIDE DEF x
  <2>3. a.status = "ok" /\ a.value[1] = x
    BY <2>2 DEF CallDecoding!Ok
  <2>4. ReadAs(f, k, "address", a)
    BY <2>3 DEF ReadAs
  <2>5. ASSUME NEW v, ~v.dynamic, ArgFound(f, k, v) PROVE ValueShown(callData, "address", a.value, v.bytes)
    <3>1. x = v.bytes[2]
      BY <2>1, <2>5, Zenon DEF ArgFound, x
    <3> QED BY <2>3, <3>1 DEF ValueShown
  <2> QED BY <2>3, <2>4, <2>5, Zenon DEF ReadsArg
<1>4. CASE ~(2 * (k - 1) + 2 <= f.end - f.start)
  <2>1. w.status = "error"
    BY <1>1, <1>4, Zenon DEF WordRead
  <2>2. a.status = "error"
    BY <1>2, <2>1
  <2>3. \A v : ~v.dynamic => ~ArgFound(f, k, v)
    BY <1>4, Zenon DEF ArgFound
  <2>4. ReadAs(f, k, "address", a)
    BY <2>2 DEF ReadAs
  <2> QED BY <2>3, <2>4, Zenon DEF ReadsArg
<1> QED BY <1>3, <1>4

\* So is a word.
LEMMA WordArgIsRead ==
  ASSUME callData \in Seq(Nat), NEW f, Ranged(callData, f), NEW k \in Nat \ {0},
         NEW a, a = CallDecoding!Value(f, k - 1, "uint256")
  PROVE  /\ ReadAs(f, k, "uint256", a)
         /\ \A v : ~v.dynamic /\ v.bytes \in Seq(Nat) /\ Len(v.bytes) = 2 => ReadsArg(f, k, "uint256", a, v)
<1>1. a = CallDecoding!Word(f, 2 * (k - 1))
  BY DEF CallDecoding!Value, CallDecoding!WordSize
<1>2. WordRead(f, 2 * (k - 1), a)
  <2>1. 2 * (k - 1) \in Nat
    OBVIOUS
  <2> QED BY <1>1, <2>1, WordIsRead
<1>3. CASE 2 * (k - 1) + 2 <= f.end - f.start
  <2>1. /\ a.status = "ok" /\ a.value \in Seq(Nat) /\ Len(a.value) = 2
        /\ a.value[1] = callData[f.start + (2 * (k - 1) + 1)]
        /\ a.value[2] = callData[f.start + (2 * (k - 1) + 2)]
    BY <1>2, <1>3, Zenon DEF WordRead
  <2>2. ReadAs(f, k, "uint256", a)
    BY <2>1 DEF ReadAs
  <2>3. ASSUME NEW v, ~v.dynamic, v.bytes \in Seq(Nat), Len(v.bytes) = 2, ArgFound(f, k, v)
        PROVE  ValueShown(callData, "uint256", a.value, v.bytes)
    <3> DEFINE s == a.value
               t == v.bytes
    <3>1. s[1] = t[1] /\ s[2] = t[2]
      BY <2>1, <2>3, Zenon DEF ArgFound
    <3>2. s \in Seq(Nat) /\ t \in Seq(Nat) /\ Len(s) = 2 /\ Len(t) = 2
      BY <2>1, <2>3
    <3> HIDE DEF s, t
    <3>3. \A j \in 1 .. Len(s) : s[j] = t[j]
      <4>1. \A j \in 1 .. 2 : j = 1 \/ j = 2
        OBVIOUS
      <4> QED BY <3>1, <3>2, <4>1
    <3>4. s = t
      BY <3>2, <3>3, SameBytes
    <3> QED BY <3>4 DEF ValueShown, s, t
  <2> QED BY <2>1, <2>2, <2>3, Zenon DEF ReadsArg
<1>4. CASE ~(2 * (k - 1) + 2 <= f.end - f.start)
  <2>1. a.status = "error"
    BY <1>2, <1>4, Zenon DEF WordRead
  <2>2. \A v : ~v.dynamic => ~ArgFound(f, k, v)
    BY <1>4, Zenon DEF ArgFound
  <2>3. ReadAs(f, k, "uint256", a)
    BY <2>1 DEF ReadAs
  <2> QED BY <2>2, <2>3, Zenon DEF ReadsArg
<1> QED BY <1>3, <1>4

\* So is a small number, which has a word of the same value.
LEMMA NumberArgIsRead ==
  ASSUME callData \in Seq(Nat), NEW f, Ranged(callData, f), NEW k \in Nat \ {0},
         NEW a, a = CallDecoding!Value(f, k - 1, "uint8")
  PROVE  /\ ReadAs(f, k, "uint8", a)
         /\ \A v : ~v.dynamic /\ v.bytes[1] = 0 /\ v.bytes[2] <= MaxUint8 => ReadsArg(f, k, "uint8", a, v)
<1> DEFINE u == CallDecoding!Uint64(CallDecoding!Word(f, 2 * (k - 1)))
           there == 2 * (k - 1) + 2 <= f.end - f.start /\ callData[f.start + (2 * (k - 1) + 1)] = 0
           x == callData[f.start + (2 * (k - 1) + 2)]
<1>1. NumberRead(f, 2 * (k - 1), u)
  <2>1. 2 * (k - 1) \in Nat
    OBVIOUS
  <2> QED BY <2>1, NumberIsRead
<1>2. a = IF u.status = "ok" /\ u.value > MaxUint8 THEN CallDecoding!Error ELSE u
  BY DEF CallDecoding!Value, CallDecoding!WordSize
<1> HIDE DEF u
<1>3. IF there THEN u.status = "ok" /\ u.value = x ELSE u.status = "error"
  BY <1>1, Zenon DEF NumberRead
<1>4. a.status \in {"ok", "error"}
  <2>1. u.status \in {"ok", "error"}
    BY <1>3
  <2>2. CASE a = CallDecoding!Error
    BY <2>2 DEF CallDecoding!Error
  <2> QED BY <1>2, <2>1, <2>2
<1>5. ReadAs(f, k, "uint8", a)
  BY <1>4 DEF ReadAs
<1>6. ASSUME NEW v, ~v.dynamic, v.bytes[1] = 0, v.bytes[2] <= MaxUint8, ArgFound(f, k, v)
      PROVE  a.status = "ok" /\ ValueShown(callData, "uint8", a.value, v.bytes)
  <2>1. there /\ x = v.bytes[2]
    BY <1>6, Zenon DEF ArgFound
  <2>2. u.status = "ok" /\ u.value = x /\ u.value \in Nat
    BY <1>1, <2>1, Zenon DEF NumberRead
  <2>3. ~(u.value > MaxUint8)
    <3> DEFINE y == u.value
    <3>1. y \in Nat /\ y <= MaxUint8 /\ MaxUint8 \in Nat
      BY <1>6, <2>1, <2>2, DataAssumption
    <3> HIDE DEF y
    <3>2. ~(y > MaxUint8)
      BY <3>1
    <3> QED BY <3>2 DEF y
  <2>4. a = u
    BY <1>2, <2>3, Zenon
  <2> QED BY <2>1, <2>2, <2>4 DEF ValueShown
<1> QED BY <1>5, <1>6, Zenon DEF ReadsArg

\* So are bytes.
LEMMA BytesArgAreRead ==
  ASSUME callData \in Seq(Nat), NEW f, Ranged(callData, f), NEW k \in Nat \ {0}, NEW type \in {"call", "bytes"},
         NEW a, a = CallDecoding!Value(f, k - 1, type)
  PROVE  ReadAs(f, k, type, a) /\ \A v : v.dynamic /\ v.bytes \in Seq(Nat) => ReadsArg(f, k, type, a, v)
<1>1. a = CallDecoding!BytesAt(f, k - 1)
  BY DEF CallDecoding!Value
<1>2. /\ a.status \in {"ok", "error"} /\ (a.status = "ok" => RangeOk(f, a))
      /\ \A o, n \in Nat : HasRange(f, k - 1, o, n) =>
           a.status = "ok" /\ a.value.from = f.start + o + 2 /\ a.value.to = f.start + o + 2 + n
  <2>1. k - 1 \in Nat
    OBVIOUS
  <2> QED BY <1>1, <2>1, BytesAreRead
<1>3. ReadAs(f, k, type, a)
  BY <1>2 DEF ReadAs
<1>4. ASSUME NEW v, v.dynamic, v.bytes \in Seq(Nat), ArgFound(f, k, v)
      PROVE  a.status = "ok" /\ ValueShown(callData, type, a.value, v.bytes)
  <2> DEFINE t == v.bytes
             n == Len(t)
             from == a.value.from
             to == a.value.to
             s == f.start
  <2>1. PICK o \in Nat : /\ HasRange(f, k - 1, o, n)
                         /\ \A j \in 1 .. n : callData[s + (o + 2 + j)] = t[j]
    BY <1>4 DEF ArgFound
  <2>2. t \in Seq(Nat) /\ n \in Nat
    BY <1>4, LenProperties
  <2> HIDE DEF n, s
  <2>3. a.status = "ok" /\ from = s + o + 2 /\ to = s + o + 2 + n
    BY <1>2, <2>1, <2>2 DEF s
  <2>4. from \in Nat /\ to \in Nat /\ from <= to /\ to <= Len(callData) /\ s \in Nat
    <3>1. RangeOk(f, a)
      BY <1>2, <2>3
    <3>2. f.end <= Len(callData) /\ f.end \in Nat /\ s \in Nat
      BY DEF Ranged, s
    <3>3. from \in Nat /\ to \in Nat /\ from <= to /\ to <= f.end
      BY <3>1, Zenon DEF RangeOk
    <3>4. Len(callData) \in Nat
      BY LenProperties
    <3> DEFINE z == f.end
    <3> HIDE DEF from, to, z
    <3>5. to <= z /\ z <= Len(callData) /\ z \in Nat /\ to \in Nat
      BY <3>2, <3>3 DEF z
    <3>6. to <= Len(callData)
      BY <3>4, <3>5
    <3> QED BY <3>2, <3>3, <3>6
  <2> HIDE DEF t, from, to
  <2> DEFINE r == SubSeq(callData, from + 1, to)
  <2>5. r \in Seq(Nat) /\ Len(r) = n /\ \A j \in 1 .. n : r[j] = callData[from + 1 + j - 1]
    <3> DEFINE p == from + 1
    <3>1. p \in Nat /\ 1 <= p /\ p <= to + 1 /\ r = SubSeq(callData, p, to) /\ to + 1 - p = n
      BY <2>2, <2>3, <2>4
    <3> HIDE DEF r, p
    <3>2. /\ r \in Seq(Nat) /\ Len(r) = to + 1 - p
          /\ \A j \in 1 .. Len(r) : r[j] = callData[p + j - 1]
      BY <2>4, <3>1, RangeHas
    <3> QED BY <3>1, <3>2 DEF p
  <2> HIDE DEF r
  <2>6. ASSUME NEW j \in 1 .. n PROVE r[j] = t[j]
    <3>1. from + 1 + j - 1 = s + (o + 2 + j)
      BY <2>2, <2>3, <2>4
    <3> QED BY <2>1, <2>5, <3>1
  <2>7. r = t
    <3>1. Len(r) = Len(t)
      BY <2>5 DEF n
    <3>2. \A j \in 1 .. Len(r) : r[j] = t[j]
      BY <2>5, <2>6
    <3> QED BY <2>2, <2>5, <3>1, <3>2, SameBytes
  <2>8. SubSeq(callData, a.value.from + 1, a.value.to) = v.bytes
    BY <2>7 DEF r, t, from, to
  <2> QED BY <2>3, <2>8 DEF ValueShown
<1> QED BY <1>3, <1>4, Zenon DEF ReadsArg

\* The types of the parameters of a function.
LEMMA ParamTypes ==
  ASSUME NEW fn \in {1, 2}
  PROVE  /\ Len(CallDecoding!Definitions[fn]) \in {2, 3}
         /\ DOMAIN CallDecoding!Definitions[fn] = 1 .. Len(CallDecoding!Definitions[fn])
         /\ \A k \in 1 .. Len(CallDecoding!Definitions[fn]) :
              CallDecoding!Definitions[fn][k] \in {"address", "uint256", "call", "uint8", "bytes"}
<1>1. /\ CallDecoding!Definitions[1] = <<"address", "uint256">>
      /\ CallDecoding!Definitions[2] = <<"call", "uint8", "bytes">>
  BY DEF CallDecoding!Definitions
<1>2. 1 .. 2 = {1, 2} /\ 1 .. 3 = {1, 2, 3}
  OBVIOUS
<1> DEFINE Fine(s) == /\ Len(s) \in {2, 3} /\ DOMAIN s = 1 .. Len(s)
                      /\ \A k \in 1 .. Len(s) : s[k] \in {"address", "uint256", "call", "uint8", "bytes"}
<1>5. Fine(<<"address", "uint256">>)
  BY <1>2
<1>6. Fine(<<"call", "uint8", "bytes">>)
  BY <1>2
<1> HIDE DEF Fine
<1>3. Fine(CallDecoding!Definitions[fn])
  <2>1. CASE fn = 1
    BY <1>1, <1>5, <2>1, Zenon
  <2>2. CASE fn = 2
    BY <1>1, <1>6, <2>2, Zenon
  <2> QED BY <2>1, <2>2
<1> QED BY <1>3 DEF Fine

\* So is every argument, by its type.
LEMMA ValueIsRead ==
  ASSUME callData \in Seq(Nat), NEW f, Ranged(callData, f),
         NEW k \in 1 .. Len(CallDecoding!Definitions[f.fn]),
         NEW type, type = CallDecoding!Definitions[f.fn][k],
         NEW a, a = CallDecoding!Value(f, k - 1, type)
  PROVE  /\ ReadAs(f, k, type, a)
         /\ \A c \in WellKnown : Prefixed(callData, f.start - 1, f.end, c) =>
              a.status = "ok" /\ ValueShown(callData, type, a.value, c.args[k].bytes)
<1>1. f.fn \in {1, 2}
  BY DEF Ranged
<1>2. type \in {"address", "uint256", "call", "uint8", "bytes"} /\ k \in Nat \ {0}
  <2>1. Len(CallDecoding!Definitions[f.fn]) \in Nat
    BY <1>1, ParamTypes
  <2> QED BY <1>1, <2>1, ParamTypes
<1>3. ReadAs(f, k, type, a) /\ \A v : CallDecoding!Fits(type, v) => ReadsArg(f, k, type, a, v)
  <2>1. CASE type = "address"
    <3>1. \A v : CallDecoding!Fits(type, v) => ~v.dynamic
      BY <2>1 DEF CallDecoding!Fits
    <3> QED BY <1>2, <2>1, <3>1, AddressIsRead
  <2>2. CASE type = "uint256"
    <3>1. \A v : CallDecoding!Fits(type, v) => ~v.dynamic /\ v.bytes \in Seq(Nat) /\ Len(v.bytes) = 2
      BY <2>2 DEF CallDecoding!Fits, CallDecoding!WordSize
    <3> QED BY <1>2, <2>2, <3>1, WordArgIsRead
  <2>3. CASE type = "uint8"
    <3>1. \A v : CallDecoding!Fits(type, v) => ~v.dynamic /\ v.bytes[1] = 0 /\ v.bytes[2] <= MaxUint8
      BY <2>3 DEF CallDecoding!Fits
    <3> QED BY <1>2, <2>3, <3>1, NumberArgIsRead
  <2>4. CASE type \in {"call", "bytes"}
    <3>1. \A v : CallDecoding!Fits(type, v) => v.dynamic /\ v.bytes \in Seq(Nat)
      BY <2>4 DEF CallDecoding!Fits
    <3> QED BY <1>2, <2>4, <3>1, BytesArgAreRead
  <2> QED BY <1>2, <2>1, <2>2, <2>3, <2>4
<1>4. ASSUME NEW c \in WellKnown, Prefixed(callData, f.start - 1, f.end, c)
      PROVE  a.status = "ok" /\ ValueShown(callData, type, a.value, c.args[k].bytes)
  <2>1. 1 \in 1 .. Len(c.args) /\ Len(c.args) = Len(CallDecoding!Definitions[c.fn])
    BY WellKnownArgs
  <2>2. c.fn = f.fn
    BY <1>4, <2>1, ArgIsFound
  <2>3. k \in 1 .. Len(c.args)
    BY <2>1, <2>2
  <2>4. ArgFound(f, k, c.args[k])
    BY <1>4, <2>3, ArgIsFound
  <2>5. CallDecoding!Fits(type, c.args[k])
    BY <2>2, <2>3, WellKnownArgs
  <2> QED BY <1>3, <2>4, <2>5, Zenon DEF ReadsArg
<1> QED BY <1>3, <1>4

\* What is shown of the j-th argument of f, a call at some depth.
ArgShown(d, f, depth, j, given) ==
  LET type == CallDecoding!Definitions[f.fn][j]
  IN /\ type \in {"call", "bytes"} => f.start <= given.value.from /\ given.value.to <= f.end
     /\ \A c \in WellKnown : Prefixed(d, f.start - 1, f.end, c) =>
          /\ ValueShown(d, type, given.value, c.args[j].bytes)
          /\ type = "call" /\ depth < MaxDepth =>
               \A x \in WellKnown : c.args[j].bytes = CallDecoding!EncodeCall(x) => given.call # <<>>

\* The frame f at a depth, with the arguments that were read of it.
FrameIs(d, f, depth) ==
  /\ Ranged(d, f) /\ f = [fn |-> f.fn, start |-> f.start, end |-> f.end, args |-> f.args]
  /\ OfLength(f.args, Len(f.args)) /\ Len(f.args) <= Len(CallDecoding!Definitions[f.fn])
  /\ \A j \in 1 .. Len(f.args) : ArgShown(d, f, depth, j, f.args[j])

\* The frame g is that of the next argument of f.
Called(d, f, g) ==
  LET j == Len(f.args) + 1
  IN /\ j <= Len(CallDecoding!Definitions[f.fn]) /\ CallDecoding!Definitions[f.fn][j] = "call"
     /\ f.start <= g.start - 1 /\ g.end <= f.end
     /\ \A c \in WellKnown : Prefixed(d, f.start - 1, f.end, c) =>
          SubSeq(d, g.start - 1 + 1, g.end) = c.args[j].bytes

\* The n calls of s are in one another, and the first has all data.
FramesAre(d, s, n) ==
  /\ OfLength(s, n)
  /\ \A k \in 1 .. n : FrameIs(d, s[k], k)
  /\ \A k \in 1 .. n : k + 1 \in 1 .. n => Called(d, s[k], s[k + 1])
  /\ n # 0 => s[1].start = 1 /\ s[1].end = Len(d)

\* The sequence b is a, of length n, and then x.
Extends(b, a, n, x) ==
  OfLength(b, n + 1) /\ Len(b) = n + 1 /\ b[n + 1] = x /\ \A j \in 1 .. n : b[j] = a[j]

\* Appending is such an extension.
LEMMA AppendExtends ==
  ASSUME NEW a, NEW n, OfLength(a, n), NEW x
  PROVE  Extends(Append(a, x), a, n, x)
<1>1. /\ OfLength(Append(a, x), n + 1) /\ Append(a, x)[n + 1] = x
      /\ \A j \in 1 .. n : Append(a, x)[j] = a[j]
  <2>1. n \in Nat
    BY DEF OfLength
  <2> QED BY <2>1, Appended
<1> DEFINE b == Append(a, x)
<1>2. OfLength(b, n + 1)
  BY <1>1
<1> HIDE DEF b
<1>3. Len(b) = n + 1
  BY <1>2, LengthOf
<1> QED BY <1>1, <1>3, Zenon DEF Extends, b

\* The frame f with one more argument.
WithArg(f, arg) == [f EXCEPT !.args = Append(@, arg)]

\* An argument that is shown as it is joins those before it.
LEMMA ArgJoins ==
  ASSUME NEW d, NEW f, NEW depth, FrameIs(d, f, depth), NEW arg,
         Len(f.args) + 1 <= Len(CallDecoding!Definitions[f.fn]),
         ArgShown(d, f, depth, Len(f.args) + 1, arg),
         NEW g, g = WithArg(f, arg)
  PROVE  FrameIs(d, g, depth) /\ g.start = f.start /\ g.end = f.end
<1> DEFINE a == f.args
           n == Len(a)
           b == Append(a, arg)
<1>1. /\ Ranged(d, f) /\ f = [fn |-> f.fn, start |-> f.start, end |-> f.end, args |-> a]
      /\ OfLength(a, n) /\ \A j \in 1 .. n : ArgShown(d, f, depth, j, a[j])
  BY DEF FrameIs
<1>2. /\ OfLength(b, n + 1) /\ Len(b) = n + 1 /\ b[n + 1] = arg /\ \A j \in 1 .. n : b[j] = a[j]
  <2>1. OfLength(a, n)
    BY <1>1
  <2>2. Extends(b, a, n, arg)
    BY <2>1, AppendExtends
  <2> QED BY <2>2, Zenon DEF Extends
<1>3. n \in Nat
  BY <1>1 DEF OfLength
<1>4. /\ g.fn = f.fn /\ g.start = f.start /\ g.end = f.end /\ g.args = b
      /\ g = [fn |-> g.fn, start |-> g.start, end |-> g.end, args |-> g.args]
  <2> DEFINE x == f.fn
             y == f.start
             z == f.end
  <2>1. f = [fn |-> x, start |-> y, end |-> z, args |-> a] /\ g = [f EXCEPT !.args = b]
    BY <1>1 DEF WithArg
  <2> HIDE DEF x, y, z, a, b
  <2>2. g = [fn |-> x, start |-> y, end |-> z, args |-> b]
    BY <2>1
  <2>3. g.fn = x /\ g.start = y /\ g.end = z /\ g.args = b
    BY <2>2
  <2> QED BY <2>2, <2>3, Zenon DEF x, y, z, b
<1> HIDE DEF b
<1>5. \A j, given : ArgShown(d, g, depth, j, given) <=> ArgShown(d, f, depth, j, given)
  BY <1>4, Zenon DEF ArgShown
<1>6. Ranged(d, g)
  BY <1>1, <1>4, Zenon DEF Ranged
<1>7. ASSUME NEW j \in 1 .. n + 1 PROVE ArgShown(d, f, depth, j, b[j])
  <2>1. CASE j = n + 1
    BY <1>2, <2>1
  <2>2. CASE j # n + 1
    <3>1. j \in 1 .. n
      BY <1>3, <2>2
    <3> QED BY <1>1, <1>2, <3>1
  <2> QED BY <2>1, <2>2
<1>8. \A j \in 1 .. Len(g.args) : ArgShown(d, g, depth, j, g.args[j])
  BY <1>2, <1>4, <1>5, <1>7
<1>9. OfLength(g.args, Len(g.args)) /\ Len(g.args) <= Len(CallDecoding!Definitions[g.fn])
  BY <1>2, <1>4
<1> QED BY <1>4, <1>6, <1>8, <1>9, Zenon DEF FrameIs

\* It only changes the last of the calls, whose callers stay.
LEMMA ArgAdded ==
  ASSUME NEW d, NEW s, NEW n \in Nat \ {0}, FramesAre(d, s, n), NEW arg,
         Len(s[n].args) + 1 <= Len(CallDecoding!Definitions[s[n].fn]),
         ArgShown(d, s[n], n, Len(s[n].args) + 1, arg),
         NEW t, t = CallDecoding!AddArg(s, arg)
  PROVE  FramesAre(d, t, n)
<1> DEFINE g == WithArg(s[n], arg)
<1>1. /\ OfLength(s, n) /\ (\A k \in 1 .. n : FrameIs(d, s[k], k))
      /\ \A k \in 1 .. n : k + 1 \in 1 .. n => Called(d, s[k], s[k + 1])
      /\ s[1].start = 1 /\ s[1].end = Len(d)
  BY DEF FramesAre
<1>2. Len(s) = n /\ DOMAIN s = 1 .. n
  BY <1>1, LengthOf
<1>3. t = [s EXCEPT ![n] = g]
  BY <1>2 DEF CallDecoding!AddArg, WithArg
<1>4. FrameIs(d, g, n) /\ g.start = s[n].start /\ g.end = s[n].end
  <2>1. n \in 1 .. n
    OBVIOUS
  <2> DEFINE f == s[n]
  <2>2. FrameIs(d, f, n)
    BY <1>1, <2>1
  <2> HIDE DEF f
  <2>3. /\ Len(f.args) + 1 <= Len(CallDecoding!Definitions[f.fn])
        /\ ArgShown(d, f, n, Len(f.args) + 1, arg)
    BY DEF f
  <2>5. g = WithArg(f, arg)
    BY DEF f
  <2> HIDE DEF g
  <2>4. FrameIs(d, g, n) /\ g.start = f.start /\ g.end = f.end
    BY <2>2, <2>3, <2>5, ArgJoins
  <2> QED BY <2>4, Zenon DEF f
<1> HIDE DEF g
<1>5. OfLength(t, n) /\ t[n] = g /\ \A k \in 1 .. n : k # n => t[k] = s[k]
  <2>1. s = [k \in 1 .. n |-> s[k]]
    BY <1>1 DEF OfLength
  <2>2. t = [k \in 1 .. n |-> IF k = n THEN g ELSE s[k]]
    BY <1>2, <1>3
  <2> QED BY <2>2 DEF OfLength
<1>6. ASSUME NEW k \in 1 .. n PROVE FrameIs(d, t[k], k)
  <2>1. CASE k = n
    BY <1>4, <1>5, <2>1
  <2>2. CASE k # n
    BY <1>1, <1>5, <2>2
  <2> QED BY <2>1, <2>2
<1>7. ASSUME NEW k \in 1 .. n, k + 1 \in 1 .. n PROVE Called(d, t[k], t[k + 1])
  <2>1. k # n /\ t[k] = s[k] /\ Called(d, s[k], s[k + 1])
    BY <1>1, <1>5, <1>7
  <2>2. t[k + 1].start = s[k + 1].start /\ t[k + 1].end = s[k + 1].end
    <3>1. CASE k + 1 = n
      BY <1>4, <1>5, <3>1
    <3>2. CASE k + 1 # n
      BY <1>5, <1>7, <3>2
    <3> QED BY <3>1, <3>2
  <2> QED BY <2>1, <2>2, Zenon DEF Called
<1>8. t[1].start = 1 /\ t[1].end = Len(d)
  <2>1. CASE n = 1
    BY <1>1, <1>4, <1>5, <2>1
  <2>2. CASE n # 1
    <3>1. 1 \in 1 .. n
      OBVIOUS
    <3> QED BY <1>1, <1>5, <2>2, <3>1
  <2> QED BY <2>1, <2>2
<1> QED BY <1>5, <1>6, <1>7, <1>8 DEF FramesAre

\* A call that starts is in the last one, or has all data.
LEMMA CallStarts ==
  ASSUME NEW d, NEW s, NEW n \in Nat, FramesAre(d, s, n), NEW g, FrameIs(d, g, n + 1),
         n # 0 => Called(d, s[n], g),
         n = 0 => g.start = 1 /\ g.end = Len(d)
  PROVE  FramesAre(d, Append(s, g), n + 1)
<1> DEFINE t == Append(s, g)
<1>1. OfLength(t, n + 1) /\ t[n + 1] = g /\ \A k \in 1 .. n : t[k] = s[k]
  BY Appended DEF FramesAre
<1> HIDE DEF t
<1>2. ASSUME NEW k \in 1 .. n + 1 PROVE FrameIs(d, t[k], k)
  <2>1. CASE k = n + 1
    BY <1>1, <2>1
  <2>2. CASE k # n + 1
    <3>1. k \in 1 .. n
      BY <2>2
    <3> QED BY <1>1, <3>1 DEF FramesAre
  <2> QED BY <2>1, <2>2
<1>3. ASSUME NEW k \in 1 .. n + 1, k + 1 \in 1 .. n + 1 PROVE Called(d, t[k], t[k + 1])
  <2>1. k \in 1 .. n /\ t[k] = s[k]
    BY <1>1, <1>3
  <2>2. CASE k = n
    BY <1>1, <2>1, <2>2
  <2>3. CASE k # n
    <3>1. k + 1 \in 1 .. n
      BY <2>1, <2>3
    <3> QED BY <1>1, <2>1, <3>1 DEF FramesAre
  <2> QED BY <2>2, <2>3
<1>4. t[1].start = 1 /\ t[1].end = Len(d)
  <2>1. CASE n = 0
    BY <1>1, <2>1
  <2>2. CASE n # 0
    <3>1. 1 \in 1 .. n
      BY <2>2
    <3> QED BY <1>1, <2>2, <3>1 DEF FramesAre
  <2> QED BY <2>1, <2>2
<1> QED BY <1>1, <1>2, <1>3, <1>4 DEF FramesAre, t

\* The callers of the last of n calls.
AllButLast(s, n) == SubSeq(s, 1, n - 1)

\* The calls t are those of s, of which there are n, but the last.
AreCallers(d, t, s, n) ==
  FramesAre(d, t, n - 1) /\ (t = <<>> <=> n = 1) /\ \A k \in 1 .. n - 1 : t[k] = s[k]

\* When a call ends, its callers are left as they were.
LEMMA CallersLeft ==
  ASSUME NEW d, NEW s, NEW n \in Nat \ {0}, FramesAre(d, s, n), NEW t, t = AllButLast(s, n)
  PROVE  AreCallers(d, t, s, n)
<1>1. OfLength(s, n) /\ n - 1 \in Nat
  BY DEF FramesAre
<1>2. OfLength(t, n - 1) /\ \A k \in 1 .. n - 1 : t[k] = s[k]
  <2> DEFINE m == n - 1
             F == {s[k] : k \in 1 .. n}
  <2>1. \A k \in 1 .. m : s[k] \in F
    OBVIOUS
  <2> HIDE DEF F
  <2>2. t = SubSeq(s, 1, m) /\ 1 \in Int /\ m \in Int /\ m \in Nat
    BY <1>1 DEF AllButLast
  <2> HIDE DEF m
  <2>3. t \in Seq(F) /\ Len(t) = (IF 1 <= m THEN m - 1 + 1 ELSE 0) /\ \A k \in 1 .. m - 1 + 1 : t[k] = s[1 + k - 1]
    BY <2>1, <2>2, SubSeqProperties
  <2>4. Len(t) = m /\ m - 1 + 1 = m /\ \A k \in 1 .. m : 1 + k - 1 = k
    BY <2>2, <2>3
  <2>5. t \in [1 .. m -> F]
    BY <2>3, <2>4, LenProperties
  <2>6. OfLength(t, m)
    BY <2>2, <2>5 DEF OfLength
  <2> QED BY <2>3, <2>4, <2>6 DEF m
<1>3. t = <<>> <=> n = 1
  <2>1. Len(t) = n - 1
    BY <1>2, LengthOf
  <2>2. t = <<>> => n = 1
    BY <2>1
  <2>3. n = 1 => t = <<>>
    BY DEF AllButLast
  <2> QED BY <2>2, <2>3
<1>4. \A k \in 1 .. n - 1 : k \in 1 .. n
  OBVIOUS
<1>5. FramesAre(d, t, n - 1)
  <2>1. \A k \in 1 .. n - 1 : FrameIs(d, t[k], k)
    BY <1>2, <1>4 DEF FramesAre
  <2>2. \A k \in 1 .. n - 1 : k + 1 \in 1 .. n - 1 => Called(d, t[k], t[k + 1])
    BY <1>2, <1>4 DEF FramesAre
  <2>3. n - 1 # 0 => t[1].start = 1 /\ t[1].end = Len(d)
    <3>1. n - 1 # 0 => 1 \in 1 .. n - 1
      OBVIOUS
    <3> QED BY <1>2, <3>1 DEF FramesAre
  <2> QED BY <1>2, <2>1, <2>2, <2>3 DEF FramesAre
<1> QED BY <1>2, <1>3, <1>5, Zenon DEF AreCallers

\* The data is kept as numbers; while it is decoded, the calls that have started
\* are in one another, and have the arguments that were read.
DataInv ==
  /\ callData \in Seq(Nat)
  /\ decodeStatus \in {"start", "decoding", "done"}
  /\ \E n \in Nat : FramesAre(callData, stack, n) /\ (decodeStatus = "decoding" <=> n # 0)
  /\ decodeStatus = "done" /\ function = <<>> =>
       \A c \in WellKnown : ~Prefixed(callData, 0, Len(callData), c)

\* A frame that starts has a known function, and no arguments yet.
LEMMA FrameStarts ==
  ASSUME callData \in Seq(Nat), NEW from \in Nat, NEW to \in Nat, to <= Len(callData),
         NEW depth, CallDecoding!Known(from, to, depth),
         NEW m, NEW g, g = CallDecoding!Frame(from, to)
  PROVE  FrameIs(callData, g, m) /\ g.start = from + 1 /\ g.end = to /\ g.args = <<>>
<1>1. /\ g.fn = callData[from + 1] /\ g.start = from + 1 /\ g.end = to /\ g.args = <<>>
      /\ g = [fn |-> g.fn, start |-> g.start, end |-> g.end, args |-> g.args]
  BY DEF CallDecoding!Frame, CallDecoding!SelectorSize
<1>2. to - from >= 1 /\ callData[from + 1] \in {1, 2}
  <2>1. DOMAIN CallDecoding!Definitions = {1, 2}
    BY DEF CallDecoding!Definitions
  <2> QED BY <2>1 DEF CallDecoding!Known, CallDecoding!SelectorSize
<1>3. Ranged(callData, g)
  <2>1. from + 1 \in Nat /\ 1 <= from + 1 /\ from + 1 <= to
    BY <1>2
  <2> QED BY <1>1, <1>2, <2>1, Zenon DEF Ranged
<1>4. OfLength(<<>>, 0) /\ Len(<<>>) = 0 /\ \A j \in 1 .. 0 : FALSE
  BY DEF OfLength
<1>5. g.fn \in {1, 2} /\ 0 <= Len(CallDecoding!Definitions[g.fn])
  <2>1. g.fn \in {1, 2}
    BY <1>1, <1>2
  <2>2. Len(CallDecoding!Definitions[g.fn]) \in {2, 3}
    BY <2>1, ParamTypes
  <2> QED BY <2>1, <2>2
<1>6. FrameIs(callData, g, m)
  BY <1>1, <1>3, <1>4, <1>5, Zenon DEF FrameIs
<1> QED BY <1>1, <1>6

\* Data that starts with a well-known call has a known function.
LEMMA KnownIfCall ==
  ASSUME callData \in Seq(Nat), NEW from \in Nat, NEW to \in Nat, to <= Len(callData),
         NEW c \in WellKnown, Prefixed(callData, from, to, c), NEW depth, depth < MaxDepth
  PROVE  CallDecoding!Known(from, to, depth)
<1> DEFINE e == CallDecoding!Encode(c.args)
<1>1. callData[from + 1] = c.fn /\ from + 1 + Len(e) <= to
  BY PrefixedHas
<1>2. c.fn \in {1, 2}
  BY WellKnownArgs
<1>3. Len(e) \in Nat
  <2>1. e \in Seq(Nat)
    BY CallEncodes
  <2> QED BY <2>1, LenProperties
<1> HIDE DEF e
<1>4. to - from >= 1
  BY <1>1, <1>3
<1>5. DOMAIN CallDecoding!Definitions = {1, 2}
  BY DEF CallDecoding!Definitions
<1> QED BY <1>1, <1>2, <1>4, <1>5 DEF CallDecoding!Known, CallDecoding!SelectorSize

\* A frame's data isn't that of a well-known call.
IsNoCall(d, g) == \A x \in WellKnown : ~Prefixed(d, g.start - 1, g.end, x)

\* The argument that a call is shown as.
Returned(g, decoded) == CallDecoding!Arg([from |-> g.start - 1, to |-> g.end], decoded)

\* The argument of a caller f that waits for it is shown as arg.
Awaits(d, f, depth, arg) ==
  /\ Len(f.args) + 1 <= Len(CallDecoding!Definitions[f.fn])
  /\ ArgShown(d, f, depth, Len(f.args) + 1, arg)

\* What a call returns is shown as the argument that it is.
LEMMA AnswerShown ==
  ASSUME NEW d \in Seq(Nat), NEW f, NEW g, Called(d, f, g), Ranged(d, g), NEW depth, NEW decoded,
         decoded = <<>> => IsNoCall(d, g),
         NEW arg, arg = Returned(g, decoded)
  PROVE  Awaits(d, f, depth, arg)
<1> DEFINE k == Len(f.args) + 1
           from == g.start - 1
           to == g.end
<1>1. /\ k <= Len(CallDecoding!Definitions[f.fn]) /\ CallDecoding!Definitions[f.fn][k] = "call"
      /\ f.start <= from /\ to <= f.end
      /\ \A c \in WellKnown : Prefixed(d, f.start - 1, f.end, c) => SubSeq(d, from + 1, to) = c.args[k].bytes
  BY Zenon DEF Called
<1>2. from \in Nat /\ to \in Nat /\ from <= to /\ to <= Len(d)
  BY DEF Ranged
<1>3. arg.value.from = from /\ arg.value.to = to /\ arg.call = decoded
  BY DEF CallDecoding!Arg, Returned
<1>4. decoded = <<>> => \A x \in WellKnown : ~Prefixed(d, from, to, x)
  BY DEF IsNoCall
<1> HIDE DEF from, to, k
<1>5. ASSUME NEW x \in WellKnown, SubSeq(d, from + 1, to) = CallDecoding!EncodeCall(x) PROVE decoded # <<>>
  <2>1. Prefixed(d, from, to, x)
    BY <1>2, <1>5, PrefixedByItself
  <2> QED BY <1>4, <2>1
<1>6. ASSUME NEW c \in WellKnown, Prefixed(d, f.start - 1, f.end, c)
      PROVE  /\ ValueShown(d, "call", arg.value, c.args[k].bytes)
             /\ \A x \in WellKnown : c.args[k].bytes = CallDecoding!EncodeCall(x) => arg.call # <<>>
  <2>1. SubSeq(d, arg.value.from + 1, arg.value.to) = c.args[k].bytes
    BY <1>1, <1>3, <1>6
  <2>2. ValueShown(d, "call", arg.value, c.args[k].bytes)
    BY <2>1 DEF ValueShown
  <2> QED BY <1>3, <1>5, <2>1, <2>2
<1>7. ArgShown(d, f, depth, k, arg)
  BY <1>1, <1>3, <1>6, Zenon DEF ArgShown
<1> QED BY <1>1, <1>7 DEF Awaits, k

\* A call that ends is an argument of its caller, or the result.
LEMMA ReturnsKeeps ==
  ASSUME DataInv, decodeStatus = "decoding", UNCHANGED callData,
         NEW decoded, CallDecoding!Returns(decoded),
         decoded = <<>> => IsNoCall(callData, CallDecoding!Top)
  PROVE  DataInv'
<1>1. PICK n \in Nat : FramesAre(callData, stack, n) /\ n # 0
  BY DEF DataInv
<1>2. callData \in Seq(Nat)
  BY DEF DataInv
<1> DEFINE g == stack[n]
           callers == SubSeq(stack, 1, n - 1)
           arg == Returned(g, decoded)
<1>3. Len(stack) = n /\ CallDecoding!Top = g
  <2>1. Len(stack) = n
    BY <1>1, LengthOf DEF FramesAre
  <2> QED BY <2>1 DEF CallDecoding!Top
<1>4. IF callers = <<>>
      THEN stack' = <<>> /\ decodeStatus' = "done" /\ function' = decoded
      ELSE stack' = CallDecoding!AddArg(callers, arg) /\ UNCHANGED <<decodeStatus, function>>
  BY <1>3, Zenon DEF CallDecoding!Returns, CallDecoding!SelectorSize, Returned
<1>5. decoded = <<>> => IsNoCall(callData, g)
  BY <1>3, Zenon
<1>6. /\ FramesAre(callData, callers, n - 1) /\ (callers = <<>> <=> n = 1)
      /\ \A k \in 1 .. n - 1 : callers[k] = stack[k]
  <2>1. n \in Nat \ {0}
    BY <1>1
  <2>2. FramesAre(callData, stack, n) /\ callers = AllButLast(stack, n)
    BY <1>1 DEF AllButLast
  <2> HIDE DEF callers
  <2>3. AreCallers(callData, callers, stack, n)
    BY <2>1, <2>2, CallersLeft
  <2> QED BY <2>3, Zenon DEF AreCallers
<1>7. FrameIs(callData, g, n) /\ Ranged(callData, g)
  <2>1. n \in 1 .. n
    BY <1>1
  <2> QED BY <1>1, <2>1, Zenon DEF FramesAre, FrameIs
<1> HIDE DEF callers, arg
<1>8. CASE n = 1
  <2>1. stack' = <<>> /\ decodeStatus' = "done" /\ function' = decoded
    BY <1>4, <1>6, <1>8
  <2>2. g.start - 1 = 0 /\ g.end = Len(callData)
    BY <1>1, <1>8 DEF FramesAre
  <2>3. FramesAre(callData, <<>>, 0)
    <3>1. OfLength(<<>>, 0) /\ \A k \in 1 .. 0 : FALSE
      BY DEF OfLength
    <3> QED BY <3>1 DEF FramesAre
  <2>4. \E m \in Nat : FramesAre(callData', stack', m) /\ (decodeStatus' = "decoding" <=> m # 0)
    BY <2>1, <2>3
  <2>5. function' = <<>> => \A c \in WellKnown : ~Prefixed(callData, 0, Len(callData), c)
    BY <1>5, <2>1, <2>2, Zenon DEF IsNoCall
  <2> QED BY <1>2, <2>1, <2>4, <2>5 DEF DataInv
<1>9. CASE n # 1
  <2> DEFINE m == n - 1
             f == callers[m]
  <2>1. m \in Nat \ {0} /\ m \in 1 .. n /\ m + 1 \in 1 .. n /\ m + 1 = n /\ m \in 1 .. n - 1
    BY <1>1, <1>9
  <2>2. Called(callData, f, g)
    BY <1>1, <1>6, <2>1 DEF FramesAre
  <2>3. /\ Len(f.args) + 1 <= Len(CallDecoding!Definitions[f.fn])
        /\ ArgShown(callData, f, m, Len(f.args) + 1, arg)
    <3>1. arg = Returned(g, decoded) /\ Ranged(callData, g)
      BY <1>7 DEF arg
    <3> HIDE DEF f, g
    <3>2. Awaits(callData, f, m, arg)
      BY <1>2, <1>5, <2>2, <3>1, AnswerShown
    <3> QED BY <3>2, Zenon DEF Awaits
  <2>4. stack' = CallDecoding!AddArg(callers, arg) /\ UNCHANGED <<decodeStatus, function>>
    BY <1>4, <1>6, <1>9
  <2>5. FramesAre(callData, stack', m)
    BY <1>6, <2>1, <2>3, <2>4, ArgAdded
  <2>6. \E x \in Nat : FramesAre(callData', stack', x) /\ (decodeStatus' = "decoding" <=> x # 0)
    BY <2>1, <2>4, <2>5
  <2> QED BY <1>2, <2>4, <2>6 DEF DataInv
<1> QED BY <1>8, <1>9

\* Nothing is decoded at first.
LEMMA DataInitially == CallDecoding!Init => DataInv
<1> SUFFICES ASSUME CallDecoding!Init PROVE DataInv
  OBVIOUS
<1>1. PICK c \in WellKnown, b \in Bytes :
        LET d == Append(CallDecoding!EncodeCall(c), b)
        IN \E k, n \in DOMAIN d : callData = SubSeq([d EXCEPT ![k] = b], 1, n)
  BY DEF CallDecoding!Init
<1> DEFINE x == CallDecoding!EncodeCall(c)
           d == Append(x, b)
<1>2. d \in Seq(Nat)
  <2>1. x \in Seq(Nat) /\ b \in Nat
    BY CallEncodes, DataAssumption
  <2> HIDE DEF x
  <2> QED BY <2>1
<1>3. PICK k \in DOMAIN d, n \in DOMAIN d : callData = SubSeq([d EXCEPT ![k] = b], 1, n)
  BY <1>1
<1> HIDE DEF d
<1> DEFINE y == [d EXCEPT ![k] = b]
<1>4. y \in Seq(Nat) /\ n \in Nat /\ 1 <= n /\ n <= Len(y)
  <2>1. Len(d) \in Nat /\ d \in [1 .. Len(d) -> Nat] /\ b \in Nat /\ DOMAIN d = 1 .. Len(d)
    BY <1>2, LenProperties, DataAssumption
  <2>2. y \in [1 .. Len(d) -> Nat]
    BY <2>1
  <2>3. y \in Seq(Nat) /\ Len(y) = Len(d)
    <3> DEFINE m == Len(d)
    <3>1. m \in Nat /\ y \in [1 .. m -> Nat]
      BY <2>1, <2>2
    <3> HIDE DEF m, y
    <3>2. y \in Seq(Nat) /\ Len(y) = m
      BY <3>1
    <3> QED BY <3>2 DEF m
  <2> QED BY <2>1, <2>3
<1>5. callData = SubSeq(y, 1, n)
  BY <1>3
<1> HIDE DEF y
<1>6. callData \in Seq(Nat)
  <2>1. 1 \in Nat /\ 1 <= 1 /\ 1 <= n + 1
    BY <1>4
  <2> QED BY <1>4, <1>5, <2>1, RangeHas
<1>7. stack = <<>> /\ decodeStatus = "start" /\ function = <<>>
  BY DEF CallDecoding!Init
<1>8. FramesAre(callData, <<>>, 0)
  <2>1. OfLength(<<>>, 0) /\ \A j \in 1 .. 0 : FALSE
    BY DEF OfLength
  <2> QED BY <2>1 DEF FramesAre
<1> QED BY <1>6, <1>7, <1>8 DEF DataInv

\* Decoding starts with all data.
LEMMA DecodeKeeps ==
  ASSUME DataInv, CallDecoding!Decode
  PROVE  DataInv'
<1>1. /\ decodeStatus = "start" /\ UNCHANGED <<callData, function>>
      /\ IF CallDecoding!Known(0, Len(callData), 0)
         THEN decodeStatus' = "decoding" /\ stack' = <<CallDecoding!Frame(0, Len(callData))>>
         ELSE decodeStatus' = "done" /\ UNCHANGED stack
  BY Zenon DEF CallDecoding!Decode
<1>2. callData \in Seq(Nat) /\ Len(callData) \in Nat
  BY LenProperties DEF DataInv
<1> DEFINE N == Len(callData)
           g == CallDecoding!Frame(0, N)
<1>3. FramesAre(callData, <<>>, 0)
  <2>1. OfLength(<<>>, 0) /\ \A j \in 1 .. 0 : FALSE
    BY DEF OfLength
  <2> QED BY <2>1 DEF FramesAre
<1>4. CASE CallDecoding!Known(0, N, 0)
  <2>1. FrameIs(callData, g, 0 + 1) /\ g.start = 0 + 1 /\ g.end = N
    <3>1. 0 \in Nat /\ N \in Nat /\ N <= Len(callData)
      BY <1>2
    <3> HIDE DEF g, N
    <3> QED BY <1>2, <1>4, <3>1, FrameStarts DEF g
  <2>2. decodeStatus' = "decoding" /\ stack' = Append(<<>>, g)
    <3>1. \A y : Append(<<>>, y) = <<y>>
      OBVIOUS
    <3> QED BY <1>1, <1>4, <3>1, Zenon
  <2> HIDE DEF g
  <2>3. FramesAre(callData, Append(<<>>, g), 0 + 1)
    <3>1. 0 \in Nat /\ 0 + 1 = 1
      OBVIOUS
    <3> QED BY <1>3, <2>1, <3>1, CallStarts
  <2>4. \E n \in Nat : FramesAre(callData', stack', n) /\ (decodeStatus' = "decoding" <=> n # 0)
    <3>1. 0 + 1 \in Nat /\ 0 + 1 # 0
      OBVIOUS
    <3> QED BY <1>1, <2>2, <2>3, <3>1
  <2> QED BY <1>1, <1>2, <2>2, <2>4 DEF DataInv
<1>5. CASE ~CallDecoding!Known(0, N, 0)
  <2>1. decodeStatus' = "done" /\ UNCHANGED stack
    BY <1>1, <1>5
  <2>2. \E n \in Nat : FramesAre(callData', stack', n) /\ (decodeStatus' = "decoding" <=> n # 0)
    BY <1>1, <2>1 DEF DataInv
  <2>3. \A c \in WellKnown : ~Prefixed(callData, 0, N, c)
    <3>1. 0 \in Nat /\ N \in Nat /\ N <= Len(callData) /\ 0 < MaxDepth
      BY <1>2, CommandsAssumption
    <3> HIDE DEF N
    <3> QED BY <1>2, <1>5, <3>1, KnownIfCall
  <2> QED BY <1>1, <1>2, <2>1, <2>2, <2>3 DEF DataInv
<1> QED BY <1>4, <1>5

\* A call with all its arguments ends.
LEMMA ReturnKeeps ==
  ASSUME DataInv, CallDecoding!Return
  PROVE  DataInv'
<1> DEFINE decoded == <<[fn |-> CallDecoding!Top.fn, args |-> CallDecoding!Top.args]>>
<1>1. decodeStatus = "decoding" /\ CallDecoding!Returns(decoded) /\ UNCHANGED callData
  BY DEF CallDecoding!Return
<1>2. decoded # <<>>
  OBVIOUS
<1> HIDE DEF decoded
<1> QED BY <1>1, <1>2, ReturnsKeeps

\* An argument is read, starts a call in it, or ends its call without a result.
LEMMA ReadArgKeeps ==
  ASSUME DataInv, CallDecoding!ReadArg
  PROVE  DataInv'
<1>1. PICK n \in Nat : FramesAre(callData, stack, n) /\ n # 0
  BY DEF DataInv, CallDecoding!ReadArg
<1> DEFINE f == stack[n]
           m == Len(f.args)
           k == m + 1
           type == CallDecoding!Definitions[f.fn][k]
           a == CallDecoding!Value(f, m, type)
           from == a.value.from
           to == a.value.to
           pushed == type = "call" /\ CallDecoding!Known(from, to, n)
           arg == CallDecoding!Arg(a.value, <<>>)
<1>2. Len(stack) = n /\ CallDecoding!Top = f
  <2>1. Len(stack) = n
    BY <1>1, LengthOf DEF FramesAre
  <2> QED BY <2>1 DEF CallDecoding!Top
<1>3. /\ decodeStatus = "decoding" /\ m < Len(CallDecoding!Definitions[f.fn]) /\ UNCHANGED callData
      /\ \/ a.status = "panic"
         \/ a.status = "error" /\ CallDecoding!Returns(<<>>)
         \/ /\ a.status = "ok" /\ UNCHANGED <<decodeStatus, function>>
            /\ stack' = IF pushed THEN Append(stack, CallDecoding!Frame(from, to))
                        ELSE CallDecoding!AddArg(stack, arg)
  BY <1>2, Zenon DEF CallDecoding!ReadArg, CallDecoding!Params
<1>4. callData \in Seq(Nat)
  BY DEF DataInv
<1>5. FrameIs(callData, f, n) /\ Ranged(callData, f) /\ m \in Nat
  <2>1. n \in 1 .. n
    BY <1>1
  <2>2. FrameIs(callData, f, n)
    BY <1>1, <2>1, Zenon DEF FramesAre
  <2> HIDE DEF f
  <2> QED BY <2>2 DEF FrameIs, OfLength
<1>6. k \in 1 .. Len(CallDecoding!Definitions[f.fn]) /\ k - 1 = m
  <2>1. Len(CallDecoding!Definitions[f.fn]) \in Nat
    <3>1. f.fn \in {1, 2}
      BY <1>5, Zenon DEF Ranged
    <3> HIDE DEF f
    <3> QED BY <3>1, ParamTypes
  <2> HIDE DEF m, f
  <2> QED BY <1>3, <1>5, <2>1
<1>7. /\ ReadAs(f, k, type, a)
      /\ \A c \in WellKnown : Prefixed(callData, f.start - 1, f.end, c) =>
           a.status = "ok" /\ ValueShown(callData, type, a.value, c.args[k].bytes)
  <2>1. type = CallDecoding!Definitions[f.fn][k] /\ a = CallDecoding!Value(f, k - 1, type)
    BY <1>6
  <2> HIDE DEF f, m, type, a
  <2> QED BY <1>4, <1>5, <1>6, <2>1, ValueIsRead
<1> HIDE DEF a, arg, pushed, type, m, f
<1>8. CASE a.status = "error" /\ CallDecoding!Returns(<<>>)
  <2>1. IsNoCall(callData, CallDecoding!Top)
    <3>1. "error" # "ok"
      OBVIOUS
    <3> QED BY <1>2, <1>7, <1>8, <3>1, Zenon DEF IsNoCall
  <2> QED BY <1>3, <1>8, <2>1, ReturnsKeeps
<1>9. CASE a.status = "panic"
  BY <1>7, <1>9 DEF ReadAs
<1>10. ASSUME a.status = "ok", type = "call" \/ type = "bytes"
       PROVE  /\ from \in Nat /\ to \in Nat /\ from <= to /\ to <= Len(callData)
              /\ f.start <= from /\ to <= f.end
  <2>1. RangeOk(f, a)
    BY <1>7, <1>10 DEF ReadAs
  <2>2. f.end \in Nat /\ f.end <= Len(callData)
    BY <1>5, Zenon DEF Ranged
  <2>3. from \in Nat /\ to \in Nat /\ f.start <= from /\ from <= to /\ to <= f.end
    BY <2>1, Zenon DEF RangeOk
  <2>4. Len(callData) \in Nat
    BY <1>4, LenProperties
  <2> DEFINE z == f.end
  <2> HIDE DEF from, to, z
  <2>5. to <= z /\ z <= Len(callData) /\ z \in Nat /\ to \in Nat
    BY <2>2, <2>3 DEF z
  <2>6. to <= Len(callData)
    BY <2>4, <2>5
  <2> QED BY <2>3, <2>6
<1>11. CASE a.status = "ok" /\ pushed /\ stack' = Append(stack, CallDecoding!Frame(from, to)) /\ UNCHANGED decodeStatus
  <2> DEFINE g == CallDecoding!Frame(from, to)
  <2>1. type = "call" /\ CallDecoding!Known(from, to, n)
    BY <1>11 DEF pushed
  <2>2. from \in Nat /\ to \in Nat /\ to <= Len(callData) /\ f.start <= from /\ to <= f.end
    BY <1>10, <1>11, <2>1
  <2>3. FrameIs(callData, g, n + 1) /\ g.start = from + 1 /\ g.end = to
    <3> HIDE DEF g, from, to
    <3> QED BY <1>4, <2>1, <2>2, FrameStarts DEF g
  <2> HIDE DEF g
  <2>4. Called(callData, f, g)
    <3>1. g.start - 1 = from
      BY <2>2, <2>3
    <3>2. ASSUME NEW c \in WellKnown, Prefixed(callData, f.start - 1, f.end, c)
          PROVE  SubSeq(callData, from + 1, to) = c.args[k].bytes
      <4>1. ValueShown(callData, type, a.value, c.args[k].bytes)
        BY <1>7, <3>2
      <4> QED BY <2>1, <4>1 DEF ValueShown
    <3>3. k <= Len(CallDecoding!Definitions[f.fn]) /\ CallDecoding!Definitions[f.fn][k] = "call" /\ k = Len(f.args) + 1
      BY <1>3, <1>5, <1>6, <2>1 DEF type, m
    <3> HIDE DEF k, from, to
    <3> QED BY <2>2, <2>3, <3>1, <3>2, <3>3, Zenon DEF Called
  <2>5. FramesAre(callData, Append(stack, g), n + 1)
    <3>1. n # 0 => Called(callData, stack[n], g)
      BY <2>4 DEF f
    <3> QED BY <1>1, <2>3, <3>1, CallStarts
  <2>6. \E j \in Nat : FramesAre(callData', stack', j) /\ (decodeStatus' = "decoding" <=> j # 0)
    <3>1. n + 1 \in Nat /\ n + 1 # 0
      OBVIOUS
    <3> QED BY <1>3, <1>11, <2>5, <3>1 DEF g
  <2> QED BY <1>3, <1>4, <1>11, <2>6 DEF DataInv
<1>12. CASE a.status = "ok" /\ ~pushed /\ stack' = CallDecoding!AddArg(stack, arg) /\ UNCHANGED decodeStatus
  <2>1. arg.value = a.value /\ arg.call = <<>>
    BY DEF arg, CallDecoding!Arg
  <2>2. type \in {"call", "bytes"} => f.start <= arg.value.from /\ arg.value.to <= f.end
    BY <1>10, <1>12, <2>1
  <2>3. ASSUME NEW c \in WellKnown, Prefixed(callData, f.start - 1, f.end, c)
        PROVE  /\ ValueShown(callData, type, arg.value, c.args[k].bytes)
               /\ type = "call" /\ n < MaxDepth =>
                    \A x \in WellKnown : c.args[k].bytes = CallDecoding!EncodeCall(x) => arg.call # <<>>
    <3>1. ValueShown(callData, type, a.value, c.args[k].bytes)
      BY <1>7, <2>3
    <3>2. ASSUME type = "call", n < MaxDepth, NEW x \in WellKnown, c.args[k].bytes = CallDecoding!EncodeCall(x)
          PROVE  FALSE
      <4>1. SubSeq(callData, from + 1, to) = CallDecoding!EncodeCall(x)
        BY <3>1, <3>2 DEF ValueShown
      <4>2. from \in Nat /\ to \in Nat /\ from <= to /\ to <= Len(callData)
        BY <1>10, <1>12, <3>2
      <4> HIDE DEF from, to
      <4>3. Prefixed(callData, from, to, x)
        BY <1>4, <4>1, <4>2, PrefixedByItself
      <4>4. CallDecoding!Known(from, to, n)
        BY <1>4, <3>2, <4>2, <4>3, KnownIfCall
      <4> QED BY <1>12, <3>2, <4>4 DEF pushed
    <3> QED BY <2>1, <3>1, <3>2
  <2>4. /\ Len(f.args) + 1 <= Len(CallDecoding!Definitions[f.fn])
        /\ ArgShown(callData, f, n, Len(f.args) + 1, arg)
    <3>1. k <= Len(CallDecoding!Definitions[f.fn]) /\ k = Len(f.args) + 1
      BY <1>3, <1>5, <1>6 DEF m
    <3>2. ArgShown(callData, f, n, k, arg)
      <4> HIDE DEF k
      <4> QED BY <2>2, <2>3, Zenon DEF ArgShown, type
    <3> QED BY <3>1, <3>2, Zenon
  <2>5. FramesAre(callData, stack', n)
    <3>1. n \in Nat \ {0}
      BY <1>1
    <3>2. /\ Len(stack[n].args) + 1 <= Len(CallDecoding!Definitions[stack[n].fn])
          /\ ArgShown(callData, stack[n], n, Len(stack[n].args) + 1, arg)
      BY <2>4 DEF f
    <3> QED BY <1>1, <1>12, <3>1, <3>2, ArgAdded
  <2>6. \E j \in Nat : FramesAre(callData', stack', j) /\ (decodeStatus' = "decoding" <=> j # 0)
    BY <1>1, <1>3, <1>12, <2>5
  <2> QED BY <1>3, <1>4, <1>12, <2>6 DEF DataInv
<1> QED BY <1>3, <1>8, <1>9, <1>11, <1>12

\* Every step of the decoding keeps its invariant.
LEMMA DataKept ==
  ASSUME DataInv, CallDecoding!Next \/ UNCHANGED dataVars
  PROVE  DataInv'
<1>1. CASE UNCHANGED dataVars
  <2>1. UNCHANGED <<callData, stack, decodeStatus, function>>
    BY <1>1 DEF dataVars
  <2> QED BY <2>1 DEF DataInv
<1> QED BY <1>1, DecodeKeeps, ReadArgKeeps, ReturnKeeps DEF CallDecoding!Next

\* A frame with all its arguments shows the call that it starts with.
LEMMA CallShown ==
  ASSUME NEW f, NEW depth, FrameIs(callData, f, depth), NEW c \in WellKnown,
         Prefixed(callData, f.start - 1, f.end, c)
  PROVE  CallDecoding!Shows(f, c, depth)
<1> DEFINE n == Len(f.args)
<1>1. /\ Ranged(callData, f) /\ OfLength(f.args, n) /\ n <= Len(CallDecoding!Definitions[f.fn])
      /\ \A j \in 1 .. n : ArgShown(callData, f, depth, j, f.args[j])
  BY DEF FrameIs
<1>2. DOMAIN f.args = 1 .. n /\ n \in Nat /\ f.fn \in {1, 2}
  <2>1. f.fn \in {1, 2} /\ OfLength(f.args, n)
    BY <1>1, Zenon DEF Ranged
  <2> QED BY <2>1, LengthOf
<1> HIDE DEF n
<1> SUFFICES ASSUME NEW j \in 1 .. n
             PROVE  LET type  == CallDecoding!Definitions[f.fn][j]
                        given == f.args[j]
                        bytes == c.args[j].bytes
                    IN CASE type = "address" -> given.value[1] = bytes[2]
                         [] type = "uint256" -> given.value = bytes
                         [] type = "uint8"   -> given.value = bytes[2]
                         [] OTHER -> /\ SubSeq(callData, given.value.from + 1, given.value.to) = bytes
                                     /\ type = "call" /\ depth < MaxDepth =>
                                          \A d \in WellKnown : bytes = CallDecoding!EncodeCall(d) => given.call # <<>>
  BY <1>2, Zenon DEF CallDecoding!Shows
<1> DEFINE type  == CallDecoding!Definitions[f.fn][j]
           given == f.args[j]
           bytes == c.args[j].bytes
<1>3. /\ ValueShown(callData, type, given.value, bytes)
      /\ type = "call" /\ depth < MaxDepth =>
           \A x \in WellKnown : bytes = CallDecoding!EncodeCall(x) => given.call # <<>>
  BY <1>1, Zenon DEF ArgShown
<1>4. type \in {"address", "uint256", "call", "uint8", "bytes"}
  <2>1. j \in 1 .. Len(CallDecoding!Definitions[f.fn])
    <3>1. Len(CallDecoding!Definitions[f.fn]) \in {2, 3}
      BY <1>2, ParamTypes
    <3> QED BY <1>1, <1>2, <3>1
  <2> QED BY <1>2, <2>1, ParamTypes
<1> HIDE DEF type, given, bytes
<1>5. CASE type = "address"
  BY <1>3, <1>5 DEF ValueShown, type, given, bytes
<1>6. CASE type = "uint256"
  BY <1>3, <1>6 DEF ValueShown, type, given, bytes
<1>7. CASE type = "uint8"
  BY <1>3, <1>7 DEF ValueShown, type, given, bytes
<1>8. CASE type \in {"call", "bytes"}
  <2>1. type # "address" /\ type # "uint256" /\ type # "uint8"
    BY <1>8
  <2>2. SubSeq(callData, given.value.from + 1, given.value.to) = bytes
    BY <1>3, <1>8 DEF ValueShown
  <2> QED BY <1>3, <2>1, <2>2, Zenon DEF type, given, bytes
<1> QED BY <1>4, <1>5, <1>6, <1>7, <1>8

\* So what is shown is what was encoded.
LEMMA FramesShow ==
  ASSUME DataInv
  PROVE  CallDecoding!DecodesCalls
<1>1. PICK n \in Nat : FramesAre(callData, stack, n)
  BY DEF DataInv
<1>2. DOMAIN stack = 1 .. n /\ \A k \in 1 .. n : FrameIs(callData, stack[k], k)
  BY <1>1, LengthOf DEF FramesAre
<1>3. \A from, to, c : CallDecoding!StartsWith(from, to, c) <=> Prefixed(callData, from, to, c)
  BY Zenon DEF CallDecoding!StartsWith, Prefixed
<1>4. ASSUME NEW k \in DOMAIN stack
      PROVE  LET f == stack[k]
                 read == Len(f.args) = Len(CallDecoding!Definitions[f.fn])
             IN /\ \A j \in DOMAIN f.args : CallDecoding!Definitions[f.fn][j] \in {"call", "bytes"} =>
                     f.start <= f.args[j].value.from /\ f.args[j].value.to <= f.end
                /\ read => \A c \in WellKnown :
                     CallDecoding!StartsWith(f.start - CallDecoding!SelectorSize, f.end, c)
                       => CallDecoding!Shows(f, c, k)
  <2> DEFINE f == stack[k]
  <2>1. FrameIs(callData, f, k)
    BY <1>2
  <2> HIDE DEF f
  <2>2. DOMAIN f.args = 1 .. Len(f.args)
    BY <2>1, LengthOf DEF FrameIs
  <2>3. ASSUME NEW j \in DOMAIN f.args, CallDecoding!Definitions[f.fn][j] \in {"call", "bytes"}
        PROVE  f.start <= f.args[j].value.from /\ f.args[j].value.to <= f.end
    BY <2>1, <2>2, <2>3, Zenon DEF FrameIs, ArgShown
  <2>4. ASSUME NEW c \in WellKnown, CallDecoding!StartsWith(f.start - 1, f.end, c)
        PROVE  CallDecoding!Shows(f, c, k)
    BY <1>3, <2>1, <2>4, CallShown
  <2> QED BY <2>3, <2>4, Zenon DEF f, CallDecoding!SelectorSize
<1>5. decodeStatus # "panic"
  BY DEF DataInv
<1>6. decodeStatus = "done" /\ function = <<>> =>
        \A c \in WellKnown : ~CallDecoding!StartsWith(0, Len(callData), c)
  BY <1>3, Zenon DEF DataInv
<1> QED BY <1>4, <1>5, <1>6, Zenon DEF CallDecoding!DecodesCalls

\* Decoding never panics, stays in the call that it decodes, and shows well-known
\* calls with the arguments they were encoded with, for any data, set of calls and
\* depth (functions.Decode, solabi.Decoder, solabi.Encode).
THEOREM CallsAreDecoded == Spec => []DecodesCalls
<1> DEFINE IInv == command = "call data" => DataInv
<1>1. Init => IInv
  BY DataInitially DEF Init
<1>2. IInv /\ [Next]_vars => IInv'
  BY DataKept, OneCommand
<1>3. IInv => DecodesCalls
  BY FramesShow DEF DecodesCalls
<1> QED BY <1>1, <1>2, <1>3, PTL DEF Spec
=============================================================================
