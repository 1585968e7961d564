----------------------------- MODULE MCCommands -----------------------------
(* Commands for TLC: what each command may find, in the order of Commands.   *)
EXTENDS Commands

\* info: blocks with up to two proposals, of Safes on the proposals' own chain,
\* Mainnet, and others, whose logs may be anything, and chains that grow.

AllOracles == {[proposer |-> "consensus", decimals |-> 18], [proposer |-> "consensus", decimals |-> 256],
               [proposer |-> "other", decimals |-> 18]}

SafeTx(c) == [chain |-> c]

Fits(c) == [tx |-> SafeTx(c), hash |-> <<SafeTx(c)>>, epoch |-> 1,
            valid |-> TRUE, removed |-> FALSE, topics |-> 4]

Others(c) ==
  {[Fits(c) EXCEPT !.epoch = 2], [Fits(c) EXCEPT !.valid = FALSE], [Fits(c) EXCEPT !.removed = TRUE],
   [Fits(c) EXCEPT !.topics = 3], [Fits(c) EXCEPT !.hash = <<SafeTx("none")>>],
   [Fits(c) EXCEPT !.tx = SafeTx("none")]}

AllProposalLogs ==
  {<<Fits(c)>> : c \in SafeChains} \cup {<<l, Fits("gnosis")>> : l \in Others("gnosis") \cup {Fits("mainnet")}}
  \cup {<<l>> : l \in Others("mainnet")}

-----------------------------------------------------------------------------
\* safe: every storage of a list of three addresses, of which two fit. Where one
\* list may be malformed, the other starts with an address, or doesn't.

Keys == Entries \cup {"sentinel"}

Lists == [Keys -> Keys \cup {"zero"}]

Short == {[k \in Keys |-> IF k = "sentinel" THEN first ELSE last] :
            first \in {"a", "sentinel", "zero"}, last \in {"a", "sentinel"}}

AllStorages == [owners : Lists, modules : Short] \cup [owners : Short, modules : Lists]

-----------------------------------------------------------------------------
\* transfers: chains of two logs, which are transfers of tokens to and from the
\* Safe, received currency, ERC-721 transfers, events with the wrong data, and
\* those of other contracts, in any order around the range that is scanned.

LogShapes ==
  {[address |-> "token", topics |-> <<"Transfer", a, b>>, words |-> 1, removed |-> r] :
     a, b \in {"safe", "other"}, r \in BOOLEAN} \cup
  {[address |-> a, topics |-> <<"SafeReceived", f>>, words |-> w, removed |-> FALSE] :
     a \in {"safe", "token"}, f \in {"safe", "other"}, w \in {1, 2}} \cup
  {[address |-> "nft", topics |-> <<"Transfer", "other", "safe", "id">>, words |-> w, removed |-> FALSE] : w \in {0, 1}}

At(place, s) == [block |-> place[1], index |-> place[2]] @@ s

Places == {<<0, 0>>, <<1, 0>>, <<1, 1>>, <<2, 0>>, <<3, 0>>}

AllScanChains ==
  UNION {{{At(p, s), At(q, t)} : s, t \in LogShapes} :
           <<p, q>> \in {<<p, q>> \in Places \X Places : p[1] < q[1] \/ (p[1] = q[1] /\ p[2] < q[2])}}

AllScanRequests == {[block |-> 2, chain |-> TRUE], [block |-> 0, chain |-> TRUE], [block |-> 2, chain |-> FALSE]}

AllFlags ==
  [in : {TRUE}, from : {"", "other"}, to : {""}, blocks : {0, 1, 2, 7}] \cup
  [in : {FALSE}, from : {""}, to : {"", "other"}, blocks : {2}] \cup
  [in : BOOLEAN, from : {"other"}, to : {"other"}, blocks : {2}]

-----------------------------------------------------------------------------
\* classify: requests of two Safes on covered and other networks, whose
\* transactions are every leaf call, batches of up to two, and nested batches.

Plain(to, data)   == [to |-> to, op |-> "call", value |-> 0, data |-> data]
Arg(fn, len, arg) == [NoData EXCEPT !.fn = fn, !.len = len, !.arg = arg]

Packed(c, cut, huge) == [to |-> c.to, op |-> c.op, value |-> c.value, data |-> c.data,
                         cut |-> cut, huge |-> huge]

Whole(cs) == {Packed(c, "no", FALSE) : c \in cs}

Batch(ms, op, list) ==
  [to |-> ms, op |-> op, value |-> 0, data |-> [Data("multiSend") EXCEPT !.txs = list]]

Leaves ==
  {Plain(to, NoData) : to \in {"safe", "zero", "other", "multiSend"}} \cup
  {Plain("safe", Data(fn)) : fn \in {"changeThreshold", "disableModule", "setModuleGuard"}} \cup
  {Plain("safe", Arg("setFallbackHandler", "exact", arg)) : arg \in {"zero", "other"}} \cup
  {Plain("safe", Arg("swapOwner", len, "other")) : len \in {"short", "long"}} \cup
  {Plain("safe", Arg("addOwnerWithThreshold", "exact", "sentinel")),
   [Plain("safe", [Data("disableModule") EXCEPT !.dirty = TRUE]) EXCEPT !.value = 1],
   [Plain("safe", Data("enableModule")) EXCEPT !.op = "delegatecall"],
   [Plain("other", Data("other")) EXCEPT !.op = "invalid"]}

Odd == {Packed(c, cut, huge) : c \in {Plain("safe", Arg("swapOwner", "short", "zero")),
                                       Plain("safe", Arg("addOwnerWithThreshold", "short", "other")),
                                       [Plain("safe", Data("setGuard")) EXCEPT !.value = 1]},
                               cut \in {"data", "head", "tail"}, huge \in BOOLEAN}

Pairs == {<<>>} \cup {<<a>> : a \in Whole(Leaves) \cup Odd}
         \cup {<<a, b>> : a \in Whole(Leaves), b \in Whole(Leaves) \cup Odd}

Batches1 == {Batch(ms, "delegatecall", l) : ms \in {"multiSend", "multiSend15", "callOnly"}, l \in Pairs}
            \cup {Batch("callOnly", "call", <<>>)}

Undecodable == [Batch("multiSend", "delegatecall", <<>>) EXCEPT !.data.decodes = FALSE]

Inner ==
  {Batch(ms, op, l) : ms \in {"multiSend", "callOnly15"}, op \in {"call", "delegatecall"},
     l \in {<<>>} \cup {<<a>> : a \in Whole({Plain("zero", NoData), Plain("safe", Data("setGuard")),
                                             Plain("safe", Arg("setFallbackHandler", "exact", "zero"))})}}
  \cup {Undecodable}

Batches2 ==
  {Batch(ms, "delegatecall", l) : ms \in {"multiSend15", "callOnly"},
     l \in {<<a>> : a \in Whole(Inner)} \cup {<<a, b>> : a \in Whole(Inner), b \in Whole({Plain("safe", NoData)})}
           \cup {<<Packed(Batch("multiSend", "delegatecall", <<a>>), "no", FALSE)>> : a \in Whole(Inner)}}

Roots == Leaves \cup Batches1 \cup Batches2 \cup {Undecodable}

Tx(c, safe, on, gasPrice, gasToken) ==
  [safe |-> safe, chain |-> on, to |-> c.to, value |-> c.value, data |-> c.data, op |-> c.op,
   safeTxGas |-> 1, baseGas |-> 2, gasPrice |-> gasPrice, gasToken |-> gasToken, refundReceiver |-> "safe"]

Request(t, b, missing) == [tx |-> t, block |-> b, missing |-> missing]

Few == {Plain("safe", NoData), Plain("safe", Data("setModuleGuard")), Plain("safe", Data("disableModule"))}

AllRequests == UNION {
  {Request(Tx(c, "safe", "gnosis", 0, "zero"), 1, FALSE) : c \in Roots},
  {Request(Tx(c, "safe", on, gasPrice, "zero"), b, FALSE) :
     c \in Few, on \in {"mainnet", "gnosis", "other"}, gasPrice \in {0, 1}, b \in 0..2},
  {Request(Tx(Plain("zero", NoData), "other", "gnosis", 0, "zero"), 1, missing) : missing \in BOOLEAN}}

\* The Safe is set up at block 1, and upgraded at block 2. Its code on Ethereum
\* Mainnet is the proxy of Gnosis Chain.
AllAccounts ==
  [key \in {"safe", "other"} \X {"mainnet", "gnosis", "other"} \X (1..2) |->
    CASE key[1] = "other"   -> [code |-> "other", singleton |-> "1.4.1"]
      [] key[2] = "mainnet" -> [code |-> "proxy1.1.1 gnosis", singleton |-> "1.4.1"]
      [] OTHER -> [code |-> "proxy1.4.1", singleton |-> IF key[3] = 1 THEN "1.4.1" ELSE "1.5.0+L2"]]

-----------------------------------------------------------------------------
\* calls: a Safe's own calls, batches that repeat an account, revert, or make no
\* calls, with and without a refund, and requests of another Safe.

Own == {Plain(to, NoData) : to \in {"safe", "other", "multiSend"}}

Reported ==
  Own \cup {[Plain("multiSend", NoData) EXCEPT !.value = 1], Plain("multiSend", Data("other"))}
  \cup {Batch("multiSend", "delegatecall", l) : l \in {<<>>} \cup {<<a, b>> : a, b \in Whole(Own)}}
  \cup {Batch("callOnly", "delegatecall", <<Packed(Plain("other", NoData), "tail", FALSE)>>)}

AllTxs ==
  {[missing |-> FALSE] @@ Tx(c, "safe", "gnosis", gasPrice, "token") : c \in Reported, gasPrice \in {0, 1}} \cup
  {[missing |-> m] @@ Tx(Plain("other", NoData), "other", "gnosis", 0, "token") : m \in BOOLEAN} \cup
  {[missing |-> TRUE] @@ Tx(Plain("other", NoData), "safe", "gnosis", 0, "token")}

\* All calls of classify and calls, with those of their batches.
Call0 == {OwnCall(r.tx) : r \in AllRequests} \cup {OwnCall(t) : t \in AllTxs}

BatchedIn(cs) ==
  UNION {{Batched(safe, MultiSends[c.to], Transactions(c.data)[j]) :
            safe \in {"safe", "other"}, j \in DOMAIN Transactions(c.data)}
         : c \in {d \in cs : IsMultiSend(d.to)}}

Call1 == BatchedIn(Call0)
Call2 == BatchedIn(Call1)

Call3 == BatchedIn(Call2)

AllCalls == UNION {Call0, Call1, Call2, Call3}

\* A batch in a batch in a batch isn't one.
AllNestings ==
  LET nesting[c \in AllCalls] ==
        IF BatchedIn({c}) = {} THEN 0
        ELSE 1 + CHOOSE n \in 0..2 : /\ \A b \in BatchedIn({c}) : nesting[b] <= n
                                     /\ \E b \in BatchedIn({c}) : nesting[b] = n
  IN nesting

-----------------------------------------------------------------------------
\* executions: onchain transactions that execute a Safe transaction, directly or
\* through a relayer, or several: one after the other, one that reverts, one that
\* executes another before it ends, and logs that aren't of an execution.

Frame(f, reverted) == [fields |-> f, reverted |-> reverted]

Shape(direct, frames, ends, fakes) == [direct |-> direct, frames |-> frames, ends |-> ends, fakes |-> fakes]

AllShapes ==
  {Shape(<<>>, <<Frame(f, FALSE)>>, <<1>>, <<>>) : f \in Fields}
  \cup {Shape(<<f>>, <<Frame(f, FALSE)>>, <<1>>, <<>>) : f \in Fields}
  \cup {Shape(<<>>, <<Frame(f, r), Frame(g, FALSE)>>, IF r THEN <<1>> ELSE <<1, 2>>, <<>>) :
          f, g \in Fields, r \in BOOLEAN}
  \cup {Shape(<<f>>, <<Frame(f, FALSE), Frame(g, FALSE)>>, <<2, 1>>, <<>>) : f, g \in Fields}
  \cup {Shape(<<f>>, <<Frame(f, FALSE)>>, <<1>>, <<<<f, n>>>>) : f \in Fields, n \in 0..1}

-----------------------------------------------------------------------------
\* charter: the name and another, which have a resolver or none, and a version or
\* none with each resolver; and every combination of the command's flags.

Record(r, v, w) == [resolver |-> r, hash |-> [r1 |-> v, r2 |-> w]]

AllRecords ==
  {Record("r1", "v1", "v2"), Record("r2", "v1", "v2"), Record("r1", "v2", "unsupported"),
   Record("r2", "v1", "none"), Record("none", "v1", "v1")}

CharterRequest(n, b) == [name |-> n, block |-> b]

AllUses ==
  [block : {0, 1, 2, 3}, request : {CharterRequest("none", 0)}, verify : {"none", "v1"}] \cup
  [block : {0, 1}, verify : {"none", "v1"},
   request : {CharterRequest(n, b) : n \in {"charter", "previous"}, b \in {0, 2}}
             \cup {CharterRequest(n, 1) : n \in {"", "unknown"}}]

-----------------------------------------------------------------------------
\* contract-source, signatures and events: accounts whose code changes twice, and
\* receipts of that transaction or another, below, at and above the Safe block.

AllQuestions ==
  [command : {"contract-source", "signatures"}, block : {0, 2}, tx : {"none"}] \cup
  [command : {"events"}, block : {0, 2}, tx : {"t1"}]

AllHistories == [1..3 -> {"", "A", "B"}]

Element(type, selector) == [type |-> type, selector |-> selector]

AllABIs ==
  {<<>>, <<Element("function", 1), Element("event", 1), Element("event", 1)>>,
   <<Element("function", 1), Element("function", 2)>>,
   <<Element("function", 1), Element("error", 2), Element("function", 1)>>}

AllLogs == [event : {"Transfer", "ExecutionSuccess", "SafeMultiSigTransaction", "other"},
            topics : 0..4, words : {0, 1, 2, 3, 10, 11, 13}, valid : {TRUE}]
           \cup [event : {"Transfer"}, topics : {3, 4}, words : {0, 1}, valid : {FALSE}]

AllReceipts ==
  [tx : {"t1", "t2"}, block : 1..3, success : BOOLEAN,
   logs : {<<>>} \cup {<<l>> : l \in AllLogs}
          \cup {<<l, m>> : l, m \in {n \in AllLogs : n.event = "Transfer" /\ n.topics > 2 /\ n.words < 2}}]

-----------------------------------------------------------------------------
\* call data: transfers, with dirty upper bytes and without, and executions of
\* nothing, of data that isn't a well-known call, of a transfer, and of an
\* execution of one, with and without signatures.

Static(bytes)  == [dynamic |-> FALSE, bytes |-> bytes]
Dynamic(bytes) == [dynamic |-> TRUE, bytes |-> bytes]

Exec(bytes, op, signatures) ==
  [fn |-> 2, args |-> <<Dynamic(bytes), Static(<<0, op>>), Dynamic(signatures)>>]

TransferData == <<1, 0, 3, 2, 5>>

ExecData == <<2>> \o <<0, 6, 0, 1, 0, 14>> \o <<0, 5>> \o TransferData \o <<0>> \o <<0, 0>>

AllWellKnown ==
  {[fn |-> 1, args |-> <<Static(<<h, 3>>), Static(<<2, 5>>)>>] : h \in {0, 2}}
  \cup {Exec(bytes, op, signatures) :
          bytes \in {<<>>, <<7>>, <<2>>, TransferData}, op \in {0, 1}, signatures \in {<<>>, <<1, 1>>}}
  \cup {Exec(ExecData, 0, <<>>)}

\* TLC evaluates these once, unlike the definitions in the .cfg.
MCOracles      == AllOracles
MCProposalLogs == AllProposalLogs
MCStorages     == AllStorages
MCScanRequests == AllScanRequests
MCFlags        == AllFlags
MCScanChains   == AllScanChains
MCRequests     == AllRequests
MCAccountAt    == AllAccounts
MCTxs          == AllTxs
MCCall         == AllCalls
MCNesting      == AllNestings
MCShapes       == AllShapes
MCRecords      == AllRecords
MCUses         == AllUses
MCQuestions    == AllQuestions
MCHistories    == AllHistories
MCABIs         == AllABIs
MCReceipts     == AllReceipts
MCWellKnown    == AllWellKnown
=============================================================================
