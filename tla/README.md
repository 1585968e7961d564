# Verification of the Safenet arbitration bot

`arbot` reads disputed requests of Safenet's SentinelOracle contract, classifies
them, and keeps a corpus of the arbitrator's rulings. This directory has TLA+
modules of its core, the TLC runs that check them, and proofs that TLAPS checks.

    tlc -workers 2 -config MCScanLogs.cfg MCScanLogs      # a run
    tlapm ScanLogsProofs.tla                              # the proofs of a module

`PROJECT.json` lists the runs, the mutants that show that each property can
fail, the source lines of each definition, the hazards, and the theorems.

## The system

Paths are relative to `src/internal/`.

| Component | State | Operations | Interacts with |
|---|---|---|---|
| Log scans, `ethrpc/logs.go` | the chunk's size and start | `ScanLogs` | a node (`eth_getLogs`), a consumer that may stop |
| Block search, `ethrpc/search.go` | the range, the last two blocks, the probes | `SearchBlock` | a node (`eth_getBlockByNumber`) |
| SentinelOracle reader, `safenet/` | a session's pinned block, the request read so far | `Pending`, `Request`, `Rulings`, `FinalizedBlock` | the two above, on a chain that goes on |
| Corpus and index, `cli/index.go`, `corpus/`, `.github/workflows/index.yml` | a file per ruling, `index.json`, the repository | `arbot index` | `Rulings`, IPFS, the file system, other runs, whoever edits the corpus |
| RPC connections, `ethrpc/dialer.go`, `client.go`, `rpcs.go` | connections per chain, the RPC list | `NewDialer`, `NewClient`, `DefaultRPCs` | concurrent callers, several nodes |
| HTTP retries, `httpretry/` | attempts, backoff | `RoundTrip` | every HTTP server |
| IPFS client, `ipfs/` | the picked gateway, the cache on disk, the gateway list | `Fetch` | gateways in a race, concurrent runs |
| Checks, `checks/` | the Safe versions read so far | `Classify`, `CallReader.Calls` | the Safe's chain, as of the block before the proposal |
| Executions, `executions/` | what was read from the node so far | `Find` | scans, traces, a service |
| Safe settings, `safesettings/` | none | `Read` | storage of the Safe |
| Sourcify, events, functions, signatures, ABI, `sourcify/`, `events/`, `functions/`, `signatures/`, `solabi/` | none | lookups and codecs | Sourcify |
| Transfers, native and ERC-20 balances, `erc20/`, `native/`, `cli/transfers.go` | none | scans and sums | a node |
| ENS and the Charter, `ens/`, `cli/charter.go` | none | resolve a name as of a block | a node, IPFS |
| Commands and configuration, `cli/`, `config/`, `xdg/`, `cmd/arbot` | none | parse flags, print | all of the above |
| Arbitration skill, `skills/arbitrate`, `agents/` | a case directory | instructions to language models | `arbot` |
| Tools and tests, `cmd/`, `e2e/` | | fetch artifacts, lint, drive a test chain | |

What makes them correct, and hard:

- A scan must deliver each matching log once and in order, although the node only
  tells its range limit by failing, with errors that are like any other
  error's. The chunk boundaries are where logs get lost or doubled.
- A block search must be exact for any distribution of block times, and not
  degenerate on one.
- A query reads the chain with many calls while the chain moves on and may be
  reorganized. What it returns must be one block's state, and the checks of the
  logs against the contract's record must never refuse what is consistent.
- The index must never be ahead of the files, wherever a run dies, and no ruling
  may be skipped.
- Connections, the gateway race, and the cache are shared by concurrent callers.
- A request is judged as of the block before its proposal, by commands that each
  read it with several calls, long after: sources, settings, transfers, the
  Charter, and events must be those of that block, though everything has changed.
- Storage, logs, calldata, receipts, and services have whatever anyone puts there:
  lists that loop, logs of other shapes, lengths that wrap, transactions that
  aren't the ones asked for. None may pass for another.
- Requests are retried, and must then neither leak nor be sent in part.

## The modules

| Module | Models | |
|---|---|---|
| `LogStream` | what a scan promises | the abstract specification of `ScanLogs` |
| `ScanLogs` | `ethrpc/logs.go` | implements `LogStream`, proved in `ScanLogsProofs` |
| `SearchBlock` | `ethrpc/search.go` | proved correct in `SearchBlockProofs` |
| `SentinelOracle` | the contract and the chain (external) | |
| `Safenet` | `safenet/safenet.go`: `Pending`, `Rulings`, and the votes and arbitration of `Request` | extends `SentinelOracle`; proved in `SafenetProofs` |
| `Proposals` | `safenet/safenet.go`: the proposal of a request, and its blocks; `safenet/hash.go` | the command `info`; proved in `CommandsProofs` |
| `CorpusIndex` | `cli/index.go`, `corpus/corpus.go`, the workflow | proved in `CorpusIndexProofs` |
| `IpfsClient` | `ipfs/client.go`, `ipfs/gateways.go` | proved in `IpfsClientProofs` |
| `Orders` | finite sets in order, parts of sequences | functions; proved in `OrdersProofs` |
| `RpcConnections` | `ethrpc/dialer.go`, `rpcs.go`, and `NewClient` | proved in `NetworkProofs` |
| `RetryTransport` | `httpretry/httpretry.go` | proved in `NetworkProofs` |
| `Network` | both of these | composes them |
| `SafeCalls` | `checks/multisend.go`, `transaction.go`: the calls that a transaction makes | functions, for the next two; their lemmas in `CommandsProofs` |
| `Checks` | the rest of `checks/` | the command `classify`; proved in `CommandsProofs` |
| `CallReader` | `checks/calls.go` | the command `calls`; proved in `CommandsProofs` |
| `CallData` | `functions/functions.go`, `solabi/solabi.go` | how `calls` decodes data; proved in `CommandsProofs` |
| `Executions` | `executions/` | the command `executions`; proved in `CommandsProofs` |
| `SafeSettings` | `safesettings/` | the command `safe`; proved in `CommandsProofs` |
| `Transfers` | `erc20/`, `native/`, `cli/transfers.go`, `cli/scan.go` | the command `transfers`; proved in `CommandsProofs` |
| `Charter` | `cli/charter.go`, `ens/` | the command `charter`; proved in `CommandsProofs` |
| `Evidence` | `cli/` and libraries for `contract-source`, `signatures`, `events` | three commands; proved in `CommandsProofs` |
| `Commands` | `cli/cli.go` | composes the commands above |

The `MC*` modules give the constants values for TLC. A definition that is named
as a mutant in its comment is never used by a specification: it is the bug that
the property named in `PROJECT.json` catches.

How they compose:

- `Safenet` doesn't repeat the chunks' sizes and retries of `ScanLogs`. It takes
  the logs of a range chunk by chunk, with chunks of any size, as `ScanLogs` was
  shown to deliver exactly the logs of the range, whatever its chunks are. In
  `Transfers` and `Executions` a scan is one step, for the same reason, and they
  pin the block that it ends at. `Proposals` takes a search to find what
  `FindsLastBlockBefore` says.
- `CorpusIndex` doesn't repeat the queries of `Safenet`: for final blocks,
  `RulingsOfFinalBlocks` says that the rulings of a block range, and what is read
  of each, are determined by the range.
- `Network` has either callers of the dialer or a request of the transport. They
  share no state, and `RpcConnections` lets every request of a connection fail or
  be answered in any way, so that it needn't know how often it was retried.
- `Commands` dispatches to one command per process, as `Run` does; the variables
  of the others are "off". Commands only share the file that `info` writes and
  the others read. Each reads what is in it as it is, so the modules take any
  request that such a file can hold, also one that is incomplete.

### ScanLogs

The variables are those of the function: `step`, `from`, the chunk's `logs`. The
node has a fixed limit on the range, which the client doesn't know, and at most
`MaxFaults` calls fail although the range is acceptable, with a JSON-RPC error
(`AnswerOtherError`) or without an answer (`CallFails`). A log is its position
on the chain, so that `yielded` tells lost, doubled, and reordered logs apart.
`HandleRPCError` is the halving. `YieldLog` delivers a log, and the consumer may
stop at each.

- `Covered`: what was yielded, and what is about to be, is exactly the logs from
  the filter's first block up to the one before the next chunk.
- `NarrowsForCause`: the chunks only shrink, and a scan only fails, after an
  error that was transient, or on a node whose limit is too low. So without
  transient errors a scan takes no more than about twice the calls it has to.
- `StreamSpec`: the scan implements `LogStream`.
- `Termination`, under weak fairness of the scan: a call that is made returns.

### SearchBlock

A chain is a sequence of timestamps. `FetchLatest` and `FetchGenesis` are the two
refusals, `Probe` is an iteration of the loop: `Guess` picks the block, `Narrow`
moves `lo` or `hi`. The estimate is computed with integers, rounded down, where
the code uses float64. The proofs don't depend on it, only on the clamp that
follows it, so rounding can't affect the result, only the number of probes.

- `FindsLastBlockBefore`, `RefusalsJustified`: the result is the reference
  definition's.
- `AtMostTwiceBisection`: what the comment promises of the number of probes.
- `Termination`, under weak fairness of the calls. A failed call ends it too.

### SentinelOracle and Safenet

The contract isn't in the repository. `SentinelOracle` models it as the reader
and the test chain (`e2e/testnet.go`) rely on it: proposals, commits and reveals
in their windows, the resolution by the last reveal or by anyone, disputes, and
the four ways that one ends. `past` keeps the record of each block, which is
what queries are compared to. `Reorg` replaces the blocks above the finalized
one. The logs are a set, in which each has its block and its index in the block,
as a node returns them in that order (`Chronological`).

In `Safenet`, `Connect` pins the block, and each further action is a call, or a
chunk of a scan, and what the code does with its answer. The chain moves in
between (`Chain`). `ReadRecord` is `getRequest`, `ReadProposal` the search for the
proposal and the start of the vote scan, `ScanVotes` the votes and their check
against the record's counts, and `ScanArbitration` the end. `Rulings` runs these
for each request in turn. Every check that the code makes of the logs against
the record is there, and ends in "inconsistent".

- `RequestAsOfBlock`: the request is what the record and its history were as of
  the pinned block, although it is read later, and piece by piece.
- `NeverInconsistent`: none of the checks fails on an honest chain.
- `PendingIsExact`: the disputes listed are those frozen as of the block and not
  overdue, each once, by deadline. Blocks are integers, so it covers the block at the
  boundary and ranges that reach genesis, but not the wrap of an unsigned difference.
- `RulingsOfFinalBlocks`: for ranges that were final when the query started, the
  rulings are complete, ordered, and once, and each is as of the range's last
  block, although it was read as of the latest one, which may be reorganized
  between any two calls; and reading them doesn't fail because of that. The
  comment on `Rulings` claims this ("this gives the same requests as reading them
  as of block to would").

Without a reorganization, these are about all blocks (`MaxReorgs = 0` makes every
block final). With one, nothing is promised of blocks that aren't final.

### CorpusIndex

A run reads the index, picks a block, reads the rulings after the index, checks
every file that is already there, writes the missing ones, and then the index.
`os.WriteFile` is two steps, as it truncates the file first. A run can crash at
any step, which leaves the files as they are, and can be started by hand with
`-block` or without `-w`. `setup` is how the command is run, which doesn't change:
by the workflow, where a run starts from what was pushed last (`FreshCheckout`)
and pushes at its end; by hand, one run at a time; or by hand with runs that
overlap. `Edit` is someone who changes a file.

- `IndexNeverAhead`: the index, and the pushed index, never cover a ruling
  whose file wasn't written.
- `NeverBackwards`: an index that can be read is the highest ever written.
- `NeverOverwrites`: a complete file is never written again, and an edit never
  lost.
- `OverlapHarmless`: two runs at once in a directory do no harm if they end.
- `EventuallyIndexed`, under weak fairness of a run's steps, of blocks, and of
  finality: every ruling gets pushed. The workflow starts a run each hour, which
  is the fairness of the start; only `MaxFaults` runs fail.

### IpfsClient

Each process has one client, and makes one fetch at a time, as every command of
`arbot` does. `pc` is where its fetch is. The requests of a race are goroutines:
`GatewayAnswers`, `JobCancelled`, and `SendResult` are their steps, `results` is
the channel, and `Receive` the loop that reads it. A gateway answers with any
content, or never. Content is a CID, that of which it is the content, or `Other`,
so that verifying it is a comparison. Processes are killed and started again at
any step (`Restart`), and something else may damage the cache (`DamageCache`).
`served` is a history of the gateways that served the content, in order, and no
guard reads it.

- `Authentic`: a fetch only returns content that its CID addresses.
- `CacheWhole`: unless something else damages it, the cache has only whole and
  right content.
- `FirstThatServes`: the gateway that a process goes on with is the first that
  served the content, and errors that come before don't fail the race.
- `RaceEnds`, under weak fairness of the timeout, of reading the channel, and of
  the goroutines: gateways that never answer don't stall the race, and the
  requests that lost end too. Gateways have no fairness. Nothing of the kind
  holds of a gateway that is configured, or that was picked before: the code has
  no timeout for it, and the model has no such property.

### RpcConnections, RetryTransport and Network

A caller asks the dialer (`Dial`) and waits for its chain's connection (`Return`).
A connection is made with the context of the caller that asked first, and goes
from step to step: the configured node or the list, for which it waits for a
mutex (`Lock`, `Download`), and then node after node (`Answers`, `Fails`,
`TimesOut`, `ContextEnds`). A reply to `eth_chainId` is what `RawRequest` tells
apart: status, ID, error, result. A node only promises that its reply to the
request itself has its own chain; a reply to another request has any. A reply with
the request's ID is taken to be the reply to it, as the code does. As every client
numbers its requests from 1, a node that mixes up its clients' replies could pass for
one of another chain, which the model leaves out.

- `RightChain`: a client is of a node that serves the caller's chain.
- `ConnectsOnce`: all callers of a chain get the same client or error; the list
  is downloaded once, by one connection at a time.
- `RefusedByAll`: an error says why: all nodes were tried and refused, or the
  context of the connection's maker ended, or the list has none.
- `CallersAnswered`: nobody waits forever for a node that doesn't answer. It
  assumes weak fairness of callers, the list's server, timeouts, and contexts
  that end, and strong fairness of `Lock`: Go's mutex serves waiters in order when
  they starve, so one that is freed again and again is got in the end. It
  excludes a configured node, which has no timeout, unless the context ends.

In `RetryTransport`, one request is sent (`Send`, `SendFails`), and either returned
or discarded until the timer fires (`TimerFires`, `GetBodyFails`,
`ContextEndsWait`). The jitter is any value of its range.

- `OnlyResultOpen`: no response's body is leaked, and the caller's isn't closed.
- `RetriesAsAsked`: a response that could be retried is only returned for one of
  the reasons that the documentation gives; waits are no longer than the maximum,
  and no shorter than asked; no attempt sends the rest of a body.
- `Ends`: a request whose context ends does too, whatever the timer does.

### The commands

`info` (`Proposals`). The block's logs may have other proposals, removed logs, and
ones that can't be decoded. Both chains grow while they are searched. A hash is
what it is a hash of, so two hashes are equal only if that is.

- `ProposalIsRequests`: the proposal taken hashes to the request's ID, and its
  transaction to its hash.
- `BlocksStayLast`: the blocks that all further reads are as of remain the last
  before the proposal's time, however the chains grow.

`safe` (`SafeSettings`). A storage is any function from slots to slots, so lists can
loop, end at zero, or be longer than the bound.

- `ListsOrCause`: both lists are whole and once, or the error is the true one.

`transfers` (`Transfers`). Block numbers wrap around at `W`, as uint64 does at 2^64.

- `ListsEachOnce`: exactly the transfers of the last blocks that the flags ask
  for, once and in order, from logs of any shape.

`classify` (`Checks`, `SafeCalls`). A call's data is what the checks tell apart: the
function, whether it is short or long, upper bytes, an argument, the packed
transactions of a MultiSend and where the data ends in them. What a batch reads past
its end is zeros, which complete the last call (`Padded`); that call's value and
argument are as they are read. `CharterVerdict`, the
reference, is not the code's walk over the calls: it is a rule of the whole set
of calls that the request makes.

- `VerdictIsCharters`: the verdict is the reference's, for every nesting and
  order, and whatever the process classified or failed to read before. The CLI
  classifies one request per process; that the cached versions outlive it matters to
  callers of the package, as its tests are.

`calls` (`CallReader`): the code of each account is read once, for all transactions
of a command, only accounts that were read are reported, and a call is labelled a
placeholder exactly if it stands for the transaction's own and isn't it
(`ReportsWhatItRead`). An error ends the command, as both of the reader's callers
return it. `CallData` is the decoding of the
data of a call, from raw bytes with offsets and lengths that may be anything: a
word has two bytes and numbers wrap around. `DecodesCalls` says that it never
reads past the end, that only bytes of the call itself are shown, and that what
was encoded is decoded, with the calls in it.

`executions` (`Executions`): onchain transactions make frames, some of which revert,
or are nested, or are only logs. The sources are the event, the calldata, the
trace, and a service that may claim anything.

- `ReportsWhatWasLogged`: a transaction is only shown if the Safe logged its hash.
- `TakenFromFirst`: without nested executions, each is decoded from the first source
  that answers and has it, whatever else failed before. What the node failed to send
  is kept in `failed`, a history that no guard reads.

`charter` (`Charter`): the registry and the resolver are two calls, and both change
in between. `CharterAsOfBlock`: what is shown is what the name referenced at one
block, the one before a request's proposal.

`contract-source`, `signatures`, `events` (`Evidence`): `EvidenceOfTheBlock`: source
and functions are of the code at the Safe block, an event of a transaction up to
it, and no event is shown with the layout of another standard.

## The runs and their bounds

| Run | Bounds, and why they are enough | States |
|---|---|---|
| `scan_logs` | blocks 0 to 9 with two logs in one and none in others, steps of 7 down to 2, limits from 0 to 8, two transient errors, every range: every chunk boundary falls on each kind of block, before and after a halving, and limits below the minimum refuse. | 16,000 |
| `search_block` | all chains of up to 6 blocks with timestamps up to 5, and chains of 20 and 33 blocks with long stretches of one timestamp, on which interpolation alone would probe nearly every block, so that both phases of the search occur. | 129,000 |
| `request` | one request, two sentinels with any votes, all windows of one block, seven blocks: each event of a request happens before, in, and after the pinned block. | 93,000 |
| `pending` | two requests, a timeout of two blocks, six blocks: disputes at, before, and after the boundary, settled or not, with equal deadlines; and rulings in one block or in two, read from a chain that stands still (`StillForRulings`), as `reorg` has one that doesn't. | 2,050,000 |
| `reorg` | one request, any range, and one reorganization, of any depth above the finalized block, between any two calls. A second one has no more to change: a call reads one fork. | 2,700,000 |
| `corpus` | all three setups with three rulings, two of them in one block. Two failed runs, or none where runs overlap, and one edit where runs are one at a time. | 414,000 |
| `corpus_comment` | expected to fail, see below. | |
| `ipfs_cache` | two processes, of which one has a gateway configured, on one CID, two fetches each, two restarts, one damage: both can be at any step of the same file's store, and die there. | 59,000 |
| `ipfs_race` | three gateways, so that one can win, one fail before, and one be late, and two fetches of two CIDs, so that a race can follow one that failed, and a picked gateway be used again. | 14,000 |
| `network` | three callers of two chains, so that two share a connection while another wants the list; four nodes, of which one lies about its chain and one can't be used. Four retries as by default, delays of 2 up to 9, and `Retry-After` of 0, less, as much, and more. | 42,000 |
| `commands` | `MCCommands` has the inputs of each command: storages of three addresses where two fit, two logs of any shape around the range, calls nested three deep, two onchain transactions, a name with two resolvers, two changes of code, and all data that is a well-known call with any byte changed, cut anywhere, or continued, on two levels. | 1,680,000 |
| `executions_nested` | expected to fail, see below. | |

Symmetry of the sentinels is used in `request`, which checks no liveness.
`CommitsInOrder` in `pending` fixes the order of proposals and commits in a
block, which no query distinguishes, and leaves that of reveals, disputes, and
rulings free. Deadlocks are checked except where the program ends: searches,
queries, fetches, requests, and commands.

## Findings

- `ConflictsWereEdited` (`corpus_comment`). The comment in `cli/index.go` says that a
  file that is there and differs was changed since it was indexed. A run that is
  killed between the truncation of a file and its write leaves such a file too,
  and then every later run in that directory refuses to go on. The workflow isn't
  affected, as each of its runs has a checkout of its own.
- `LastUsedLastNonce` (`executions_nested`). `executions/decode.go` works the nonces
  out from the last logged execution, which it says used the Safe's last nonce. A
  Safe uses a nonce when an execution starts, and logs it when it ends: of an
  execution that executes another, the outer is logged last but used the earlier
  nonce. Neither is decoded from its calldata or trace then. Nothing wrong is
  reported (`ReportsWhatWasLogged`), as hashes are compared.

## The proofs

They hold for every value of the constants that the modules' assumptions allow,
and none of them uses a bound.

**ScanLogs.** `GetLogsExact` shows first that the answer that the module gives for
a range is the logs of that range. The inductive invariant adds to `Covered` the
relation of the chunk's remaining logs to what was yielded, as the logs of a range
are the concatenation of those of its parts (`GetLogsConcat`), and that halving
keeps the step between its bounds. `Implementation` maps each step to a delivery,
the end, or a stutter of `LogStream`. `NarrowsOnlyForCause` follows from what a halving
shows: that a transient error was counted, or that the node's limit is below the
step (`HalvingForCause`).

**SearchBlock.** The invariant is that `lo` is before `t`, `hi` isn't, and the
block guessed is strictly between (`GuessBetween`), whatever the estimate is.
When no block is between them, monotonic timestamps (`ChainFacts`) make `lo` the
last one before `t`. `ProbesBounded` counts: once the estimates have used up the budget, every probe
halves the range, which is then at most 2^e for the e probes that are left of twice
the budget (`Halves`), as the whole chain is at most 2^`Budget` (`WholeChain`). That
is where `ChainsAssumption` bounds the chain's length by what a block number can be.

**CorpusIndex.** `NeverAhead` needs that the index stays what a run read until it
writes it, that the entries of the run are then the rulings after it, and that
those it has no more to write have files (`InProgress`). At most one run is in
progress (`Exclusive`), which is why the theorem assumes that runs don't overlap.

`NeverGoesBack` and `FilesKept` add what the past left. The files that a run is yet to write
aren't whole (`Unwritten`), as it found them absent and nobody else writes them,
which gives `FilesKept`. An index that is about to be written isn't lower than any
before it (`Highest`), as the run read the highest one and goes no further back,
which gives `NeverGoesBack`. `OverlapEndsWell` is the one about runs that overlap. Each
file that the index covers, or that a run is about to cover, is whole or is yet to be
written by some run (`Safe`, `Shared`), which then has to end for it to be.

**IpfsClient.** What was fetched has the CID asked for because the results of a race
that goes on, and the requests that are yet to send theirs, are for that CID, or
are errors (`RaceForCid`), which holds although requests of an earlier race may
still run, as a new race has a channel of its own. `PicksFirst` needs that the channel has the
results in the order in which the gateways served, and that whoever sends a result
without an error is in `served`. What is about to be renamed into
the cache is then right (`Fetched`), wherever a process dies.

**RpcConnections.** A connection has no answer until it is done (`Connections`), and
isn't changed after that, so that whoever has an answer has the connection's
(`Received`): all have the same. One connection at most holds the mutex, and only
while there is no list (`Mutex`), so it is downloaded once. A node is only an
answer if it replied to the request itself, with the chain's ID
(`AnswersForChain`). `ConnectionsAssumption` says that chains and nodes aren't
named like a status, and that listed and configured nodes are nodes. The variables
need no types: their domains are enough. For `GivenUpByAll`, the nodes that are left
and those that refused are together those of the connection (`NodesOf`), as the part
of the list that can be used has exactly these nodes (`PartHas`).

**Orders.** `InOrderSorts` says that a finite set in the order of a relation is a
sequence with each element once, and that it keeps the order. The place of an
element is the number of elements before it, which differs between any two
(`BeforeGrows`), and so takes every number (`PlacesTaken`). It replaces `SelectSeq`
and `SortSeq` where a module has theorems: they are defined by recursion.

**Network.** Of a request, `Inv` says that nothing is open until the request is done, so
that each attempt's response is the only one. It needs no assumption. `RetriedAsAsked` needs that the
delay is the doubled one as far as the maximum lets it (`Delays`), also where the code
stops doubling it, and that half of it and any jitter is no more (`WaitsBounds`).

**Safenet.** A query compares what it reads of the records with what it reads of the
logs, so `ChainInv` first relates these two, for the block being built and for every
block before: a record fits the logs of its request so far (`Fits`), which is that it
exists from its proposal on (`Posted`), that each vote has the log of its commit and,
unless it is pending, of its reveal, all in the windows (`Voted`), and that the
arbitration has one dispute, and one log that settles it after that, or none
(`Arbitrated`). And a record that is settled is the same in all later blocks
(`Settlement`), which is what lets `Rulings` read it as of another block. Each
transaction keeps this (`Transaction`), as does a reorganization (`ReorgKeeps`).

`QueryInv` is about what the result is as of (`Base`): the session's block, or the last
block of the rulings' range. If it stays (`Sure`), its logs and records do
(`BlockStays`, `ChainPasses`), and the calls after it was pinned give no others
(`LogsKnown`), not even those that read as of a later block, as nothing happens to a
request that is settled (`SettledStays`). Every scan then has exactly the logs of its
blocks so far (`ScannedFrom`, `Chunk`), the votes and the arbitration that it gives are
the record's (`VotesRead`, `ArbitrationLogs`), so that no check fails, and the requests
found are those ruled on, in order (`RulingOfRecord`, `InOrderSorts`). `OracleAssumption`
says that sentinels vote for or against, and that windows and bounds are numbers; no
proof needs more of the bounds. TLC checked both invariants on the instances of
`request`, `pending`, and `reorg` before they were proved.

**Commands.** Only the command that runs takes a step (`OneCommand`), so each has an
invariant of its own. `CommandsAssumption` says that times and block numbers are natural
numbers, and that logs have positions; the other assumptions say what a command's
inputs are (below). Flags, requests, records, receipts, and logs may be anything else.
TLC checked the invariants on the instance of `commands`, or on parts of it, as well.

- `ProposalFitsRequest`: the log taken is the least of those that end the loop, so one
  of them (`HasLeast`), and the request's, as it can be decoded (`FindKeeps`).
- `InfoBlocksStayLast`: a block is the last before a time, of a chain that has reached
  that time (`LastIn`), and so it stays however the chain grows (`StaysLast`): that is
  why a search must fail on a chain that is behind. The block that a search finds is one
  (`SearchFindsLast`), and so is the proposal's parent, unless it has the proposal's time
  (`ParentKeeps`). The invariant has both searches, whichever ends first (`BlocksInv`).
- `CharterIsAsOfBlock`: the block to read at is chosen before any call, is the request's
  if there is one, and doesn't change between the calls (`Chosen`, `ReadAt`), nor does
  what the chain has in it.
- `EvidenceIsOfTheBlock`: what is answered was compared to the code at the Safe block,
  and an event has the first layout of its own standard that its log fits
  (`DecodesAsLayout`).
- `LoggedIsReported`: what was found so far belongs, in order, to the executions before
  the one being decoded (`FoundInv`), whose hash every source is compared to
  (`DecodedKeeps`).
- `DecodedFromFirst`: where no execution executes another and no log is a fake, the
  executions use the nonces in the order of their logs (`OrderInv`), so that the nonce
  worked out is the one used (`NonceUsed`), and of the calls in an onchain transaction,
  those with the execution's fields are the ones with its hash (`CandidatesOf`). What is
  kept of an onchain transaction is what the node has, or nothing if it failed to send
  it (`Kept`), so a source that is passed by doesn't have the execution or failed, and
  that stays so (`MayTake`, `TakenStays`, `TakenOrPassed`). `ExecutionsAssumption` says
  what an onchain transaction is: itself at most one call of the Safe, with a sequence of frames, of which all that start end.
- `TransfersListedOnce`: the topics that each scan asks for, with the shapes that are
  left out, select exactly the logs that the flags ask for (`TokensScanned`,
  `ReceivedScanned`), and the range has exactly their blocks (`RangeAsked`). What a scan
  gives is in order and has each log once (`LogsPlaced`), so that two scans of different
  logs merge into one list of both (`MergedLists`): no two transfers have the same
  place, as `TransfersAssumption` says of the logs of a chain, each of which has up to
  four topics. No step of the proof needs the sort to be stable.
- `ListsAreWhole`: a list as far as it was read is where following the links leads
  (`ListsInv`, `FollowedInv`), a loop that doesn't come back to the start never does
  (`PointerRepeats`), and an error is kept with what it was about (`ErrorInv`).
  `SafeAssumption` says that a storage has a value in every slot, and that an entry is
  not an address that ends a list.
- `ReaderReportsReads`: what is left to read, with what was read, has every account that
  the report is to show (`ReaderInv`), as an error ends the command.
  A call expands to itself or to calls of batches (`ExpandsCalls`), so a call of the
  kind "root" that isn't the transaction's own is a placeholder, and there is one only if
  the expansion is empty.
- `VerdictsAreCharters`: the checks before the next found nothing, as they would with the
  Safe's version, whichever had to read it (`ClassifyInv`). The verdict is then that of
  the calls in the list, which are those of the tree that the rules speak of: what a
  batch expands to is in the tree (`TreeLeads`), by how deep it nests, and what is in the
  tree is expanded (`TreeRuns`), level by level. `CallsAssumption` says that `Call` has
  what is packed in its batches, which nest less deep: packed data is shorter than the
  data that it is in, so there is a `Nesting`.
- `CallsAreDecoded`: the calls being decoded lie in one another, each is that of its
  caller's next argument, and the arguments read so far show what they were encoded from
  (`DataInv`). For that, each value of an encoding is found at its place in the head, or
  where the head points to in the tail (`EncodeHas`), and stays there whatever follows
  (`PrefixedHas`). The decoder reads only what is in the frame, whatever offsets and
  lengths say, as it never adds to one that it didn't compare, and reads all that is in it
  (`BytesAreRead`). `DataAssumption` says that data is bytes, and that the well-known
  calls have the arguments that their functions take.

A list of links, a batch, and an encoding are recursive functions, which are `CHOOSE` of
a function that satisfies an equation. The proofs first show that there is one
(`ListFollowed`, `ExpandFound`, `LevelsFound`, `AddsFound`), and then go by the natural
numbers: a set that has 0, and n + 1 with n, has all of them (`AllNumbers`). The number
is a place in a list, an argument, a level of the tree, or how deep a call nests. One
such attempt failed, and corrected `SafeCalls`: two of the cases of a batch overlapped,
so that its expansion was either of the two, where the code takes the first that applies.

TLC alone checks liveness (`Termination` of a scan and of a search, `EventuallyIndexed`,
`RaceEnds`, `CallersAnswered`, `Ends`): the provers don't know `ENABLED`. Every
invariant and action property that a passing run checks is also a theorem.

## What isn't modelled

- Cited rules (`safenet/rules.go` and the skill's references): regular expressions
  on text.
- Keccak-256, the EIP-712 encoding, namehashes, CIDs, JSON and amounts: data
  without state, whose hazards are those of functions that unit tests cover. Of
  the ABI codec, `CallData` has words, numbers, addresses, and bytes; static
  tuples, arrays, and the ABIs of contracts aren't in it.
- The getters of `ethrpc/client.go` and the types in `ethrpc/types.go` and
  `safenet/types.go`: they encode and decode.
- `tags`, configuration files, and what commands print.
- Reorganizations while other commands than the queries of `Safenet` run: they read
  blocks by number, and nothing in the code tells two forks apart.
- Fetches by several goroutines of one process, as `arbot` makes none.
- What language models do with the instructions in `skills/` and `agents/`.
- Development tools and the end-to-end tests.

`PROJECT.json` has the reason for each component. One hazard has no property: the
Charter's name is read as of the latest block, and nothing in the code relates
it to another.

## Plan

Done: the scans, the search, the queries, the index, the IPFS client, the network,
and the commands.

1. An abstract archive, a growing set of rulings up to a block, that
   `CorpusIndex` implements.
