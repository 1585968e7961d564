------------------------------- MODULE Charter -------------------------------
(* arbot charter and charterCID (internal/cli/charter.go), with internal/ens: *)
(* which version of the Charter applies. It is what an ENS name references at *)
(* a block of Ethereum Mainnet, in two calls, while the chain grows and the   *)
(* name's records change. The command fetches it, or verifies a file.         *)
(*                                                                            *)
(* A version stands for its content and for the CID of it. How content is     *)
(* fetched is module IpfsClient. Reorganizations aren't modelled.             *)
EXTENDS Naturals, Sequences

CONSTANTS
  Names,       \* ENS names that a request may have
  Default,     \* charterName, the name that is read without a request
  Records,     \* what a block may have for a name: [resolver, hash], see Record
  Uses,        \* the command's flags and files: [block, request, verify]
  MaxHeight    \* bound: the highest block of the chain

VARIABLES
  mainnet,     \* the records of the names at each block, from block 1
  use,         \* how the command is used
  step,        \* "start", "block", "resolver", "hash", "content" or an end
  name, at,    \* the name, and the block that it is read at, or 0
  resolver,    \* the resolver that the registry has
  cid,         \* the version that the name references
  shown        \* the version that is written, or whose CID is

vars == <<mainnet, use, step, name, at, resolver, cid, shown>>

\* No file to verify, resolver, or version, and no request file.
None == "none"
NoFile == [name |-> None, block |-> 0]

Height == Len(mainnet)

Init ==
  /\ mainnet \in [1..1 -> [Names -> Records]]
  /\ use \in Uses
  /\ step = "start" /\ name = Default /\ at = 0
  /\ resolver = None /\ cid = None /\ shown = None

ChainGrows ==
  /\ Height < MaxHeight
  /\ \E r \in [Names -> Records] : mainnet' = Append(mainnet, r)
  /\ UNCHANGED <<use, step, name, at, resolver, cid, shown>>

HasCharter(r) == r.block # 0 /\ r.name # ""

Parse ==
  /\ step = "start"
  /\ IF use.request = NoFile
     THEN step' = "block" /\ at' = use.block /\ UNCHANGED name
     ELSE IF use.block # 0
     THEN step' = "usage" /\ UNCHANGED <<name, at>>
     ELSE IF HasCharter(use.request)
     THEN step' = "block" /\ name' = use.request.name /\ at' = use.request.block
     ELSE step' = "error" /\ UNCHANGED <<name, at>>
  /\ UNCHANGED <<mainnet, use, resolver, cid, shown>>

\* Without a block, the latest one is read first, and stays the one to read at.
ChooseBlock ==
  /\ step = "block"
  /\ step' = "resolver" /\ at' = IF at = 0 THEN Height ELSE at
  /\ UNCHANGED <<mainnet, use, name, resolver, cid, shown>>

\* Mutant: each call is made at the block that is the latest by then.
AtLatest == Height

At == at

\* What the registry has for a name that it knows; a node fails for blocks that it
\* doesn't have.
ReadResolver ==
  /\ step = "resolver" /\ At <= Height
  /\ resolver' = IF name \in Names THEN mainnet[At][name].resolver ELSE None
  /\ step' = IF resolver' = None THEN "error" ELSE "hash"
  /\ UNCHANGED <<mainnet, use, name, at, cid, shown>>

\* What a resolver has for a name, which is a version, none, or another kind of hash.
ReadHash ==
  /\ step = "hash" /\ At <= Height
  /\ LET hash == mainnet[At][name].hash[resolver]
     IN IF hash \in {None, "unsupported"}
        THEN step' = "error" /\ UNCHANGED cid
        ELSE step' = "content" /\ cid' = hash
  /\ UNCHANGED <<mainnet, use, name, at, resolver, shown>>

\* The file is compared with the version, or the version is fetched.
Content ==
  /\ step = "content"
  /\ IF use.verify \in {None, cid}
     THEN step' = "done" /\ shown' = cid
     ELSE step' = "error" /\ UNCHANGED shown
  /\ UNCHANGED <<mainnet, use, name, at, resolver, cid>>

\* A file can't be read, or a call or the fetch fails.
Fails ==
  /\ step \in {"start", "block", "resolver", "hash", "content"}
  /\ step' = "error"
  /\ UNCHANGED <<mainnet, use, name, at, resolver, cid, shown>>

Next ==
  ChainGrows \/ Parse \/ ChooseBlock \/ ReadResolver \/ ReadHash \/ Content \/ Fails

Spec == Init /\ [][Next]_vars

-----------------------------------------------------------------------------

Reference(n, b) ==
  LET record == mainnet[b][n]
  IN IF record.resolver = None THEN None ELSE record.hash[record.resolver]

\* The Charter that is shown, or that a file is verified to be, is what the name
\* references at one block, although its resolver and the resolver's record may
\* change in between: the block that was asked for, for a request the one before
\* its proposal ("A zero block would read the latest Charter version instead"),
\* and else one that was the latest.
CharterAsOfBlock ==
  step = "done" =>
    /\ at \in DOMAIN mainnet
    /\ shown = Reference(name, at) /\ use.verify \in {None, shown}
    /\ IF use.request = NoFile
       THEN name = Default /\ use.block \in {0, at}
       ELSE name = use.request.name /\ at = use.request.block
=============================================================================
