------------------------------- MODULE Checks -------------------------------
(* internal/checks: Classify, which runs the deterministic checks of the     *)
(* Charter's rules on each call that the Safe of a request makes, reading    *)
(* the Safe as of the block before its proposal, and keeping what it read in *)
(* a cache of the process. A read can fail at any time.                      *)
EXTENDS SafeCalls, FiniteSets

CONSTANTS
  Requests,   \* requests that the process classifies, one after the other
  Networks,   \* the chains that the Charter covers
  AccountAt   \* <<address, chain, block>> -> the account's proxy and singleton

VARIABLES
  request,    \* the request that is being, or was, classified
  calls,      \* the calls that the Safe makes for it
  i,          \* the index of the check that runs next
  result,     \* the classification, or Idle, Running, or Error
  safeVersions, \* the cache: <<address, chain, block>> -> version
  dialed      \* chains that the process has connected to

vars == <<request, calls, i, result, safeVersions, dialed>>

SettingsFunctions ==
  <<"addOwnerWithThreshold", "removeOwner", "swapOwner", "changeThreshold", "enableModule",
    "disableModule", "setGuard", "setFallbackHandler", "setModuleGuard">>

InsecureChecks == <<"offNetwork", "unsupportedSafe">> \o SettingsFunctions

SecureChecks == <<"emptyMultiSend", "invalidMultiSend", "allowedDisableModule",
                  "allowedSetFallbackHandler", "emptySelfCall", "emptyZeroAddressCall">>

-----------------------------------------------------------------------------

SelfCall(r, c, f) == c.to = r.tx.safe /\ c.op = "call" /\ c.data.fn = f

\* Mutant: the exceptions hold within a batch too.
CanonicalCall(c) == c.value = 0 /\ c.data.len = "exact" /\ ~c.data.dirty

CanonicalRootCall(c) == c.kind = "root" /\ c.value = 0 /\ c.data.len = "exact" /\ ~c.data.dirty

AllowedDisableModule(c) == CanonicalRootCall(c)

AllowedSetFallbackHandler(c) == CanonicalRootCall(c) /\ c.data.arg = "zero"

AddsInvalidOwner(c) == c.data.arg \in {"zero", "sentinel"}

\* What a check of a settings function leaves to others.
Abstains(f, c, version) ==
  \/ f \in {"addOwnerWithThreshold", "swapOwner"} /\ AddsInvalidOwner(c)
  \/ f = "disableModule" /\ AllowedDisableModule(c)
  \/ f = "setFallbackHandler" /\ AllowedSetFallbackHandler(c)
  \/ f = "setModuleGuard" /\ version \notin {"1.5.0", "1.5.0+L2"}

SettingsChange(f, r, c, version) ==
  SelfCall(r, c, f) /\ c.data.len # "short" /\ ~Abstains(f, c, version)

EmptyCall(c, to) ==
  c.kind # "refund" /\ c.to = to /\ c.op = "call" /\ c.value = 0 /\ c.data = NoData

\* Whether a call is in the class of a check.
Matches(check, r, c, version) ==
  CASE check = "offNetwork"       -> r.tx.chain \notin Networks
    [] check = "unsupportedSafe"  -> version = "none"
    [] check = "emptyMultiSend"   -> IsMultiSend(c.to) /\ c = EmptyMultiSend(c.to)
    [] check = "invalidMultiSend" -> IsMultiSend(c.to) /\ c = RevertingMultiSend(c.to)
    [] check = "allowedDisableModule" -> SelfCall(r, c, "disableModule") /\ AllowedDisableModule(c)
    [] check = "allowedSetFallbackHandler" ->
         SelfCall(r, c, "setFallbackHandler") /\ AllowedSetFallbackHandler(c)
    [] check = "emptySelfCall"        -> EmptyCall(c, r.tx.safe)
    [] check = "emptyZeroAddressCall" -> EmptyCall(c, "zero")
    [] OTHER                          -> SettingsChange(check, r, c, version)

-----------------------------------------------------------------------------

\* What the cache keeps a version by.
Key(r) == <<r.tx.safe, r.tx.chain, r.block>>

\* The proxies that an official factory deploys on a chain. Those of 1.1.1 on
\* Gnosis Chain and on Ethereum Mainnet differ.
ProxyVersion(code, chain) ==
  CASE code = "proxy1.1.1 mainnet" /\ chain = "mainnet" -> "1.1.1"
    [] code = "proxy1.1.1 gnosis" /\ chain = "gnosis"   -> "1.1.1"
    [] code = "proxy1.4.1" /\ chain \in Networks        -> "1.4.1"
    [] OTHER                                            -> "none"

\* The version of the Safe of r, as of its block: its singleton's, if it has
\* the code of a Safe proxy.
ReadVersion(r) ==
  LET account == AccountAt[<<r.tx.safe, r.tx.chain, r.block>>]
  IN IF ProxyVersion(account.code, r.tx.chain) # "none" THEN account.singleton ELSE "none"

Store(cache, key, version) ==
  [k \in DOMAIN cache \cup {key} |-> IF k = key THEN version ELSE cache[k]]

Cached  == Key(request) \in DOMAIN safeVersions
Version == safeVersions[Key(request)]

\* Whether a check asks for the Safe's version.
CheckReads(check) ==
  \/ check = "unsupportedSafe"
  \/ /\ check = "setModuleGuard"
     /\ \E k \in DOMAIN calls : SelfCall(request, calls[k], check) /\ calls[k].data.len # "short"

Classification(verdict, rule, descriptions) ==
  [verdict |-> verdict, rule |-> rule, descriptions |-> descriptions]

Idle    == Classification("idle", "", {})
Running == Classification("running", "", {})
Error   == Classification("error", "", {})

Rule(check) == IF check \in {"offNetwork", "unsupportedSafe"} THEN "R-4.0" ELSE "R-4.1"

NoRequest == [tx |-> [safe |-> "zero", chain |-> "none"], block |-> 0, missing |-> TRUE]

Init ==
  /\ request = NoRequest /\ calls = <<>> /\ i = 1 /\ result = Idle
  /\ safeVersions = <<>> /\ dialed = {}

\* A request that misses an amount, or its Safe block, is an error.
Classify ==
  /\ result = Idle
  /\ \E r \in Requests :
       /\ request' = r
       /\ IF r.missing \/ r.block = 0
          THEN result' = Error /\ UNCHANGED calls
          ELSE result' = Running /\ calls' = Components(r.tx)
  /\ UNCHANGED <<i, safeVersions, dialed>>

\* A check that needs the Safe's version reads it first, unless it is cached.
Read ==
  /\ result = Running /\ i \in DOMAIN InsecureChecks
  /\ CheckReads(InsecureChecks[i]) /\ ~Cached
  /\ dialed' = dialed \cup {request.tx.chain}
  /\ \/ safeVersions' = Store(safeVersions, Key(request), ReadVersion(request)) /\ UNCHANGED result
     \/ result' = Error /\ UNCHANGED safeVersions
  /\ UNCHANGED <<request, calls, i>>

\* Whether a check finds one of the calls insecure.
Finds(check) ==
  LET version == IF CheckReads(check) THEN Version ELSE "unread"
  IN \E k \in DOMAIN calls : Matches(check, request, calls[k], version)

RunInsecureCheck ==
  /\ result = Running /\ i \in DOMAIN InsecureChecks
  /\ CheckReads(InsecureChecks[i]) => Cached
  /\ IF Finds(InsecureChecks[i])
     THEN result' = Classification("insecure", Rule(InsecureChecks[i]), {InsecureChecks[i]})
     ELSE UNCHANGED result
  /\ i' = i + 1
  /\ UNCHANGED <<request, calls, safeVersions, dialed>>

\* The secure checks that match a call, of which the first describes it.
SecureMatches(c) ==
  {k \in DOMAIN SecureChecks : Matches(SecureChecks[k], request, c, "unread")}

FirstMatch(c) ==
  SecureChecks[CHOOSE k \in SecureMatches(c) : \A l \in SecureMatches(c) : k <= l]

RunSecureChecks ==
  /\ result = Running /\ i = Len(InsecureChecks) + 1
  /\ result' = IF \A c \in ToSet(calls) : SecureMatches(c) # {}
               THEN Classification("secure", "", {FirstMatch(c) : c \in ToSet(calls)})
               ELSE Classification("unclassified", "", {})
  /\ UNCHANGED <<request, calls, i, safeVersions, dialed>>

\* The caller has the classification, or the error.
Return ==
  /\ result \notin {Idle, Running}
  /\ request' = NoRequest /\ calls' = <<>> /\ i' = 1 /\ result' = Idle
  /\ UNCHANGED <<safeVersions, dialed>>

Next == Classify \/ Read \/ RunInsecureCheck \/ RunSecureChecks \/ Return

Spec == Init /\ [][Next]_vars

-----------------------------------------------------------------------------
(* What the Charter's rules say of a request, from the tree of its batches:  *)
(* a path is the indexes of the transactions that lead to a call.            *)

IsBatch(c) == IsMultiSend(c.to) /\ c.op = "delegatecall" /\ c.data.fn = "multiSend" /\ c.data.decodes

Children(c) == IF IsBatch(c) THEN Transactions(c.data) ELSE <<>>

\* A call of the tree is <<path, call, whether it can run>>.
Below(r, n) ==
  {<<Append(n[1], k), Batched(r.tx.safe, MultiSends[n[2].to], Children(n[2])[k]),
     ~Invalid(MultiSends[n[2].to], Children(n[2])[k])>> : k \in DOMAIN Children(n[2])}

Levels(r) ==
  LET level[d \in 0..DeepestBatch] ==
        IF d = 0 THEN {<<<<>>, OwnCall(r.tx), TRUE>>}
        ELSE UNION {Below(r, n) : n \in {m \in level[d - 1] : m[3]}}
  IN level

Tree(r) == UNION {Levels(r)[d] : d \in 0..DeepestBatch}

\* A call that reverts makes all of the transaction's calls revert.
CannotRun(n) ==
  \/ ~n[3]
  \/ /\ IsMultiSend(n[2].to)
     /\ \/ n[2].data.fn # "multiSend"
        \/ n[2].op = "call" /\ ~MultiSends[n[2].to].callOnly

MadeCalls(r) ==
  IF \E n \in Tree(r) : CannotRun(n) THEN {} ELSE {n \in Tree(r) : ~IsBatch(n[2])}

\* R-4.1's exceptions are for the transaction's own call, in canonical form.
Excepted(n) ==
  LET c == n[2]
  IN /\ n[1] = <<>> /\ c.value = 0 /\ c.data.len = "exact" /\ ~c.data.dirty
     /\ \/ c.data.fn = "disableModule"
        \/ c.data.fn = "setFallbackHandler" /\ c.data.arg = "zero"

\* A call by the Safe to itself that can change a setting.
ChangesSetting(r, n) ==
  LET c == n[2]
  IN /\ c.to = r.tx.safe /\ c.op = "call" /\ c.data.fn \in ToSet(SettingsFunctions)
     /\ c.data.len # "short"
     /\ ~(c.data.fn \in {"addOwnerWithThreshold", "swapOwner"} /\ c.data.arg \in {"zero", "sentinel"})
     /\ c.data.fn = "setModuleGuard" => ReadVersion(r) \in {"1.5.0", "1.5.0+L2"}
     /\ ~Excepted(n)

Harmless(r, n) ==
  LET c == n[2]
  IN /\ c.op = "call"
     /\ \/ /\ c.to \in {r.tx.safe, "zero"}
           /\ c.value = 0 /\ c.data = NoData
        \/ c.to = r.tx.safe /\ Excepted(n)

CharterVerdict(r) ==
  CASE r.tx.chain \notin Networks                 -> <<"insecure", "R-4.0">>
    [] r.tx.chain \in Networks /\ ReadVersion(r) = "none" -> <<"insecure", "R-4.0">>
    [] OTHER ->
         IF \E n \in MadeCalls(r) : ChangesSetting(r, n) THEN <<"insecure", "R-4.1">>
         ELSE IF r.tx.gasPrice = 0 /\ \A n \in MadeCalls(r) : Harmless(r, n)
              THEN <<"secure", "">> ELSE <<"unclassified", "">>

-----------------------------------------------------------------------------

\* A verdict is what the Charter's rules say of the request, wherever in its
\* nested batches a call is, in whatever order, and whatever the process
\* classified or failed to read before (classify, expandMultiSendCall). One on a
\* chain that the Charter doesn't cover has a verdict without its node.
VerdictIsCharters ==
  /\ result \notin {Idle, Running, Error} => <<result.verdict, result.rule>> = CharterVerdict(request)
  /\ result = Error /\ ~request.missing /\ request.block # 0 => request.tx.chain \in Networks
=============================================================================
