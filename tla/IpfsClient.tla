----------------------------- MODULE IpfsClient -----------------------------
(***************************************************************************)
(* ipfs.Client (internal/ipfs/client.go, gateways.go): processes that      *)
(* fetch content by its CID, from a cache on disk that they share, or from *)
(* gateways. A process without a configured gateway requests the content   *)
(* from all default gateways at once, and keeps the first that serves it.  *)
(*                                                                         *)
(* A CID stands for the content that hashes to it. A process makes one     *)
(* fetch at a time, as arbot does, while the requests of an earlier race   *)
(* may still be ending.                                                    *)
(***************************************************************************)
EXTENDS Integers, Sequences, FiniteSets

CONSTANTS
  Processes, Gateways, Cids,
  Other,          \* any content that hashes to none of Cids, such as part of one
  None,           \* no content, gateway, or result
  Configured,     \* the configured gateway of each process, or None
  MaxFetches,     \* bound: the fetches of a process until it ends
  MaxRestarts,    \* bound: how often processes end, or are killed, and start again
  MaxDamage       \* bound: how often cached content is damaged or removed

ASSUME IpfsAssumption ==
  /\ Gateways # {} /\ IsFiniteSet(Gateways)
  /\ Configured \in [Processes -> Gateways \cup {None}]
  /\ Other \notin Cids /\ None \notin Cids \cup Gateways \cup {Other}
  /\ {"none", "running", "ended"} \cap (Cids \cup {Other, None}) = {}
  /\ {MaxFetches, MaxRestarts, MaxDamage} \subseteq Nat

Contents == Cids \cup {Other}
Verified == Cids \cup {None}

VARIABLES
  cache,      \* the content in the cache's file of each CID
  pc,         \* where the fetch of each process is
  cid,        \* the CID that it fetches
  content,    \* the content that it has
  url,        \* the client's gateway
  list,       \* the process's list of default gateways, empty before it has one
  job,        \* its requests in a race, with what they are about to send
  results,    \* the channel of the race
  due,        \* the results that the race is yet to receive
  over,       \* whether the race's context is done
  served,     \* history: the gateways that served the content, in this order
  fetches, restarts, damage

disk == <<cache, damage>>
race == <<job, results, due, over, served>>
vars == <<disk, pc, cid, content, url, list, race, fetches, restarts>>

Ended == {"idle", "returned", "failed"}
NoJobs == [g \in Gateways |-> "none"]

Init ==
  /\ cache = [c \in Cids |-> None]
  /\ pc = [p \in Processes |-> "idle"]
  /\ cid = [p \in Processes |-> None]
  /\ content = [p \in Processes |-> None]
  /\ url = Configured
  /\ list = [p \in Processes |-> {}]
  /\ job = [p \in Processes |-> NoJobs]
  /\ results = [p \in Processes |-> <<>>]
  /\ due = [p \in Processes |-> 0]
  /\ over = [p \in Processes |-> FALSE]
  /\ served = [p \in Processes |-> <<>>]
  /\ fetches = [p \in Processes |-> 0]
  /\ restarts = 0 /\ damage = 0

Goto(p, step) == pc' = [pc EXCEPT ![p] = step]

Fetch(p) ==
  /\ pc[p] \in Ended /\ fetches[p] < MaxFetches
  /\ \E c \in Cids : cid' = [cid EXCEPT ![p] = c]
  /\ content' = [content EXCEPT ![p] = None]
  /\ fetches' = [fetches EXCEPT ![p] = @ + 1]
  /\ Goto(p, "cache")
  /\ UNCHANGED <<disk, url, list, race, restarts>>

\* cached, which misses if the file is absent, damaged, or unreadable.
ReadCache(p) ==
  /\ pc[p] = "cache"
  /\ \/ /\ cache[cid[p]] = cid[p]
        /\ content' = [content EXCEPT ![p] = cache[cid[p]]]
        /\ Goto(p, "returned")
     \/ /\ Goto(p, IF url[p] # None THEN "direct" ELSE "list")
        /\ UNCHANGED content
  /\ UNCHANGED <<disk, cid, url, list, race, fetches, restarts>>

\* Mutant: what a gateway answers isn't verified.
DownloadedAsIs(answer, c) == answer

\* downloadFrom: the answer of a gateway, which is an error unless it is c.
Downloaded(answer, c) == IF answer = c THEN answer ELSE None

\* The client's gateway answers, or fails to.
DownloadDirect(p) ==
  /\ pc[p] = "direct"
  /\ \E answer \in Contents :
       content' = [content EXCEPT ![p] = Downloaded(answer, cid[p])]
  /\ Goto(p, IF content'[p] = None THEN "failed" ELSE "store")
  /\ UNCHANGED <<disk, cid, url, list, race, fetches, restarts>>

\* The list is downloaded once, or again if that fails. It is never empty.
DefaultGateways(p, S) ==
  /\ S # {} /\ list[p] \in {{}, S}
  /\ list' = [list EXCEPT ![p] = S]

\* The start of the race.
ListGateways(p) ==
  /\ pc[p] = "list"
  /\ \/ /\ list[p] = {}
        /\ Goto(p, "failed")
        /\ UNCHANGED <<list, race>>
     \/ \E S \in SUBSET Gateways :
          /\ DefaultGateways(p, S)
          /\ job' = [job EXCEPT ![p] = [g \in Gateways |-> IF g \in S THEN "running" ELSE "none"]]
          /\ results' = [results EXCEPT ![p] = <<>>]
          /\ due' = [due EXCEPT ![p] = Cardinality(S)]
          /\ over' = [over EXCEPT ![p] = FALSE]
          /\ served' = [served EXCEPT ![p] = <<>>]
          /\ Goto(p, "race")
  /\ UNCHANGED <<disk, cid, content, url, fetches, restarts>>

JobHas(p, g, result) == job' = [job EXCEPT ![p][g] = result]

\* A request of the race is answered, or is cancelled as the race is over. A race
\* that is over can be followed by a fetch of another CID, but then nobody
\* receives its results any more.
GatewayAnswers(p, g) ==
  /\ job[p][g] = "running"
  /\ \E answer \in Contents : JobHas(p, g, Downloaded(answer, cid[p]))
  /\ UNCHANGED <<disk, pc, cid, content, url, list, results, due, over, served, fetches, restarts>>

JobCancelled(p, g) ==
  /\ job[p][g] = "running" /\ over[p]
  /\ JobHas(p, g, None)
  /\ UNCHANGED <<disk, pc, cid, content, url, list, results, due, over, served, fetches, restarts>>

\* Mutant: the channel has room for one result.
RoomForOne(p) == Len(results[p]) < 1

\* The channel has room for every result.
Room(p) == Len(results[p]) < Cardinality(list[p])

SendResult(p, g) ==
  /\ job[p][g] \in Verified
  /\ Room(p)
  /\ results' = [results EXCEPT ![p] = Append(@, [gateway |-> g, content |-> job[p][g]])]
  /\ served' = IF job[p][g] = None THEN served ELSE [served EXCEPT ![p] = Append(@, g)]
  /\ JobHas(p, g, "ended")
  /\ UNCHANGED <<disk, pc, cid, content, url, list, due, over, fetches, restarts>>

\* Mutant: the picked gateway is any of the list.
PickAny(p, g) == CHOOSE h \in list[p] : TRUE

\* All results were received.
GiveUp(p) == due[p] = 1
Pick(p, g) == g

Receive(p) ==
  LET r == Head(results[p])
  IN  /\ pc[p] = "race" /\ results[p] # <<>>
      /\ results' = [results EXCEPT ![p] = Tail(@)]
      /\ due' = [due EXCEPT ![p] = @ - 1]
      /\ \/ /\ r.content # None
            /\ url' = [url EXCEPT ![p] = Pick(p, r.gateway)]
            /\ content' = [content EXCEPT ![p] = r.content]
            /\ over' = [over EXCEPT ![p] = TRUE]
            /\ Goto(p, "store")
         \/ /\ r.content = None /\ GiveUp(p)
            /\ over' = [over EXCEPT ![p] = TRUE]
            /\ Goto(p, "failed")
            /\ UNCHANGED <<url, content>>
         \/ /\ r.content = None /\ ~GiveUp(p)
            /\ UNCHANGED <<pc, url, content, over>>
      /\ UNCHANGED <<disk, cid, list, job, served, fetches, restarts>>

\* gatewayTimeout has passed, or the command is interrupted.
Deadline(p) == pc[p] = "race"

RaceTimesOut(p) ==
  /\ Deadline(p) /\ ~over[p]
  /\ over' = [over EXCEPT ![p] = TRUE]
  /\ UNCHANGED <<disk, pc, cid, content, url, list, job, results, due, served, fetches, restarts>>

\* Mutant: content is written into place, so the file is truncated first.
WriteInPlace(p) == cache' = [cache EXCEPT ![cid[p]] = Other]

\* store writes a temporary file, which no one reads, and renames it.
WriteTemp(p) == UNCHANGED cache

StoreTemp(p) ==
  /\ pc[p] = "store"
  /\ WriteTemp(p)
  /\ Goto(p, "rename")
  /\ UNCHANGED <<damage, cid, content, url, list, race, fetches, restarts>>

Rename(p) ==
  /\ pc[p] = "rename"
  /\ cache' = [cache EXCEPT ![cid[p]] = content[p]]
  /\ Goto(p, "returned")
  /\ UNCHANGED <<damage, cid, content, url, list, race, fetches, restarts>>

\* Not being able to store the content doesn't fail the fetch.
StoreFails(p) ==
  /\ pc[p] \in {"store", "rename"}
  /\ Goto(p, "returned")
  /\ UNCHANGED <<disk, cid, content, url, list, race, fetches, restarts>>

\* The process ends, or is killed at any point, and another one starts.
Restart(p) ==
  /\ restarts < MaxRestarts /\ restarts' = restarts + 1
  /\ Goto(p, "idle")
  /\ cid' = [cid EXCEPT ![p] = None]
  /\ content' = [content EXCEPT ![p] = None]
  /\ url' = [url EXCEPT ![p] = Configured[p]]
  /\ list' = [list EXCEPT ![p] = {}]
  /\ job' = [job EXCEPT ![p] = NoJobs]
  /\ results' = [results EXCEPT ![p] = <<>>]
  /\ due' = [due EXCEPT ![p] = 0]
  /\ over' = [over EXCEPT ![p] = FALSE]
  /\ served' = [served EXCEPT ![p] = <<>>]
  /\ fetches' = [fetches EXCEPT ![p] = 0]
  /\ UNCHANGED disk

\* Something else damages or removes a file of the cache.
DamageCache(c) ==
  /\ cache[c] # None
  /\ damage < MaxDamage /\ damage' = damage + 1
  /\ \E rest \in {Other, None} : cache' = [cache EXCEPT ![c] = rest]
  /\ UNCHANGED <<pc, cid, content, url, list, race, fetches, restarts>>

Next ==
  \/ \E p \in Processes :
       \/ Fetch(p) \/ ReadCache(p) \/ DownloadDirect(p) \/ ListGateways(p)
       \/ \E g \in Gateways : GatewayAnswers(p, g) \/ JobCancelled(p, g) \/ SendResult(p, g)
       \/ Receive(p) \/ RaceTimesOut(p)
       \/ StoreTemp(p) \/ Rename(p) \/ StoreFails(p)
       \/ Restart(p)
  \/ \E c \in Cids : DamageCache(c)

Spec == Init /\ [][Next]_vars

\* Goroutines run, and timers fire. Gateways may never answer.
FairSpec ==
  /\ Spec
  /\ \A p \in Processes :
       /\ WF_vars(Receive(p)) /\ WF_vars(RaceTimesOut(p))
       /\ \A g \in Gateways : WF_vars(JobCancelled(p, g)) /\ WF_vars(SendResult(p, g))
-----------------------------------------------------------------------------
Steps == Ended \cup {"cache", "direct", "list", "race", "store", "rename"}
Jobs == {"none", "running", "ended"} \cup Verified

FetchType ==
  /\ cache \in [Cids -> Contents \cup {None}]
  /\ pc \in [Processes -> Steps]
  /\ cid \in [Processes -> Cids \cup {None}]
  /\ \A p \in Processes : pc[p] # "idle" => cid[p] # None
  /\ content \in [Processes -> Verified]

RaceType ==
  /\ job \in [Processes -> [Gateways -> Jobs]]
  /\ results \in [Processes -> Seq([gateway : Gateways, content : Verified])]
  /\ due \in [Processes -> Int]
  /\ over \in [Processes -> BOOLEAN]
  /\ served \in [Processes -> Seq(Gateways)]

ClientType ==
  /\ url \in [Processes -> Gateways \cup {None}]
  /\ list \in [Processes -> SUBSET Gateways]
  /\ fetches \in [Processes -> Nat] /\ restarts \in Nat /\ damage \in Nat

\* Whatever gateways answer, a process only handles content that was verified. Only
\* the files of the cache can have other content.
TypeOK == FetchType /\ RaceType /\ ClientType

\* Whatever gateways answer, and however the cache is damaged, a fetch that returns
\* content returns what its CID addresses.
Authentic == \A p \in Processes : pc[p] = "returned" => content[p] = cid[p]

\* Unless something else damages it, the cache has only whole and right content,
\* wherever processes that write it are killed, and however many write at once.
CacheWhole == damage = 0 => \A c \in Cids : cache[c] \in {None, c}

\* The gateway that a process goes on with is the first that served the content of
\* the race, never one that fails or is too late, and a race only fails if none
\* of the gateways served the content before it was over.
FirstThatServes ==
  \A p \in Processes :
    /\ Configured[p] = None /\ url[p] # None => served[p] # <<>> /\ url[p] = Head(served[p])
    /\ pc[p] = "failed" /\ url[p] = None => served[p] = <<>>

\* Gateways that never answer don't stall the race, and its requests end, even if
\* it was won by another or has failed, so nothing is left running or blocked.
RaceEnds ==
  \A p \in Processes :
    /\ pc[p] = "race" ~> pc[p] # "race"
    /\ \A g \in Gateways : job[p][g] = "running" ~> job[p][g] \in {"none", "ended"}
=============================================================================
