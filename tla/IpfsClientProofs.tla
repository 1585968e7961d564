-------------------------- MODULE IpfsClientProofs --------------------------
(***************************************************************************)
(* Proofs about IpfsClient, for any processes, gateways, and CIDs: what is *)
(* fetched is what was asked for, and the cache is never left broken.      *)
(***************************************************************************)
EXTENDS IpfsClient, FiniteSetTheorems, SequenceTheorems, TLAPS

\* What a process is about to store or return has the CID that it fetches.
Fetched ==
  \A p \in Processes :
    pc[p] \in {"store", "rename", "returned"} => cid[p] \in Cids /\ content[p] = cid[p]

\* The requests of a race that goes on, and their results, are for that CID.
RaceForCid ==
  \A p \in Processes :
    pc[p] = "race" =>
      /\ \A g \in Gateways : job[p][g] \in {"none", "running", "ended", None, cid[p]}
      /\ \A i \in 1..Len(results[p]) : results[p][i].content \in {None, cid[p]}

IInv == TypeOK /\ Fetched /\ RaceForCid /\ CacheWhole

\* The constants that aren't model values differ from each other.
LEMMA Distinct ==
  /\ None \notin Cids /\ Other \notin Cids /\ None # Other
  /\ "none" \notin Verified /\ "running" \notin Verified /\ "ended" \notin Verified
BY IpfsAssumption DEF Verified

\* A download gives the content of the CID, or nothing (client.go:192).
LEMMA DownloadVerifies ==
  ASSUME NEW answer, NEW c \in Cids
  PROVE  Downloaded(answer, c) \in {None, c}
BY DEF Downloaded

\* The channel's next result is one of the results, and the others remain.
LEMMA Received ==
  ASSUME NEW S, NEW s \in Seq(S), s # <<>>
  PROVE  /\ Head(s) \in S /\ Head(s) = s[1] /\ 1 \in 1..Len(s)
         /\ Tail(s) \in Seq(S) /\ Len(Tail(s)) = Len(s) - 1
         /\ \A i \in 1..Len(Tail(s)) : Tail(s)[i] = s[i + 1] /\ i + 1 \in 1..Len(s)
OBVIOUS

\* The channel has what was sent before, and then the result.
LEMMA Sent ==
  ASSUME NEW S, NEW s \in Seq(S), NEW e \in S
  PROVE  /\ Append(s, e) \in Seq(S) /\ Len(Append(s, e)) = Len(s) + 1
         /\ \A i \in 1..Len(s) + 1 : Append(s, e)[i] = IF i \in 1..Len(s) THEN s[i] ELSE e
OBVIOUS

\* A race, or none, starts with an empty channel.
LEMMA FreshRace ==
  ASSUME RaceType, NEW p \in Processes, NEW jobs \in [Gateways -> Jobs], NEW n \in Int,
         job' = [job EXCEPT ![p] = jobs],
         results' = [results EXCEPT ![p] = <<>>],
         due' = [due EXCEPT ![p] = n],
         over' = [over EXCEPT ![p] = FALSE],
         served' = [served EXCEPT ![p] = <<>>]
  PROVE  RaceType'
<1> DEFINE Channels == Seq([gateway : Gateways, content : Verified])
<1>1. <<>> \in Channels /\ <<>> \in Seq(Gateways)
  OBVIOUS
<1>2. results \in [Processes -> Channels]
  BY DEF RaceType
<1> HIDE DEF Channels
<1>3. results' \in [Processes -> Channels]
  BY <1>1, <1>2
<1>4. served' \in [Processes -> Seq(Gateways)]
  BY <1>1 DEF RaceType
<1>5. job' \in [Processes -> [Gateways -> Jobs]]
  BY DEF RaceType
<1>6. due' \in [Processes -> Int] /\ over' \in [Processes -> BOOLEAN]
  BY DEF RaceType
<1> QED BY <1>3, <1>4, <1>5, <1>6 DEF RaceType, Channels

LEMMA InitIInv == Init => IInv
<1> SUFFICES ASSUME Init PROVE IInv
  OBVIOUS
<1>1. TypeOK
  <2>1. <<>> \in Seq([gateway : Gateways, content : Verified]) /\ <<>> \in Seq(Gateways)
    OBVIOUS
  <2>2. NoJobs \in [Gateways -> Jobs]
    BY DEF NoJobs, Jobs
  <2>3. FetchType
    BY DEF Init, FetchType, Contents, Verified, Steps, Ended
  <2>4. RaceType
    BY <2>1, <2>2 DEF Init, RaceType
  <2>5. ClientType
    BY IpfsAssumption DEF Init, ClientType
  <2> QED BY <2>3, <2>4, <2>5 DEF TypeOK
<1>2. Fetched /\ RaceForCid
  BY DEF Init, Fetched, RaceForCid
<1>3. CacheWhole
  BY DEF Init, CacheWhole
<1> QED BY <1>1, <1>2, <1>3 DEF IInv

LEMMA StepType == TypeOK /\ [Next]_vars => TypeOK'
<1> SUFFICES ASSUME TypeOK, [Next]_vars PROVE TypeOK'
  OBVIOUS
<1> USE DEF TypeOK, Goto, disk, race
<1>1. ASSUME NEW p \in Processes, Fetch(p) PROVE TypeOK'
  <2>1. FetchType'
    BY <1>1, Distinct DEF Fetch, FetchType, Contents, Verified, Steps, Ended
  <2>2. RaceType'
    BY <1>1 DEF Fetch, RaceType, FetchType, Jobs
  <2>3. ClientType'
    BY <1>1, IpfsAssumption DEF Fetch, ClientType
  <2> QED BY <2>1, <2>2, <2>3
<1>2. ASSUME NEW p \in Processes, ReadCache(p) PROVE TypeOK'
  <2>1. FetchType'
    BY <1>2, Distinct DEF ReadCache, FetchType, Contents, Verified, Steps, Ended
  <2>2. RaceType'
    BY <1>2 DEF ReadCache, RaceType, FetchType, Jobs
  <2>3. ClientType'
    BY <1>2, IpfsAssumption DEF ReadCache, ClientType
  <2> QED BY <2>1, <2>2, <2>3
<1>3. ASSUME NEW p \in Processes, DownloadDirect(p) PROVE TypeOK'
  <2>1. FetchType'
    BY <1>3, Distinct DEF DownloadDirect, Downloaded, FetchType, Contents, Verified, Steps, Ended
  <2>2. RaceType'
    BY <1>3 DEF DownloadDirect, Downloaded, RaceType, FetchType, Jobs
  <2>3. ClientType'
    BY <1>3, IpfsAssumption DEF DownloadDirect, Downloaded, ClientType
  <2> QED BY <2>1, <2>2, <2>3
<1>4. ASSUME NEW p \in Processes, ListGateways(p) PROVE TypeOK'
  <2>1. FetchType'
    BY <1>4, Distinct DEF ListGateways, DefaultGateways, FetchType, Contents, Verified, Steps, Ended
  <2>2. RaceType'
    <3>1. CASE UNCHANGED race
      BY <3>1 DEF RaceType
    <3>2. CASE pc'[p] = "race"
      <4>1. PICK S \in SUBSET Gateways :
              /\ job' = [job EXCEPT ![p] =
                          [g \in Gateways |-> IF g \in S THEN "running" ELSE "none"]]
              /\ results' = [results EXCEPT ![p] = <<>>]
              /\ due' = [due EXCEPT ![p] = Cardinality(S)]
              /\ over' = [over EXCEPT ![p] = FALSE]
              /\ served' = [served EXCEPT ![p] = <<>>]
        BY <1>4, <3>2 DEF ListGateways, DefaultGateways, FetchType
      <4>2. Cardinality(S) \in Nat
        BY IpfsAssumption, FS_Subset, FS_CardinalityType
      <4>3. [g \in Gateways |-> IF g \in S THEN "running" ELSE "none"] \in [Gateways -> Jobs]
        BY DEF Jobs
      <4>4. RaceType /\ Cardinality(S) \in Int
        BY <4>2
      <4> QED BY ONLY <4>1, <4>3, <4>4, p \in Processes, FreshRace, Zenon
    <3>3. \/ UNCHANGED race
          \/ pc' = [pc EXCEPT ![p] = "race"]
      BY <1>4 DEF ListGateways, DefaultGateways
    <3> QED BY <3>1, <3>2, <3>3 DEF FetchType
  <2>3. ClientType'
    <3>1. list' \in [Processes -> SUBSET Gateways]
      BY <1>4 DEF ListGateways, DefaultGateways, ClientType
    <3> QED BY <1>4, <3>1 DEF ListGateways, DefaultGateways, ClientType
  <2> QED BY <2>1, <2>2, <2>3
<1>5. ASSUME NEW p \in Processes, NEW g \in Gateways, GatewayAnswers(p, g) PROVE TypeOK'
  <2>1. FetchType'
    BY <1>5, Distinct DEF GatewayAnswers, Downloaded, JobHas, FetchType, Contents, Verified, Steps, Ended
  <2>2. RaceType'
    <3>1. PICK answer \in Contents : JobHas(p, g, Downloaded(answer, cid[p]))
      BY <1>5 DEF GatewayAnswers
    <3>2. Downloaded(answer, cid[p]) \in Jobs
      BY DEF Downloaded, FetchType, Jobs, Verified
    <3> QED BY <1>5, <3>1, <3>2 DEF GatewayAnswers, JobHas, RaceType
  <2>3. ClientType'
    BY <1>5, IpfsAssumption DEF GatewayAnswers, Downloaded, JobHas, Contents, Verified, ClientType
  <2> QED BY <2>1, <2>2, <2>3
<1>6. ASSUME NEW p \in Processes, NEW g \in Gateways, JobCancelled(p, g) PROVE TypeOK'
  <2>1. FetchType'
    BY <1>6, Distinct DEF JobCancelled, JobHas, FetchType, Contents, Verified, Steps, Ended
  <2>2. RaceType'
    BY <1>6 DEF JobCancelled, JobHas, Verified, RaceType, FetchType, Jobs
  <2>3. ClientType'
    BY <1>6, IpfsAssumption DEF JobCancelled, JobHas, Verified, ClientType
  <2> QED BY <2>1, <2>2, <2>3
<1>7. ASSUME NEW p \in Processes, NEW g \in Gateways, SendResult(p, g) PROVE TypeOK'
  <2>1. FetchType'
    BY <1>7, Distinct DEF SendResult, JobHas, FetchType, Contents, Verified, Steps, Ended
  <2>2. RaceType'
    <3>1. [gateway |-> g, content |-> job[p][g]] \in [gateway : Gateways, content : Verified]
      BY <1>7 DEF SendResult
    <3>2. results' \in [Processes -> Seq([gateway : Gateways, content : Verified])]
      <4> DEFINE sent == Append(results[p], [gateway |-> g, content |-> job[p][g]])
      <4>1. sent \in Seq([gateway : Gateways, content : Verified])
        BY <3>1, Sent DEF RaceType
      <4>2. results' = [results EXCEPT ![p] = sent]
        BY <1>7 DEF SendResult
      <4> HIDE DEF sent
      <4> QED BY <4>1, <4>2 DEF RaceType
    <3>3. job' \in [Processes -> [Gateways -> Jobs]]
      BY <1>7 DEF SendResult, JobHas, RaceType, Jobs
    <3>4. served' \in [Processes -> Seq(Gateways)]
      BY <1>7 DEF SendResult, RaceType
    <3> QED BY <1>7, <3>2, <3>3, <3>4 DEF SendResult, RaceType
  <2>3. ClientType'
    BY <1>7, IpfsAssumption DEF SendResult, JobHas, Verified, ClientType
  <2> QED BY <2>1, <2>2, <2>3
<1>8. ASSUME NEW p \in Processes, Receive(p) PROVE TypeOK'
  <2> DEFINE r == Head(results[p])
  <2>1. r \in [gateway : Gateways, content : Verified]
    BY <1>8, Received DEF Receive, RaceType
  <2>2. Tail(results[p]) \in Seq([gateway : Gateways, content : Verified])
    BY <1>8, Received DEF Receive, RaceType
  <2>3. r.gateway \in Gateways /\ r.content \in Verified
    BY <2>1
  <2> HIDE DEF r
  <2>4. /\ results' = [results EXCEPT ![p] = Tail(@)]
        /\ due' = [due EXCEPT ![p] = @ - 1]
        /\ over' \in {over, [over EXCEPT ![p] = TRUE]}
        /\ content' \in {content, [content EXCEPT ![p] = r.content]}
        /\ url' \in {url, [url EXCEPT ![p] = r.gateway]}
        /\ \E s \in {"race", "store", "failed"} : pc' = [pc EXCEPT ![p] = s]
        /\ UNCHANGED <<cache, damage, cid, list, job, served, fetches, restarts>>
    <3>1. pc[p] = "race" /\ (pc' = pc => pc' = [pc EXCEPT ![p] = "race"])
      BY <1>8 DEF Receive, FetchType
    <3> QED BY <1>8, <3>1 DEF Receive, Pick, r
  <2>5. pc[p] = "race"
    BY <1>8 DEF Receive
  <2>6. FetchType'
    BY <2>3, <2>4, <2>5 DEF FetchType, Steps, Ended
  <2>7. RaceType'
    <3>1. results' \in [Processes -> Seq([gateway : Gateways, content : Verified])]
      BY <2>2, <2>4 DEF RaceType
    <3>2. due' \in [Processes -> Int]
      BY <2>4 DEF RaceType
    <3>3. over' \in [Processes -> BOOLEAN]
      BY <2>4 DEF RaceType
    <3> QED BY <2>4, <3>1, <3>2, <3>3 DEF RaceType
  <2>8. ClientType'
    BY <2>3, <2>4 DEF ClientType
  <2> QED BY <2>6, <2>7, <2>8
<1>9. ASSUME NEW p \in Processes, RaceTimesOut(p) PROVE TypeOK'
  <2>1. FetchType'
    BY <1>9, Distinct DEF RaceTimesOut, FetchType, Contents, Verified, Steps, Ended
  <2>2. RaceType'
    BY <1>9 DEF RaceTimesOut, RaceType, FetchType, Jobs
  <2>3. ClientType'
    BY <1>9, IpfsAssumption DEF RaceTimesOut, ClientType
  <2> QED BY <2>1, <2>2, <2>3
<1>10. ASSUME NEW p \in Processes, StoreTemp(p) PROVE TypeOK'
  <2>1. FetchType'
    BY <1>10, Distinct DEF StoreTemp, WriteTemp, FetchType, Contents, Verified, Steps, Ended
  <2>2. RaceType'
    BY <1>10 DEF StoreTemp, WriteTemp, RaceType, FetchType, Jobs
  <2>3. ClientType'
    BY <1>10, IpfsAssumption DEF StoreTemp, WriteTemp, ClientType
  <2> QED BY <2>1, <2>2, <2>3
<1>11. ASSUME NEW p \in Processes, Rename(p) PROVE TypeOK'
  <2>1. FetchType'
    BY <1>11, Distinct DEF Rename, FetchType, Contents, Verified, Steps, Ended
  <2>2. RaceType'
    BY <1>11 DEF Rename, RaceType, FetchType, Jobs
  <2>3. ClientType'
    BY <1>11, IpfsAssumption DEF Rename, ClientType
  <2> QED BY <2>1, <2>2, <2>3
<1>12. ASSUME NEW p \in Processes, StoreFails(p) PROVE TypeOK'
  <2>1. FetchType'
    BY <1>12, Distinct DEF StoreFails, FetchType, Contents, Verified, Steps, Ended
  <2>2. RaceType'
    BY <1>12 DEF StoreFails, RaceType, FetchType, Jobs
  <2>3. ClientType'
    BY <1>12, IpfsAssumption DEF StoreFails, ClientType
  <2> QED BY <2>1, <2>2, <2>3
<1>13. ASSUME NEW p \in Processes, Restart(p) PROVE TypeOK'
  <2>1. FetchType'
    BY <1>13, Distinct DEF Restart, FetchType, Contents, Verified, Steps, Ended
  <2>2. RaceType'
    <3>1. NoJobs \in [Gateways -> Jobs]
      BY DEF NoJobs, Jobs
    <3>2. /\ job' = [job EXCEPT ![p] = NoJobs]
          /\ results' = [results EXCEPT ![p] = <<>>]
          /\ due' = [due EXCEPT ![p] = 0]
          /\ over' = [over EXCEPT ![p] = FALSE]
          /\ served' = [served EXCEPT ![p] = <<>>]
      BY <1>13 DEF Restart
    <3>3. RaceType /\ 0 \in Int
      OBVIOUS
    <3> QED BY ONLY <3>1, <3>2, <3>3, p \in Processes, FreshRace, Zenon
  <2>3. ClientType'
    <3>1. Configured[p] \in Gateways \cup {None}
      BY IpfsAssumption
    <3>2. /\ url' = [url EXCEPT ![p] = Configured[p]]
          /\ list' = [list EXCEPT ![p] = {}]
          /\ fetches' = [fetches EXCEPT ![p] = 0]
          /\ restarts' = restarts + 1 /\ damage' = damage
      BY <1>13 DEF Restart
    <3>3. list' \in [Processes -> SUBSET Gateways]
      BY <3>2 DEF ClientType
    <3> QED BY <3>1, <3>2, <3>3 DEF ClientType
  <2> QED BY <2>1, <2>2, <2>3
<1>14. ASSUME NEW c \in Cids, DamageCache(c) PROVE TypeOK'
  <2>1. FetchType'
    BY <1>14, Distinct DEF DamageCache, FetchType, Contents, Verified, Steps, Ended
  <2>2. RaceType'
    BY <1>14 DEF DamageCache, RaceType, FetchType, Jobs
  <2>3. ClientType'
    BY <1>14, IpfsAssumption DEF DamageCache, ClientType
  <2> QED BY <2>1, <2>2, <2>3
<1>15. CASE UNCHANGED vars
  BY <1>15 DEF vars, FetchType, RaceType, ClientType
<1> QED
  BY <1>1, <1>2, <1>3, <1>4, <1>5, <1>6, <1>7, <1>8, <1>9, <1>10, <1>11, <1>12, <1>13, <1>14, <1>15 DEF Next

LEMMA StepIInv == IInv /\ [Next]_vars => Fetched' /\ RaceForCid' /\ CacheWhole'
<1> SUFFICES ASSUME IInv, [Next]_vars PROVE Fetched' /\ RaceForCid' /\ CacheWhole'
  OBVIOUS
<1> USE DEF IInv, TypeOK, Goto, disk, race
<1>1. ASSUME NEW p \in Processes, Fetch(p) PROVE Fetched' /\ RaceForCid' /\ CacheWhole'
  <2>1. Fetched'
    BY <1>1, Distinct DEF Fetch, Fetched, RaceForCid, FetchType, Ended
  <2>2. RaceForCid'
    BY <1>1, Distinct DEF Fetch, RaceForCid, FetchType, RaceType
  <2>3. CacheWhole'
    BY <1>1, Distinct DEF Fetch, CacheWhole, Fetched, FetchType, ClientType
  <2> QED BY <2>1, <2>2, <2>3
<1>2. ASSUME NEW p \in Processes, ReadCache(p) PROVE Fetched' /\ RaceForCid' /\ CacheWhole'
  <2>1. Fetched'
    BY <1>2, Distinct DEF ReadCache, Fetched, RaceForCid, FetchType, Ended
  <2>2. RaceForCid'
    BY <1>2, Distinct DEF ReadCache, RaceForCid, FetchType, RaceType
  <2>3. CacheWhole'
    BY <1>2, Distinct DEF ReadCache, CacheWhole, Fetched, FetchType, ClientType
  <2> QED BY <2>1, <2>2, <2>3
<1>3. ASSUME NEW p \in Processes, DownloadDirect(p) PROVE Fetched' /\ RaceForCid' /\ CacheWhole'
  <2>1. Fetched'
    BY <1>3, Distinct DEF DownloadDirect, Downloaded, Fetched, RaceForCid, FetchType, Ended
  <2>2. RaceForCid'
    BY <1>3, Distinct DEF DownloadDirect, Downloaded, RaceForCid, FetchType, RaceType
  <2>3. CacheWhole'
    BY <1>3, Distinct DEF DownloadDirect, Downloaded, CacheWhole, Fetched, FetchType, ClientType
  <2> QED BY <2>1, <2>2, <2>3
<1>4. ASSUME NEW p \in Processes, ListGateways(p) PROVE Fetched' /\ RaceForCid' /\ CacheWhole'
  <2>1. Fetched'
    BY <1>4, Distinct DEF ListGateways, DefaultGateways, Fetched, RaceForCid, FetchType, Ended
  <2>2. RaceForCid'
    <3>1. CASE UNCHANGED race /\ pc' = [pc EXCEPT ![p] = "failed"]
      BY <1>4, <3>1 DEF ListGateways, DefaultGateways, RaceForCid, FetchType
    <3>2. CASE pc' = [pc EXCEPT ![p] = "race"]
      <4>1. PICK S \in SUBSET Gateways :
              /\ job' = [job EXCEPT ![p] =
                          [g \in Gateways |-> IF g \in S THEN "running" ELSE "none"]]
              /\ results' = [results EXCEPT ![p] = <<>>]
        BY <1>4, <3>2 DEF ListGateways, DefaultGateways, FetchType
      <4>2. \A g \in Gateways : job'[p][g] \in {"running", "none"}
        BY <4>1 DEF RaceType
      <4>3. results'[p] = <<>> /\ Len(results'[p]) = 0
        BY <4>1 DEF RaceType
      <4>4. \A q \in Processes \ {p} :
              job'[q] = job[q] /\ results'[q] = results[q] /\ pc'[q] = pc[q]
        BY <3>2, <4>1 DEF RaceType, FetchType
      <4>5. cid' = cid
        BY <1>4 DEF ListGateways, DefaultGateways
      <4> QED BY <4>2, <4>3, <4>4, <4>5 DEF RaceForCid
    <3> QED BY <1>4, <3>1, <3>2 DEF ListGateways, DefaultGateways
  <2>3. CacheWhole'
    BY <1>4, Distinct DEF ListGateways, DefaultGateways, CacheWhole, Fetched, FetchType, ClientType
  <2> QED BY <2>1, <2>2, <2>3
<1>5. ASSUME NEW p \in Processes, NEW g \in Gateways, GatewayAnswers(p, g) PROVE Fetched' /\ RaceForCid' /\ CacheWhole'
  <2>1. Fetched'
    BY <1>5, Distinct DEF GatewayAnswers, JobHas, Fetched, RaceForCid, FetchType, Ended
  <2>2. RaceForCid'
    <3>1. PICK answer \in Contents : JobHas(p, g, Downloaded(answer, cid[p]))
      BY <1>5 DEF GatewayAnswers
    <3>2. Downloaded(answer, cid[p]) \in {None, cid[p]}
      BY DEF Downloaded
    <3> QED BY <1>5, <3>1, <3>2 DEF GatewayAnswers, JobHas, RaceForCid, RaceType
  <2>3. CacheWhole'
    BY <1>5, Distinct DEF GatewayAnswers, JobHas, CacheWhole, Fetched, FetchType, ClientType
  <2> QED BY <2>1, <2>2, <2>3
<1>6. ASSUME NEW p \in Processes, NEW g \in Gateways, JobCancelled(p, g) PROVE Fetched' /\ RaceForCid' /\ CacheWhole'
  <2>1. Fetched'
    BY <1>6, Distinct DEF JobCancelled, JobHas, Fetched, RaceForCid, FetchType, Ended
  <2>2. RaceForCid'
    BY <1>6, Distinct DEF JobCancelled, JobHas, RaceForCid, FetchType, RaceType
  <2>3. CacheWhole'
    BY <1>6, Distinct DEF JobCancelled, JobHas, CacheWhole, Fetched, FetchType, ClientType
  <2> QED BY <2>1, <2>2, <2>3
<1>7. ASSUME NEW p \in Processes, NEW g \in Gateways, SendResult(p, g) PROVE Fetched' /\ RaceForCid' /\ CacheWhole'
  <2>1. Fetched'
    BY <1>7, Distinct DEF SendResult, JobHas, Fetched, RaceForCid, FetchType, Ended
  <2>2. RaceForCid'
    <3> DEFINE sent == [gateway |-> g, content |-> job[p][g]]
    <3>1. pc[p] = "race" => sent.content \in {None, cid[p]}
      BY <1>7, Distinct DEF SendResult, RaceForCid
    <3>2. sent \in [gateway : Gateways, content : Verified]
      BY <1>7 DEF SendResult
    <3>3. results' = [results EXCEPT ![p] = Append(results[p], sent)]
      BY <1>7 DEF SendResult
    <3> HIDE DEF sent
    <3>4. \A i \in 1..Len(results'[p]) :
            results'[p][i] = IF i \in 1..Len(results[p]) THEN results[p][i] ELSE sent
      BY <3>2, <3>3, Sent DEF RaceType
    <3>5. \A q \in Processes \ {p} : results'[q] = results[q]
      BY <3>3 DEF RaceType
    <3>6. \A q \in Processes, h \in Gateways : job'[q][h] \in {job[q][h], "ended"}
      BY <1>7 DEF SendResult, JobHas, RaceType
    <3>7. cid' = cid /\ pc' = pc
      BY <1>7 DEF SendResult
    <3> QED BY <3>1, <3>4, <3>5, <3>6, <3>7 DEF RaceForCid
  <2>3. CacheWhole'
    BY <1>7, Distinct DEF SendResult, JobHas, CacheWhole, Fetched, FetchType, ClientType
  <2> QED BY <2>1, <2>2, <2>3
<1>8. ASSUME NEW p \in Processes, Receive(p) PROVE Fetched' /\ RaceForCid' /\ CacheWhole'
  <2>1. Fetched'
    BY <1>8, Distinct DEF Receive, GiveUp, Pick, Fetched, RaceForCid, FetchType, Ended
  <2>2. RaceForCid'
    BY <1>8, Distinct DEF Receive, GiveUp, Pick, RaceForCid, FetchType, RaceType
  <2>3. CacheWhole'
    BY <1>8, Distinct DEF Receive, GiveUp, Pick, CacheWhole, Fetched, FetchType, ClientType
  <2> QED BY <2>1, <2>2, <2>3
<1>9. ASSUME NEW p \in Processes, RaceTimesOut(p) PROVE Fetched' /\ RaceForCid' /\ CacheWhole'
  <2>1. Fetched'
    BY <1>9, Distinct DEF RaceTimesOut, Fetched, RaceForCid, FetchType, Ended
  <2>2. RaceForCid'
    BY <1>9, Distinct DEF RaceTimesOut, RaceForCid, FetchType, RaceType
  <2>3. CacheWhole'
    BY <1>9, Distinct DEF RaceTimesOut, CacheWhole, Fetched, FetchType, ClientType
  <2> QED BY <2>1, <2>2, <2>3
<1>10. ASSUME NEW p \in Processes, StoreTemp(p) PROVE Fetched' /\ RaceForCid' /\ CacheWhole'
  <2>1. Fetched'
    BY <1>10, Distinct DEF StoreTemp, WriteTemp, Fetched, RaceForCid, FetchType, Ended
  <2>2. RaceForCid'
    BY <1>10, Distinct DEF StoreTemp, WriteTemp, RaceForCid, FetchType, RaceType
  <2>3. CacheWhole'
    BY <1>10, Distinct DEF StoreTemp, WriteTemp, CacheWhole, Fetched, FetchType, ClientType
  <2> QED BY <2>1, <2>2, <2>3
<1>11. ASSUME NEW p \in Processes, Rename(p) PROVE Fetched' /\ RaceForCid' /\ CacheWhole'
  <2>1. Fetched'
    BY <1>11, Distinct DEF Rename, Fetched, RaceForCid, FetchType, Ended
  <2>2. RaceForCid'
    BY <1>11, Distinct DEF Rename, RaceForCid, FetchType, RaceType
  <2>3. CacheWhole'
    BY <1>11, Distinct DEF Rename, CacheWhole, Fetched, FetchType, ClientType
  <2> QED BY <2>1, <2>2, <2>3
<1>12. ASSUME NEW p \in Processes, StoreFails(p) PROVE Fetched' /\ RaceForCid' /\ CacheWhole'
  <2>1. Fetched'
    BY <1>12, Distinct DEF StoreFails, Fetched, RaceForCid, FetchType, Ended
  <2>2. RaceForCid'
    BY <1>12, Distinct DEF StoreFails, RaceForCid, FetchType, RaceType
  <2>3. CacheWhole'
    BY <1>12, Distinct DEF StoreFails, CacheWhole, Fetched, FetchType, ClientType
  <2> QED BY <2>1, <2>2, <2>3
<1>13. ASSUME NEW p \in Processes, Restart(p) PROVE Fetched' /\ RaceForCid' /\ CacheWhole'
  <2>1. Fetched'
    BY <1>13, Distinct DEF Restart, Fetched, RaceForCid, FetchType, Ended
  <2>2. RaceForCid'
    BY <1>13, Distinct DEF Restart, RaceForCid, FetchType, RaceType
  <2>3. CacheWhole'
    BY <1>13, Distinct DEF Restart, CacheWhole, Fetched, FetchType, ClientType
  <2> QED BY <2>1, <2>2, <2>3
<1>14. ASSUME NEW c \in Cids, DamageCache(c) PROVE Fetched' /\ RaceForCid' /\ CacheWhole'
  <2>1. Fetched'
    BY <1>14, Distinct DEF DamageCache, Fetched, RaceForCid, FetchType, Ended
  <2>2. RaceForCid'
    BY <1>14, Distinct DEF DamageCache, RaceForCid, FetchType, RaceType
  <2>3. CacheWhole'
    BY <1>14, Distinct DEF DamageCache, CacheWhole, Fetched, FetchType, ClientType
  <2> QED BY <2>1, <2>2, <2>3
<1>15. CASE UNCHANGED vars
  BY <1>15 DEF vars, Fetched, RaceForCid, CacheWhole
<1> QED
  BY <1>1, <1>2, <1>3, <1>4, <1>5, <1>6, <1>7, <1>8, <1>9, <1>10, <1>11, <1>12, <1>13, <1>14, <1>15 DEF Next

\* Processes only handle content that was verified (client.go:81, 192).
THEOREM TypeCorrect == Spec => []TypeOK
<1>1. Init => TypeOK
  BY InitIInv DEF IInv
<1> QED BY <1>1, StepType, PTL DEF Spec

\* The invariant that both of the next theorems rest on.
THEOREM Inductive == Spec => []IInv
<1>1. IInv /\ [Next]_vars => IInv'
  BY StepType, StepIInv DEF IInv
<1> QED BY InitIInv, <1>1, PTL DEF Spec

\* A fetch returns what its CID addresses, whatever gateways and the cache give it
\* (Fetch, client.go:60).
THEOREM FetchAuthentic == Spec => []Authentic
<1>1. IInv => Authentic
  BY DEF IInv, Fetched, Authentic
<1> QED BY Inductive, <1>1, PTL

\* Processes that are killed or store at once leave the cache whole (store,
\* client.go:90).
THEOREM CacheStaysWhole == Spec => []CacheWhole
<1>1. IInv => CacheWhole
  BY DEF IInv
<1> QED BY Inductive, <1>1, PTL
-----------------------------------------------------------------------------
(* Which gateway a process goes on with *)

\* The requests of a race whose results are yet to be sent.
Active(p) == {g \in Gateways : job[p][g] \in {"running"} \cup Verified}

\* The first result of the channel with content is of the gateway that served
\* the content first.
FirstResult(p) ==
  IF served[p] = <<>>
  THEN \A i \in 1 .. Len(results[p]) : results[p][i].content = None
  ELSE \E i \in 1 .. Len(results[p]) :
         /\ results[p][i].content # None /\ results[p][i].gateway = Head(served[p])
         /\ \A j \in 1 .. Len(results[p]) : j < i => results[p][j].content = None

\* Until a gateway is picked, nothing is left of an earlier race, and from then on
\* there is no other; the race waits for as many results as are yet to come.
Racing(p) ==
  /\ Configured[p] # None => url[p] # None
  /\ Configured[p] = None =>
       /\ url[p] = None /\ pc[p] # "race" => Active(p) = {} /\ results[p] = <<>> /\ served[p] = <<>>
       /\ url[p] # None => pc[p] \notin {"race", "list"} /\ served[p] # <<>> /\ url[p] = Head(served[p])
       /\ pc[p] = "race" => due[p] = Cardinality(Active(p)) + Len(results[p]) /\ FirstResult(p)

FirstPicked == \A p \in Processes : Racing(p)

\* A process whose race a step leaves alone, unless it begins or ends there.
LEMMA SameRace ==
  ASSUME NEW p \in Processes, Racing(p),
         UNCHANGED <<job[p], results[p], due[p], served[p], url[p]>>,
         \/ pc'[p] = pc[p]
         \/ pc[p] # "race" /\ pc'[p] # "race" /\ (pc'[p] = "list" => url[p] = None)
  PROVE  Racing(p)'
BY DEF Racing, Active, FirstResult

LEMMA ActiveFinite ==
  ASSUME NEW p \in Processes
  PROVE  IsFiniteSet(Active(p)) /\ Cardinality(Active(p)) \in Nat
<1>1. Active(p) \in SUBSET Gateways
  BY DEF Active
<1> QED BY <1>1, IpfsAssumption, FS_Subset, FS_CardinalityType

\* A race starts with a request to each gateway of the list.
LEMMA ListRacing ==
  ASSUME TypeOK, FirstPicked, NEW p \in Processes, ListGateways(p)
  PROVE  FirstPicked'
<1>1. /\ pc \in [Processes -> Steps] /\ url[p] = url'[p]
      /\ \A q \in Processes \ {p} :
           UNCHANGED <<job[q], results[q], due[q], served[q], url[q], pc[q]>>
  BY DEF ListGateways, TypeOK, FetchType, RaceType, ClientType, Goto, race
<1>2. \A q \in Processes \ {p} : Racing(q)'
  BY <1>1, SameRace DEF FirstPicked
<1>3. pc[p] = "list"
  BY DEF ListGateways
<1>4. CASE UNCHANGED race /\ Goto(p, "failed")
  BY <1>1, <1>2, <1>3, <1>4, SameRace DEF FirstPicked, Goto, race
<1>5. CASE \E S \in SUBSET Gateways :
              /\ job' = [job EXCEPT ![p] = [g \in Gateways |-> IF g \in S THEN "running" ELSE "none"]]
              /\ results' = [results EXCEPT ![p] = <<>>]
              /\ due' = [due EXCEPT ![p] = Cardinality(S)]
              /\ served' = [served EXCEPT ![p] = <<>>]
              /\ Goto(p, "race")
  <2>1. PICK S \in SUBSET Gateways :
          /\ job'[p] = [g \in Gateways |-> IF g \in S THEN "running" ELSE "none"]
          /\ results'[p] = <<>> /\ due'[p] = Cardinality(S) /\ served'[p] = <<>>
          /\ pc'[p] = "race"
    BY <1>1, <1>5 DEF TypeOK, RaceType, Goto
  <2>2. Active(p)' = S
    BY <2>1, Distinct DEF Active
  <2>3. IsFiniteSet(S) /\ Cardinality(S) \in Nat
    BY IpfsAssumption, FS_Subset, FS_CardinalityType
  <2>4. due'[p] = Cardinality(Active(p)') + Len(results'[p])
    BY <2>1, <2>2, <2>3
  <2>5. FirstResult(p)'
    BY <2>1 DEF FirstResult
  <2>6. Configured[p] = None => url[p] = None
    BY <1>3 DEF FirstPicked, Racing
  <2>7. Racing(p)'
    BY <1>1, <2>1, <2>4, <2>5, <2>6 DEF Racing, FirstPicked
  <2> QED BY <1>2, <2>7 DEF FirstPicked
<1> QED BY <1>4, <1>5 DEF ListGateways

\* An answer leaves its request among those whose results are yet to be sent.
LEMMA AnswerRacing ==
  ASSUME TypeOK, FirstPicked, NEW p \in Processes, NEW g \in Gateways,
         GatewayAnswers(p, g) \/ JobCancelled(p, g)
  PROVE  FirstPicked'
<1>1. UNCHANGED <<pc, url, results, due, served>> /\ job[p][g] = "running"
  BY DEF GatewayAnswers, JobCancelled
<1>2. PICK result \in Verified : job' = [job EXCEPT ![p][g] = result]
  <2>1. \A answer \in Contents : Downloaded(answer, cid[p]) \in Verified
    BY DEF Downloaded, TypeOK, FetchType, Verified
  <2>2. None \in Verified
    BY DEF Verified
  <2> QED BY <2>1, <2>2 DEF GatewayAnswers, JobCancelled, JobHas
<1>3. \A q \in Processes : Active(q)' = Active(q)
  BY <1>1, <1>2 DEF Active, TypeOK, RaceType
<1> QED BY <1>1, <1>3 DEF FirstPicked, Racing, FirstResult

\* A result that is sent is one less to be sent; it is the first with content in the
\* channel only if no other was served.
LEMMA SendRacing ==
  ASSUME TypeOK, FirstPicked, NEW p \in Processes, NEW g \in Gateways, SendResult(p, g)
  PROVE  FirstPicked'
<1> DEFINE sent == [gateway |-> g, content |-> job[p][g]]
<1>1. /\ UNCHANGED <<pc, url, due>> /\ job[p][g] \in Verified
      /\ sent \in [gateway : Gateways, content : Verified]
      /\ sent.gateway = g /\ sent.content = job[p][g]
  BY DEF SendResult
<1>2. /\ results \in [Processes -> Seq([gateway : Gateways, content : Verified])]
      /\ served \in [Processes -> Seq(Gateways)]
      /\ job \in [Processes -> [Gateways -> Jobs]]
  BY DEF TypeOK, RaceType
<1>3. /\ results'[p] = Append(results[p], sent)
      /\ served'[p] = (IF sent.content = None THEN served[p] ELSE Append(served[p], g))
      /\ job'[p] = [job[p] EXCEPT ![g] = "ended"]
      /\ \A q \in Processes \ {p} : UNCHANGED <<results[q], served[q], job[q]>>
  BY <1>2 DEF SendResult, JobHas
<1> HIDE DEF sent
<1>4. \A q \in Processes \ {p} : Racing(q)'
  BY <1>1, <1>3, SameRace DEF FirstPicked
<1>5. g \in Active(p) /\ Active(p)' = Active(p) \ {g}
  BY <1>1, <1>2, <1>3, Distinct DEF Active
<1>6. /\ Len(results'[p]) = Len(results[p]) + 1 /\ Len(results[p]) \in Nat
      /\ \A i \in 1 .. Len(results[p]) + 1 :
           results'[p][i] = IF i \in 1 .. Len(results[p]) THEN results[p][i] ELSE sent
  BY <1>1, <1>2, <1>3, Sent
<1>7. served[p] # <<>> => served'[p] # <<>> /\ Head(served'[p]) = Head(served[p])
  BY <1>2, <1>3
<1>8. ASSUME Configured[p] # None PROVE Racing(p)'
  BY <1>1, <1>8 DEF Racing, FirstPicked
<1>9. ASSUME Configured[p] = None, url[p] # None PROVE Racing(p)'
  BY <1>1, <1>7, <1>9 DEF Racing, FirstPicked
<1>10. ASSUME Configured[p] = None /\ url[p] = None PROVE Racing(p)'
  <2>1. pc[p] = "race"
    BY <1>5, <1>10 DEF Racing, FirstPicked
  <2>2. due[p] = Cardinality(Active(p)) + Len(results[p]) /\ FirstResult(p)
    BY <1>10, <2>1 DEF Racing, FirstPicked
  <2>3. Cardinality(Active(p)') = Cardinality(Active(p)) - 1 /\ Cardinality(Active(p)) \in Nat
    BY <1>5, ActiveFinite, FS_RemoveElement
  <2>4. due'[p] = Cardinality(Active(p)') + Len(results'[p])
    BY <1>1, <1>6, <2>2, <2>3
  <2>5. FirstResult(p)'
    <3>1. CASE served[p] = <<>> /\ sent.content = None
      <4>1. served'[p] = <<>>
        BY <1>3, <3>1
      <4>2. \A i \in 1 .. Len(results[p]) + 1 : results'[p][i].content = None
        BY <1>6, <2>2, <3>1 DEF FirstResult
      <4> QED BY <1>6, <4>1, <4>2 DEF FirstResult
    <3>2. CASE served[p] = <<>> /\ sent.content # None
      <4>1. served'[p] # <<>> /\ Head(served'[p]) = g
        BY <1>3, <3>2
      <4>2. \A j \in 1 .. Len(results[p]) + 1 :
              j < Len(results[p]) + 1 => results'[p][j].content = None
        BY <1>6, <2>2, <3>2 DEF FirstResult
      <4>3. Len(results[p]) + 1 \in 1 .. Len(results[p]) + 1 /\ results'[p][Len(results[p]) + 1] = sent
        BY <1>6
      <4> QED BY <1>1, <1>6, <3>2, <4>1, <4>2, <4>3 DEF FirstResult
    <3>3. CASE served[p] # <<>>
      <4>1. PICK i \in 1 .. Len(results[p]) :
              /\ results[p][i].content # None /\ results[p][i].gateway = Head(served[p])
              /\ \A j \in 1 .. Len(results[p]) : j < i => results[p][j].content = None
        BY <2>2, <3>3 DEF FirstResult
      <4>2. i \in 1 .. Len(results[p]) + 1 /\ results'[p][i] = results[p][i]
        BY <1>6
      <4>3. \A j \in 1 .. Len(results[p]) + 1 : j < i => results'[p][j].content = None
        BY <1>6, <4>1
      <4> QED BY <1>6, <1>7, <3>3, <4>1, <4>2, <4>3 DEF FirstResult
    <3> QED BY <3>1, <3>2, <3>3
  <2> QED BY <1>1, <1>10, <2>1, <2>4, <2>5 DEF Racing
<1> QED BY <1>4, <1>8, <1>9, <1>10 DEF FirstPicked

\* The result that ends the race is the first with content, or the last of all
\* and none had any.
LEMMA ReceiveRacing ==
  ASSUME TypeOK, FirstPicked, NEW p \in Processes, Receive(p)
  PROVE  FirstPicked'
<1> DEFINE r == Head(results[p])
<1>1. /\ results \in [Processes -> Seq([gateway : Gateways, content : Verified])]
      /\ results[p] # <<>> /\ pc[p] = "race" /\ due \in [Processes -> Int]
      /\ url \in [Processes -> Gateways \cup {None}] /\ pc \in [Processes -> Steps]
  BY DEF Receive, TypeOK, FetchType, RaceType, ClientType
<1>2. /\ r = results[p][1] /\ 1 \in 1 .. Len(results[p]) /\ r.gateway \in Gateways
      /\ Len(Tail(results[p])) = Len(results[p]) - 1 /\ Len(results[p]) \in Nat
      /\ \A i \in 1 .. Len(Tail(results[p])) :
           Tail(results[p])[i] = results[p][i + 1] /\ i + 1 \in 1 .. Len(results[p])
  <2> DEFINE S == [gateway : Gateways, content : Verified]
  <2>1. r \in S => r.gateway \in Gateways
    OBVIOUS
  <2>2. results[p] \in Seq(S) /\ results[p] # <<>>
    BY <1>1
  <2> HIDE DEF S
  <2>3. /\ r \in S /\ r = results[p][1] /\ 1 \in 1 .. Len(results[p])
        /\ Tail(results[p]) \in Seq(S) /\ Len(Tail(results[p])) = Len(results[p]) - 1
        /\ \A i \in 1 .. Len(Tail(results[p])) :
             Tail(results[p])[i] = results[p][i + 1] /\ i + 1 \in 1 .. Len(results[p])
    BY <2>2, Received
  <2>4. Len(results[p]) \in Nat
    BY <2>2, LenProperties
  <2> QED BY <2>1, <2>3, <2>4
<1> HIDE DEF r
<1>3. /\ results'[p] = Tail(results[p]) /\ due'[p] = due[p] - 1 /\ UNCHANGED <<job, served>>
      /\ \/ r.content # None /\ url'[p] = r.gateway /\ pc'[p] = "store"
         \/ r.content = None /\ due[p] = 1 /\ UNCHANGED url /\ pc'[p] = "failed"
         \/ r.content = None /\ UNCHANGED <<url, pc>>
      /\ \A q \in Processes \ {p} : UNCHANGED <<results[q], due[q], url[q], pc[q]>>
  BY <1>1 DEF Receive, Pick, GiveUp, Goto, r
<1>4. \A q \in Processes \ {p} : Racing(q)'
  BY <1>3, SameRace DEF FirstPicked
<1>5. ASSUME Configured[p] # None PROVE Racing(p)'
  BY <1>2, <1>3, <1>5, IpfsAssumption DEF Racing, FirstPicked
<1>6. ASSUME Configured[p] = None PROVE Racing(p)'
  <2>1. url[p] = None /\ due[p] = Cardinality(Active(p)) + Len(results[p]) /\ FirstResult(p)
    BY <1>1, <1>6 DEF Racing, FirstPicked
  <2>2. Active(p)' = Active(p) /\ Cardinality(Active(p)) \in Nat
    BY <1>3, ActiveFinite DEF Active
  <2>3. r.content # None => served[p] # <<>> /\ r.gateway = Head(served[p])
    BY <1>2, <2>1 DEF FirstResult
  <2>4. r.content = None => FirstResult(p)'
    <3> SUFFICES ASSUME r.content = None PROVE FirstResult(p)'
      OBVIOUS
    <3>1. CASE served[p] = <<>>
      BY <1>2, <1>3, <2>1, <3>1 DEF FirstResult
    <3>2. CASE served[p] # <<>>
      <4>1. PICK i \in 1 .. Len(results[p]) :
              /\ results[p][i].content # None /\ results[p][i].gateway = Head(served[p])
              /\ \A j \in 1 .. Len(results[p]) : j < i => results[p][j].content = None
        BY <2>1, <3>2 DEF FirstResult
      <4>2. PICK k \in 1 .. Len(results'[p]) : i = k + 1
        <5>1. i # 1
          BY <1>2, <4>1
        <5>2. i - 1 \in 1 .. Len(results'[p]) /\ i = i - 1 + 1
          BY <1>2, <1>3, <5>1
        <5> QED BY <5>2
      <4>3. results'[p][k] = results[p][i]
        BY <1>2, <1>3, <4>2
      <4>4. \A j \in 1 .. Len(results'[p]) : j < k => results'[p][j].content = None
        BY <1>2, <1>3, <4>1, <4>2
      <4> QED BY <1>3, <3>2, <4>1, <4>3, <4>4 DEF FirstResult
    <3> QED BY <3>1, <3>2
  <2>5. CASE r.content # None
    BY <1>2, <1>3, <1>6, <2>3, <2>5, IpfsAssumption DEF Racing
  <2>6. CASE r.content = None /\ due[p] = 1 /\ UNCHANGED url /\ pc'[p] = "failed"
    <3> DEFINE n == Len(results[p])
               k == Cardinality(Active(p))
    <3>0. 1 = k + n /\ n \in Nat /\ k \in Nat /\ 1 \in 1 .. n
      BY <1>2, <2>1, <2>2, <2>6
    <3> HIDE DEF n, k
    <3>1. n = 1 /\ k = 0
      BY <3>0
    <3>2. Active(p) = {} /\ results'[p] = <<>>
      <4>1. Len(results'[p]) = 0
        BY <1>2, <1>3, <3>1 DEF n
      <4>2. results'[p] \in Seq([gateway : Gateways, content : Verified])
        <5> DEFINE S == [gateway : Gateways, content : Verified]
        <5>1. results[p] \in Seq(S) /\ results[p] # <<>> /\ results'[p] = Tail(results[p])
          BY <1>1, <1>3
        <5> HIDE DEF S
        <5>2. results'[p] \in Seq(S)
          BY <5>1, Received
        <5> QED BY <5>2 DEF S
      <4>3. results'[p] = <<>>
        BY <4>1, <4>2, EmptySeq
      <4> QED BY <3>1, <4>3, ActiveFinite, FS_EmptySet DEF k
    <3>3. served'[p] = <<>>
      <4>1. results[p][1].content = None /\ \A i \in 1 .. Len(results[p]) : i = 1
        BY <1>2, <2>6, <3>1 DEF n
      <4> QED BY <1>3, <2>1, <4>1 DEF FirstResult
    <3> QED BY <1>6, <2>1, <2>2, <2>6, <3>2, <3>3 DEF Racing
  <2>7. CASE r.content = None /\ UNCHANGED <<url, pc>>
    <3>1. due'[p] = Cardinality(Active(p)') + Len(results'[p])
      BY <1>2, <1>3, <2>1, <2>2
    <3> QED BY <1>1, <1>6, <2>1, <2>4, <2>7, <3>1 DEF Racing
  <2> QED BY <1>3, <2>5, <2>6, <2>7
<1> QED BY <1>4, <1>5, <1>6 DEF FirstPicked

\* Nothing is left of the race of a process that has ended.
LEMMA RestartRacing ==
  ASSUME TypeOK, FirstPicked, NEW p \in Processes, Restart(p)
  PROVE  FirstPicked'
<1>1. /\ job'[p] = NoJobs /\ results'[p] = <<>> /\ served'[p] = <<>>
      /\ url'[p] = Configured[p] /\ pc'[p] = "idle"
      /\ \A q \in Processes \ {p} :
           UNCHANGED <<job[q], results[q], due[q], served[q], url[q], pc[q]>>
  BY DEF Restart, Goto, TypeOK, FetchType, RaceType, ClientType
<1>2. Active(p)' = {}
  BY <1>1, Distinct DEF Active, NoJobs
<1>3. Racing(p)'
  BY <1>1, <1>2 DEF Racing
<1> QED BY <1>1, <1>3, SameRace DEF FirstPicked

LEMMA StepRacing == TypeOK /\ FirstPicked /\ [Next]_vars => FirstPicked'
<1> SUFFICES ASSUME TypeOK, FirstPicked, [Next]_vars PROVE FirstPicked'
  OBVIOUS
<1>1. ASSUME NEW p \in Processes,
             Fetch(p) \/ ReadCache(p) \/ DownloadDirect(p) \/ RaceTimesOut(p)
             \/ StoreTemp(p) \/ Rename(p) \/ StoreFails(p)
      PROVE  FirstPicked'
  <2>1. pc \in [Processes -> Steps]
    BY DEF TypeOK, FetchType
  <2>2. /\ UNCHANGED <<job, results, due, served, url>>
        /\ \A q \in Processes :
             \/ pc'[q] = pc[q]
             \/ pc[q] # "race" /\ pc'[q] # "race" /\ (pc'[q] = "list" => url[q] = None)
    <3>1. CASE Fetch(p)
      BY <2>1, <3>1 DEF Fetch, Goto, Ended, race
    <3>2. CASE ReadCache(p)
      BY <2>1, <3>2 DEF ReadCache, Goto, race
    <3>3. CASE DownloadDirect(p)
      BY <2>1, <3>3 DEF DownloadDirect, Goto, race
    <3>4. CASE RaceTimesOut(p)
      BY <3>4 DEF RaceTimesOut
    <3>5. CASE StoreTemp(p) \/ Rename(p) \/ StoreFails(p)
      BY <2>1, <3>5 DEF StoreTemp, Rename, StoreFails, Goto, race
    <3> QED BY <1>1, <3>1, <3>2, <3>3, <3>4, <3>5
  <2> QED BY <2>2, SameRace DEF FirstPicked
<1>2. CASE (\E c \in Cids : DamageCache(c)) \/ UNCHANGED vars
  <2>1. UNCHANGED <<job, results, due, served, url, pc>>
    BY <1>2 DEF DamageCache, race, vars
  <2> QED BY <2>1, SameRace DEF FirstPicked
<1> QED
  BY <1>1, <1>2, ListRacing, AnswerRacing, SendRacing, ReceiveRacing, RestartRacing DEF Next

\* However many gateways race, and however their answers, the race's end, and the
\* next fetches interleave, a process goes on with the gateway that was the first
\* to serve the content, and fails only if none did.
THEOREM PicksFirst == Spec => []FirstThatServes
<1>1. Init => FirstPicked
  <2> SUFFICES ASSUME Init, NEW p \in Processes PROVE Racing(p)
    BY DEF FirstPicked
  <2>1. Active(p) = {}
    BY Distinct DEF Init, Active, NoJobs
  <2>2. url[p] = Configured[p] /\ pc[p] = "idle" /\ results[p] = <<>> /\ served[p] = <<>>
    BY DEF Init
  <2> QED BY <2>1, <2>2 DEF Racing
<1>2. FirstPicked => FirstThatServes
  BY DEF FirstPicked, Racing, FirstThatServes
<1> QED BY <1>1, <1>2, StepRacing, TypeCorrect, PTL DEF Spec
=============================================================================
