--------------------------- MODULE NetworkProofs ---------------------------
(* Proofs about Network. Of RpcConnections: clients are of the right chain,  *)
(* and are shared, as is the list, and no chain is given up before all of    *)
(* its nodes. Of RetryTransport: however often a request is retried,         *)
(* whatever the servers ask for, and wherever it ends, no response is left   *)
(* open but the one that the caller gets, which is the last, and it is       *)
(* retried when and as long as it should be.                                 *)
EXTENDS Network, OrdersProofs

-----------------------------------------------------------------------------
(* Connections *)

Fields == {"step", "ctx", "left", "refused", "answer"}

\* What the values are doesn't matter to the proofs, only that they are there.
Shape ==
  /\ chain \in [Callers -> Chains]
  /\ DOMAIN got = Callers
  /\ DOMAIN conn = Chains
  /\ \A h \in Chains : DOMAIN conn[h] = Fields

\* A connection has an answer only when it is done, and a node as its answer
\* serves its chain.
Connections ==
  \A h \in Chains :
    /\ conn[h].answer # "none" => conn[h].step = "done"
    /\ conn[h].answer \in Nodes => Serves[conn[h].answer] = h

\* Callers have the answer of their connection.
Received ==
  \A c \in Callers :
    Answered(c) => conn[chain[c]].step = "done" /\ got[c] = conn[chain[c]].answer

\* One connection holds the mutex, which downloads the list if it isn't there.
Mutex ==
  /\ lock \subseteq Chains
  /\ \A h \in Chains : conn[h].step = "download" <=> h \in lock
  /\ \A g, h \in lock : g = h
  /\ list \in BOOLEAN /\ (list => lock = {})
  /\ downloads = IF list THEN 1 ELSE 0

Dialing == Shape /\ Connections /\ Received /\ Mutex

-----------------------------------------------------------------------------

\* A step that changes the connection of one chain, which isn't done, so that no
\* caller has its answer.
LEMMA OneConnection ==
  ASSUME Shape, Connections, Received, UNCHANGED <<chain, got>>,
         NEW h \in Chains, conn[h].step # "done",
         DOMAIN conn' = Chains, DOMAIN conn'[h] = Fields,
         \A g \in Chains \ {h} : conn'[g] = conn[g],
         conn'[h].answer # "none" => conn'[h].step = "done",
         conn'[h].answer \in Nodes => Serves[conn'[h].answer] = h
  PROVE  Shape' /\ Connections' /\ Received'
<1>1. Shape'
  BY DEF Shape
<1>2. Connections'
  BY DEF Connections
<1>3. Received'
  BY DEF Received, Answered, Shape
<1> QED BY <1>1, <1>2, <1>3

\* The mutex stays with the connections that download.
LEMMA MutexKept ==
  ASSUME Mutex, UNCHANGED <<lock, list, downloads>>,
         \A g \in Chains : conn'[g].step = "download" <=> conn[g].step = "download"
  PROVE  Mutex'
  BY DEF Mutex

LEMMA DialingInitially == Init => Dialing
<1> SUFFICES ASSUME Init PROVE Dialing
  OBVIOUS
<1>1. chain \in [Callers -> Chains]
  BY ConnectionsAssumption DEF Init
<1>2. \A h \in Chains : conn[h] = Absent
  BY DEF Init
<1>3. Shape
  BY <1>1, <1>2 DEF Init, Shape, Absent, Fields
<1>4. Connections
  <2>1. "none" \notin Nodes
    BY ConnectionsAssumption
  <2>2. Absent.answer = "none"
    BY DEF Absent
  <2> QED BY <1>2, <2>1, <2>2 DEF Connections
<1>5. Received
  BY DEF Init, Received, Answered
<1>6. Mutex
  BY <1>2 DEF Init, Mutex, Absent
<1> QED BY <1>3, <1>4, <1>5, <1>6 DEF Dialing

LEMMA DialKeeps ==
  ASSUME Dialing, NEW c \in Callers, Dial(c)
  PROVE  Dialing'
<1> DEFINE h == chain[c]
<1>1. h \in Chains
  BY DEF Dialing, Shape
<1>2. /\ DOMAIN got' = Callers
      /\ got'[c] = "waits"
      /\ \A d \in Callers \ {c} : got'[d] = got[d]
      /\ UNCHANGED <<chain, lock, list, downloads>>
  BY DEF Dialing, Shape, Dial
<1>3. CASE New(h)
  <2>1. conn' = [conn EXCEPT ![h] = [Absent EXCEPT !.step = "made", !.ctx = c]]
    BY <1>3 DEF Dial
  <2>2. /\ DOMAIN conn' = Chains
        /\ DOMAIN conn'[h] = Fields
        /\ conn'[h].step = "made" /\ conn'[h].answer = "none"
        /\ \A g \in Chains \ {h} : conn'[g] = conn[g]
    BY <1>1, <2>1 DEF Dialing, Shape, Absent, Fields
  <2>3. conn[h].step = "absent"
    BY <1>3 DEF New
  <2>4. Shape' /\ Connections'
    BY <1>1, <1>2, <2>2, ConnectionsAssumption DEF Dialing, Shape, Connections
  <2>5. Received'
    BY <1>2, <2>2, <2>3 DEF Dialing, Shape, Received, Answered
  <2>6. Mutex'
    BY <1>2, <2>2, <2>3, MutexKept DEF Dialing
  <2> QED BY <2>4, <2>5, <2>6 DEF Dialing
<1>4. CASE ~New(h)
  <2>1. UNCHANGED conn
    BY <1>4 DEF Dial
  <2> QED BY <1>2, <2>1 DEF Dialing, Shape, Connections, Received, Answered, Mutex
<1> QED BY <1>3, <1>4

LEMMA ReturnKeeps ==
  ASSUME Dialing, NEW c \in Callers, Return(c)
  PROVE  Dialing'
<1>1. /\ DOMAIN got' = Callers
      /\ got'[c] = conn[chain[c]].answer /\ conn[chain[c]].step = "done"
      /\ \A d \in Callers \ {c} : got'[d] = got[d]
      /\ UNCHANGED <<chain, conn, lock, list, downloads>>
  BY DEF Dialing, Shape, Return, Answer
<1> QED BY <1>1 DEF Dialing, Shape, Connections, Received, Answered, Mutex

LEMMA RefuseKeeps ==
  ASSUME Dialing, NEW h \in Chains, conn[h].step = "try", Refuse(h)
  PROVE  Dialing'
<1>1. /\ DOMAIN conn' = Chains /\ DOMAIN conn'[h] = Fields
      /\ \A g \in Chains \ {h} : conn'[g] = conn[g]
      /\ conn'[h].step \in {"done", "try"}
      /\ conn'[h].answer \in {"none", "cancelled", "error"}
      /\ conn'[h].answer # "none" => conn'[h].step = "done"
      /\ UNCHANGED <<chain, got, lock, list, downloads>>
  BY DEF Dialing, Shape, Refuse, Fields
<1>2. Shape' /\ Connections' /\ Received'
  BY <1>1, OneConnection, ConnectionsAssumption DEF Dialing
<1>3. Mutex'
  BY <1>1, MutexKept DEF Dialing
<1> QED BY <1>2, <1>3 DEF Dialing

\* A node that replies to the request for its chain's ID is of that chain.
LEMMA AnswersForChain ==
  ASSUME NEW h \in Chains, NEW n, NEW reply \in Replies(n), Possible(n, reply), ExpectedChain(h, reply)
  PROVE  Serves[n] = h
  BY ConnectionsAssumption DEF Possible, ExpectedChain, RawRequest, NoAnswer

LEMMA AnswersKeeps ==
  ASSUME Dialing, NEW h \in Chains, Answers(h)
  PROVE  Dialing'
<1> DEFINE n == Head(conn[h].left)
<1>1. /\ DOMAIN conn' = Chains /\ DOMAIN conn'[h] = Fields
      /\ \A g \in Chains \ {h} : conn'[g] = conn[g]
      /\ conn[h].step = "try" /\ conn'[h].step = "done" /\ conn'[h].answer = n
      /\ UNCHANGED <<chain, got, lock, list, downloads>>
  BY DEF Dialing, Shape, Answers, Fields
<1>2. Serves[n] = h
  BY AnswersForChain DEF Answers
<1>3. Shape' /\ Connections' /\ Received'
  BY <1>1, <1>2, OneConnection DEF Dialing
<1>4. Mutex'
  BY <1>1, MutexKept DEF Dialing
<1> QED BY <1>3, <1>4 DEF Dialing

LEMMA ConnectKeeps ==
  ASSUME Dialing, NEW h \in Chains, Connect(h) \/ DefaultRPCs(h)
  PROVE  Dialing'
<1>1. /\ DOMAIN conn' = Chains /\ DOMAIN conn'[h] = Fields
      /\ \A g \in Chains \ {h} : conn'[g] = conn[g]
      /\ conn[h].step \in {"made", "listed"} /\ conn'[h].step \in {"try", "list", "done"}
      /\ conn'[h].answer \in {conn[h].answer, "not listed"}
      /\ conn'[h].answer # conn[h].answer => conn'[h].step = "done"
      /\ UNCHANGED <<chain, got, lock, list, downloads>>
  <2>1. DOMAIN conn = Chains /\ DOMAIN conn[h] = Fields
    BY DEF Dialing, Shape
  <2>2. CASE Connect(h)
    BY <2>1, <2>2 DEF Connect, Fields
  <2>3. CASE DefaultRPCs(h)
    <3>1. CASE Urls(h) = <<>>
      BY <2>1, <2>3, <3>1 DEF DefaultRPCs, Fields
    <3>2. CASE Urls(h) # <<>>
      BY <2>1, <2>3, <3>2 DEF DefaultRPCs, Fields
    <3> QED BY <3>1, <3>2
  <2> QED BY <2>2, <2>3
<1>2. Shape' /\ Connections' /\ Received'
  BY <1>1, OneConnection, ConnectionsAssumption DEF Dialing, Connections
<1>3. Mutex'
  BY <1>1, MutexKept DEF Dialing
<1> QED BY <1>2, <1>3 DEF Dialing

\* The mutex is taken when it is free, by one connection.
LEMMA LockKeeps ==
  ASSUME Dialing, NEW h \in Chains, Lock(h)
  PROVE  Dialing'
<1>1. /\ DOMAIN conn' = Chains /\ DOMAIN conn'[h] = Fields
      /\ \A g \in Chains \ {h} : conn'[g] = conn[g]
      /\ conn[h].step = "list" /\ conn'[h].answer = conn[h].answer
      /\ conn'[h].step = (IF list THEN "listed" ELSE "download")
      /\ lock = {} /\ lock' = (IF list THEN {} ELSE {h})
      /\ UNCHANGED <<chain, got, list, downloads>>
  BY DEF Dialing, Shape, Lock, Free, Fields
<1>2. Shape' /\ Connections' /\ Received'
  BY <1>1, OneConnection DEF Dialing, Connections
<1>3. Mutex'
  BY <1>1 DEF Dialing, Mutex
<1> QED BY <1>2, <1>3 DEF Dialing

\* Whoever downloads the list holds the mutex alone, and there is no list yet.
LEMMA DownloadKeeps ==
  ASSUME Dialing, NEW h \in Chains, Download(h)
  PROVE  Dialing'
<1>1. lock = {h} /\ list = FALSE /\ downloads = 0
  BY DEF Dialing, Mutex, Download
<1>2. PICK ok \in BOOLEAN :
        /\ list' = ok /\ downloads' = (IF ok THEN 1 ELSE 0)
        /\ conn' = IF ok THEN [conn EXCEPT ![h].step = "listed"]
                         ELSE [conn EXCEPT ![h].step = "done", ![h].answer = "no list"]
  <2>1. PICK ok \in BOOLEAN :
          /\ list' = (list \/ ok) /\ downloads' = downloads + (IF ok THEN 1 ELSE 0)
          /\ conn' = IF ok THEN [conn EXCEPT ![h].step = "listed"]
                           ELSE [conn EXCEPT ![h].step = "done", ![h].answer = "no list"]
    BY Zenon DEF Download, Kept
  <2>2. list' = ok
    BY <1>1, <2>1, Zenon
  <2>3. downloads' = IF ok THEN 1 ELSE 0
    <3>1. CASE ok
      BY <1>1, <2>1, <3>1
    <3>2. CASE ~ok
      <4>1. downloads' = 0 + 0
        BY <1>1, <2>1, <3>2, Zenon
      <4> QED BY <4>1, <3>2
    <3> QED BY <3>1, <3>2
  <2> QED BY <2>1, <2>2, <2>3
<1>3. /\ DOMAIN conn' = Chains /\ DOMAIN conn'[h] = Fields
      /\ \A g \in Chains \ {h} : conn'[g] = conn[g]
      /\ conn[h].step = "download" /\ conn'[h].step \in {"listed", "done"}
      /\ conn'[h].answer \in {conn[h].answer, "no list"}
      /\ conn'[h].answer # conn[h].answer => conn'[h].step = "done"
      /\ lock' = {}
      /\ UNCHANGED <<chain, got>>
  BY <1>1, <1>2 DEF Dialing, Shape, Download, Fields
<1>4. Shape' /\ Connections' /\ Received'
  BY <1>3, OneConnection, ConnectionsAssumption DEF Dialing, Connections
<1>5. Mutex'
  BY <1>1, <1>2, <1>3 DEF Dialing, Mutex
<1> QED BY <1>4, <1>5 DEF Dialing

-----------------------------------------------------------------------------

LEMMA DialingKept == Dialing /\ [Next]_vars => Dialing'
<1> SUFFICES ASSUME Dialing, [Next]_vars PROVE Dialing'
  OBVIOUS
<1>1. ASSUME NEW c \in Callers, Dial(c) PROVE Dialing'
  BY <1>1, DialKeeps
<1>2. ASSUME NEW c \in Callers, Return(c) PROVE Dialing'
  BY <1>2, ReturnKeeps
<1>3. ASSUME NEW c \in Callers, Cancel(c) PROVE Dialing'
  BY <1>3 DEF Cancel, Dialing, Shape, Connections, Received, Answered, Mutex
<1>4. ASSUME NEW h \in Chains, Makes(h) PROVE Dialing'
  BY <1>4, ConnectKeeps, LockKeeps, DownloadKeeps DEF Makes
<1>5. ASSUME NEW h \in Chains, Answers(h) PROVE Dialing'
  BY <1>5, AnswersKeeps
<1>6. ASSUME NEW h \in Chains, Fails(h) \/ ContextEnds(h) \/ TimesOut(h) PROVE Dialing'
  BY <1>6, RefuseKeeps DEF Fails, ContextEnds, TimesOut, Bounded
<1>7. CASE UNCHANGED vars
  BY <1>7 DEF vars, Dialing, Shape, Connections, Received, Answered, Mutex
<1> QED BY <1>1, <1>2, <1>3, <1>4, <1>5, <1>6, <1>7 DEF Next

LEMMA Invariance == Spec => []Dialing
<1> QED BY DialingInitially, DialingKept, PTL DEF Spec

\* Every client that a caller gets is of a node that serves the caller's chain:
\* what the dialer answers is the connection's answer, and that is a node only
\* if it replied with the chain's ID to the request for it.
THEOREM ClientsOfTheirChain == Spec => []RightChain
<1>1. Dialing => RightChain
  BY ConnectionsAssumption DEF Dialing, Connections, Received, Answered, Shape, RightChain
<1> QED BY <1>1, Invariance, PTL

\* All callers of a chain get the same, and the list is downloaded once, by the
\* one connection that holds its mutex.
THEOREM ConnectionsShared == Spec => []ConnectsOnce
<1>1. Dialing => ConnectsOnce
  <2> SUFFICES ASSUME Dialing PROVE ConnectsOnce
    OBVIOUS
  <2>1. \A c, d \in Callers : chain[c] = chain[d] /\ Answered(c) /\ Answered(d) => got[c] = got[d]
    BY DEF Dialing, Received
  <2>2. downloads <= 1
    BY DEF Dialing, Mutex
  <2>3. Cardinality(lock) <= 1
    <3>1. CASE lock = {}
      BY <3>1, FS_EmptySet
    <3>2. CASE lock # {}
      <4>1. PICK h \in lock : lock = {h}
        BY <3>2 DEF Dialing, Mutex
      <4>2. Cardinality({h}) = 1
        BY FS_Singleton
      <4> QED BY <4>1, <4>2
    <3> QED BY <3>1, <3>2
  <2> QED BY <2>1, <2>2, <2>3 DEF ConnectsOnce
<1> QED BY <1>1, Invariance, PTL
-----------------------------------------------------------------------------
(* No node is forgotten *)

Elements(s) == {s[k] : k \in DOMAIN s}

\* What a connection k to a chain has tried, and what it has left to try, are
\* the chain's nodes; it has no list only if none is needed, or none came yet.
Tries(k, h) ==
  /\ k.step \in {"absent", "made", "list", "download", "listed"} => k.refused = {}
  /\ k.step \in {"list", "download", "listed"} => h \notin DOMAIN configured
  /\ k.step = "listed" => list
  /\ k.step = "try" =>
       k.left \in Seq(Nodes) /\ k.left # <<>> /\ k.refused \cup Elements(k.left) = NodesOf(h)
  /\ k.step # "done" => k.answer = "none"
  /\ k.answer = "error" => k.refused = NodesOf(h)
  /\ k.answer = "cancelled" => k.ctx \in cancelled
  /\ k.answer = "not listed" => list

Tried == \A h \in Chains : Tries(conn[h], h)

Reached == configured \in Configurations /\ Tried

\* The URLs that the list has for a chain are its usable nodes, all of them.
LEMMA UrlsAreNodes ==
  ASSUME NEW h \in Chains
  PROVE  /\ Urls(h) \in Seq(Nodes)
         /\ h \notin DOMAIN configured => Elements(Urls(h)) = NodesOf(h)
<1> DEFINE usable == {i \in DOMAIN Listed[h] : Listed[h][i] \in Usable}
<1>1. Listed[h] \in Seq(Nodes)
  BY ConnectionsAssumption
<1>2. /\ Part(Listed[h], usable) \in Seq(Nodes)
      /\ Elements(Part(Listed[h], usable)) = {Listed[h][i] : i \in usable}
  BY <1>1, PartHas DEF Elements
<1>3. {Listed[h][i] : i \in usable} = {n \in Usable : \E k \in DOMAIN Listed[h] : Listed[h][k] = n}
  OBVIOUS
<1> QED BY <1>2, <1>3 DEF Urls, NodesOf

LEMMA HeadAndRest ==
  ASSUME NEW s \in Seq(Nodes), s # <<>>
  PROVE  /\ Head(s) \in Nodes /\ Tail(s) \in Seq(Nodes)
         /\ Elements(s) = {Head(s)} \cup Elements(Tail(s))
         /\ Tail(s) = <<>> => Elements(s) = {Head(s)}
<1>1. Head(s) \in Nodes /\ Tail(s) \in Seq(Nodes) /\ Len(Tail(s)) = Len(s) - 1 /\ Len(s) \in Nat \ {0}
  BY HeadTailProperties, EmptySeq, LenProperties
<1>2. /\ DOMAIN s = 1 .. Len(s) /\ DOMAIN Tail(s) = 1 .. Len(s) - 1
      /\ \A k \in 1 .. Len(s) - 1 : Tail(s)[k] = s[k + 1]
      /\ Head(s) = s[1]
  BY <1>1, LenProperties
<1>3. Elements(s) \subseteq {Head(s)} \cup Elements(Tail(s))
  <2> SUFFICES ASSUME NEW k \in 1 .. Len(s) PROVE s[k] \in {Head(s)} \cup Elements(Tail(s))
    BY <1>2 DEF Elements
  <2>1. CASE k = 1
    BY <1>2, <2>1
  <2>2. CASE k # 1
    <3>1. PICK j \in 1 .. Len(s) - 1 : k = j + 1
      BY <1>1, <2>2
    <3> QED BY <1>2, <3>1 DEF Elements
  <2> QED BY <2>1, <2>2
<1>4. {Head(s)} \cup Elements(Tail(s)) \subseteq Elements(s)
  <2>1. 1 \in 1 .. Len(s) /\ \A k \in 1 .. Len(s) - 1 : k + 1 \in 1 .. Len(s)
    BY <1>1
  <2> QED BY <1>2, <2>1 DEF Elements
<1>5. Elements(<<>>) = {}
  BY DEF Elements
<1> QED BY <1>1, <1>3, <1>4, <1>5

\* Connections that a step leaves alone stay as they are, as the list isn't
\* forgotten and contexts stay done.
LEMMA OneTries ==
  ASSUME Tried, UNCHANGED configured, list => list', cancelled \subseteq cancelled',
         NEW h \in Chains, Tries(conn[h], h)', \A g \in Chains \ {h} : conn'[g] = conn[g]
  PROVE  Tried'
<1> SUFFICES ASSUME NEW g \in Chains PROVE Tries(conn[g], g)'
  BY DEF Tried
<1>1. CASE g = h
  BY <1>1
<1>2. CASE g # h
  BY <1>2 DEF Tried, Tries, NodesOf
<1> QED BY <1>1, <1>2

LEMMA TriesInitially == Init => Reached
<1> SUFFICES ASSUME Init PROVE Reached
  OBVIOUS
<1>1. \A h \in Chains : conn[h] = Absent
  BY DEF Init
<1> QED BY <1>1 DEF Init, Reached, Tried, Tries, Absent

LEMMA DialTries ==
  ASSUME Dialing, Reached, NEW c \in Callers, Dial(c)
  PROVE  Reached'
<1>. PICK h \in Chains : h = chain[c]
  BY DEF Dialing, Shape
<1>1. DOMAIN conn = Chains /\ UNCHANGED <<configured, list, cancelled>>
  BY DEF Dialing, Shape, Dial
<1>2. CASE New(h)
  <2>1. /\ conn'[h] = [Absent EXCEPT !.step = "made", !.ctx = c]
        /\ \A g \in Chains \ {h} : conn'[g] = conn[g]
    BY <1>1, <1>2 DEF Dial
  <2>2. Tries(conn[h], h)'
    BY <2>1 DEF Tries, Absent
  <2> QED BY <1>1, <2>1, <2>2, OneTries DEF Reached
<1>3. CASE ~New(h)
  <2>1. UNCHANGED conn
    BY <1>3 DEF Dial
  <2> QED BY <1>1, <2>1 DEF Reached, Tried, Tries, NodesOf
<1> QED BY <1>2, <1>3

LEMMA ConnectTries ==
  ASSUME Dialing, Reached, NEW h \in Chains, Connect(h) \/ Lock(h) \/ Download(h) \/ DefaultRPCs(h)
  PROVE  Reached'
<1>1. /\ DOMAIN conn = Chains /\ DOMAIN conn[h] = Fields /\ list \in BOOLEAN
      /\ UNCHANGED <<configured, cancelled>>
      /\ conn[h].answer = "none" /\ conn[h].refused = {}
      /\ configured \in Configurations
  BY DEF Dialing, Shape, Mutex, Connect, Lock, Download, DefaultRPCs, Reached, Tried, Tries
<1>2. CASE Connect(h)
  <2>1. /\ conn'[h].answer = "none" /\ conn'[h].refused = {}
        /\ conn'[h].step = (IF h \in DOMAIN configured THEN "try" ELSE "list")
        /\ h \in DOMAIN configured => conn'[h].left = <<configured[h]>>
        /\ \A g \in Chains \ {h} : conn'[g] = conn[g]
        /\ UNCHANGED list
    BY <1>1, <1>2 DEF Connect, Fields
  <2>2. CASE h \in DOMAIN configured
    <3>1. configured[h] \in Nodes
      BY <1>1, <2>2, ConnectionsAssumption
    <3>2. conn'[h].left \in Seq(Nodes) /\ conn'[h].left # <<>> /\ Elements(conn'[h].left) = {configured[h]}
      <4>1. <<configured[h]>> \in Seq(Nodes) /\ <<configured[h]>> # <<>>
        BY <3>1
      <4>2. Elements(<<configured[h]>>) = {configured[h]}
        BY DEF Elements
      <4> QED BY <2>1, <2>2, <4>1, <4>2
    <3>3. Tries(conn[h], h)'
      BY <1>1, <2>1, <2>2, <3>2 DEF Tries, NodesOf
    <3> QED BY <1>1, <2>1, <3>3, OneTries DEF Reached
  <2>3. CASE h \notin DOMAIN configured
    <3>1. Tries(conn[h], h)'
      BY <1>1, <2>1, <2>3 DEF Tries
    <3> QED BY <1>1, <2>1, <3>1, OneTries DEF Reached
  <2> QED BY <2>2, <2>3
<1>3. CASE Lock(h)
  <2>1. /\ conn'[h].answer = "none" /\ conn'[h].refused = {} /\ conn[h].step = "list"
        /\ conn'[h].step = (IF list THEN "listed" ELSE "download")
        /\ \A g \in Chains \ {h} : conn'[g] = conn[g]
        /\ UNCHANGED list
    BY <1>1, <1>3 DEF Lock, Fields
  <2>2. h \notin DOMAIN configured
    BY <2>1 DEF Reached, Tried, Tries
  <2>3. Tries(conn[h], h)'
    BY <1>1, <2>1, <2>2 DEF Tries
  <2> QED BY <1>1, <2>1, <2>3, OneTries DEF Reached
<1>4. CASE Download(h)
  <2>1. PICK ok \in BOOLEAN :
          /\ list' = (list \/ ok)
          /\ conn' = IF ok THEN [conn EXCEPT ![h].step = "listed"]
                           ELSE [conn EXCEPT ![h].step = "done", ![h].answer = "no list"]
    BY <1>4, Zenon DEF Download, Kept
  <2>2. h \notin DOMAIN configured
    BY <1>4 DEF Download, Reached, Tried, Tries
  <2>3. /\ conn'[h].step = (IF ok THEN "listed" ELSE "done") /\ conn'[h].refused = {}
        /\ conn'[h].answer = (IF ok THEN "none" ELSE "no list")
        /\ \A g \in Chains \ {h} : conn'[g] = conn[g]
    BY <1>1, <2>1 DEF Fields
  <2>4. (list => list') /\ (ok => list')
    BY <2>1, Zenon
  <2>5. Tries(conn[h], h)'
    BY <1>1, <2>2, <2>3, <2>4 DEF Tries
  <2> QED BY <1>1, <2>3, <2>4, <2>5, OneTries DEF Reached
<1>5. CASE DefaultRPCs(h)
  <2>1. list /\ h \notin DOMAIN configured
    BY <1>5 DEF DefaultRPCs, Reached, Tried, Tries
  <2>2. /\ \A g \in Chains \ {h} : conn'[g] = conn[g]
        /\ UNCHANGED list
    BY <1>1, <1>5 DEF DefaultRPCs
  <2>3. CASE Urls(h) = <<>>
    <3>1. conn'[h].step = "done" /\ conn'[h].answer = "not listed"
      BY <1>1, <1>5, <2>3 DEF DefaultRPCs, Fields
    <3>2. Tries(conn[h], h)'
      BY <2>1, <2>2, <3>1 DEF Tries
    <3> QED BY <1>1, <2>2, <3>2, OneTries DEF Reached
  <2>4. CASE Urls(h) # <<>>
    <3>1. /\ conn'[h].step = "try" /\ conn'[h].left = Urls(h)
          /\ conn'[h].refused = {} /\ conn'[h].answer = "none"
      BY <1>1, <1>5, <2>4 DEF DefaultRPCs, Fields
    <3>2. Urls(h) \in Seq(Nodes) /\ Elements(Urls(h)) = NodesOf(h)
      BY <2>1, UrlsAreNodes
    <3>3. NodesOf(h)' = NodesOf(h)
      BY <1>1 DEF NodesOf
    <3>4. Tries(conn[h], h)'
      BY <2>4, <3>1, <3>2, <3>3 DEF Tries
    <3> QED BY <1>1, <2>2, <3>4, OneTries DEF Reached
  <2> QED BY <2>3, <2>4
<1> QED BY <1>2, <1>3, <1>4, <1>5

LEMMA AnswersTries ==
  ASSUME Dialing, Reached, NEW h \in Chains, Answers(h)
  PROVE  Reached'
<1>1. conn[h].left \in Seq(Nodes) /\ conn[h].left # <<>>
  BY DEF Answers, Reached, Tried, Tries
<1>2. /\ conn'[h].step = "done" /\ conn'[h].answer = Head(conn[h].left)
      /\ \A g \in Chains \ {h} : conn'[g] = conn[g]
      /\ UNCHANGED <<configured, list, cancelled>>
  BY DEF Dialing, Shape, Answers, Fields
<1>3. conn'[h].answer \notin {"error", "cancelled", "not listed"}
  BY <1>1, <1>2, HeadAndRest, ConnectionsAssumption
<1>4. Tries(conn[h], h)'
  BY <1>2, <1>3 DEF Tries
<1> QED BY <1>2, <1>4, OneTries DEF Reached

\* The node that is refused is the next of those that are left, and only when
\* none is left is the chain given up as refused by all.
LEMMA RefuseTries ==
  ASSUME Dialing, Reached, NEW h \in Chains, conn[h].step = "try", Refuse(h)
  PROVE  Reached'
<1> DEFINE node == Head(conn[h].left)
           rest == Tail(conn[h].left)
           last == rest = <<>> \/ Cancelled(h)
<1>1. /\ conn[h].left \in Seq(Nodes) /\ conn[h].left # <<>>
      /\ conn[h].refused \cup Elements(conn[h].left) = NodesOf(h)
  BY DEF Reached, Tried, Tries
<1>2. /\ rest \in Seq(Nodes)
      /\ Elements(conn[h].left) = {node} \cup Elements(rest)
      /\ rest = <<>> => Elements(conn[h].left) = {node}
  BY <1>1, HeadAndRest
<1>3. /\ conn'[h].refused = conn[h].refused \cup {node}
      /\ conn'[h].left = rest /\ conn'[h].ctx = conn[h].ctx
      /\ conn'[h].step = (IF last THEN "done" ELSE "try")
      /\ conn'[h].answer = (IF ~last THEN "none" ELSE IF Cancelled(h) THEN "cancelled" ELSE "error")
      /\ \A g \in Chains \ {h} : conn'[g] = conn[g]
      /\ UNCHANGED <<configured, list, cancelled>>
  BY DEF Dialing, Shape, Refuse, Rest, Fields
<1>4. NodesOf(h)' = NodesOf(h)
  BY <1>3 DEF NodesOf
<1>5. CASE ~last
  <2>1. conn'[h].refused \cup Elements(conn'[h].left) = NodesOf(h)
    BY <1>1, <1>2, <1>3
  <2>2. Tries(conn[h], h)'
    BY <1>2, <1>3, <1>4, <1>5, <2>1 DEF Tries
  <2> QED BY <1>3, <2>2, OneTries DEF Reached
<1>6. CASE Cancelled(h)
  <2>1. Tries(conn[h], h)'
    BY <1>3, <1>6 DEF Tries, Cancelled
  <2> QED BY <1>3, <2>1, OneTries DEF Reached
<1>7. CASE ~Cancelled(h) /\ rest = <<>>
  <2>1. conn'[h].refused = NodesOf(h)
    BY <1>1, <1>2, <1>3, <1>7
  <2>2. Tries(conn[h], h)'
    BY <1>3, <1>4, <1>7, <2>1 DEF Tries
  <2> QED BY <1>3, <2>2, OneTries DEF Reached
<1> QED BY <1>5, <1>6, <1>7

LEMMA ReachedInductive == Dialing /\ Reached /\ [Next]_vars => Reached'
<1> SUFFICES ASSUME Dialing, Reached, [Next]_vars PROVE Reached'
  OBVIOUS
<1>1. ASSUME NEW c \in Callers, Dial(c) PROVE Reached'
  BY <1>1, DialTries
<1>2. ASSUME NEW c \in Callers, Return(c) PROVE Reached'
  BY <1>2 DEF Return, Reached, Tried, Tries, NodesOf
<1>3. ASSUME NEW c \in Callers, Cancel(c) PROVE Reached'
  BY <1>3 DEF Cancel, Reached, Tried, Tries, NodesOf
<1>4. ASSUME NEW h \in Chains, Makes(h) PROVE Reached'
  BY <1>4, ConnectTries DEF Makes
<1>5. ASSUME NEW h \in Chains, Answers(h) PROVE Reached'
  BY <1>5, AnswersTries
<1>6. ASSUME NEW h \in Chains, Fails(h) \/ ContextEnds(h) \/ TimesOut(h) PROVE Reached'
  BY <1>6, RefuseTries DEF Fails, ContextEnds, TimesOut, Bounded
<1>7. CASE UNCHANGED vars
  BY <1>7 DEF vars, Reached, Tried, Tries, NodesOf
<1> QED BY <1>1, <1>2, <1>3, <1>4, <1>5, <1>6, <1>7 DEF Next

\* A chain is given up as refused only when each of its usable nodes was tried and
\* refused, and as cancelled only if the caller that connects was: at every step
\* the refused nodes and those left to try are the chain's.
THEOREM GivenUpByAll == Spec => []RefusedByAll
<1>1. Dialing /\ Reached => RefusedByAll
  <2> SUFFICES ASSUME Dialing, Reached PROVE RefusedByAll
    OBVIOUS
  <2>1. list => downloads > 0
    BY DEF Dialing, Mutex
  <2> QED BY <2>1 DEF Reached, Tried, Tries, RefusedByAll, Cancelled
<1> QED BY <1>1, Invariance, TriesInitially, ReachedInductive, PTL DEF Spec

-----------------------------------------------------------------------------
(* Responses *)

\* No response is open while the request isn't done, so that the next attempt's
\* is the only one.
Inv ==
  /\ pc # "done" => open = {} /\ result = Transport!Nothing
  /\ pc = "done" =>
       \/ open = {} /\ result = Transport!Failure
       \/ open = {retry} /\ \E retryable \in BOOLEAN : result = Transport!Response(retry, retryable)

LEMMA Initially == NetworkInit => Inv
  BY DEF NetworkInit, NoRequest, Transport!Init, Inv

\* A response that is retried is discarded, and one that is returned is added to
\* none.
LEMMA SendKeeps == Inv /\ Transport!Send => Inv'
<1> SUFFICES ASSUME Inv, Transport!Send PROVE Inv'
  OBVIOUS
<1>1. open = {} /\ result = Transport!Nothing /\ retry' = retry
  BY DEF Inv, Transport!Send
<1>2. PICK retryable \in BOOLEAN :
        \/ pc' = "wait" /\ open' = Transport!Discard(retry) /\ UNCHANGED result
        \/ /\ pc' = "done" /\ open' = open \cup {retry}
           /\ result' = Transport!Response(retry, retryable)
  BY DEF Transport!Send
<1>3. CASE pc' = "wait" /\ open' = Transport!Discard(retry) /\ UNCHANGED result
  BY <1>1, <1>3 DEF Inv, Transport!Discard
<1>4. CASE /\ pc' = "done" /\ open' = open \cup {retry}
           /\ result' = Transport!Response(retry, retryable)
  BY <1>1, <1>4 DEF Inv
<1> QED BY <1>2, <1>3, <1>4

LEMMA Inductive == Inv /\ [NetworkNext]_<<vars, transport>> => Inv'
<1> SUFFICES ASSUME Inv, [NetworkNext]_<<vars, transport>> PROVE Inv'
  OBVIOUS
<1>1. CASE Transport!Send
  BY <1>1, SendKeeps
<1>2. CASE Transport!SendFails
  BY <1>2 DEF Transport!SendFails, Inv
<1>3. CASE Transport!TimerFires
  BY <1>3 DEF Transport!TimerFires, Inv
<1>4. CASE Transport!GetBodyFails
  BY <1>4 DEF Transport!GetBodyFails, Inv
<1>5. CASE Transport!ContextEndsWait
  BY <1>5 DEF Transport!ContextEndsWait, Transport!WaitEnds, Inv
<1>6. CASE Transport!Cancel
  BY <1>6 DEF Transport!Cancel, Inv
<1>7. CASE UNCHANGED transport
  BY <1>7 DEF transport, Inv
<1>8. UNCHANGED <<vars, transport>> => UNCHANGED transport
  OBVIOUS
<1> QED BY <1>1, <1>2, <1>3, <1>4, <1>5, <1>6, <1>7, <1>8
           DEF NetworkNext, Transport!Next, Transport!RoundTrip

\* For every number of retries, delays, and Retry-After headers, the caller gets
\* the last attempt's response, open, and all others were closed.
THEOREM ResponsesClosed == NetworkSpec => []OnlyResultOpen
<1>1. Inv => OnlyResultOpen
  BY DEF Inv, OnlyResultOpen, Transport!OnlyResultOpen,
         Transport!Nothing, Transport!Failure, Transport!Response
<1> QED BY <1>1, Initially, Inductive, PTL DEF NetworkSpec
-----------------------------------------------------------------------------
(* When a request is retried *)

Least(a, b) == Transport!Least(a, b)

\* The delay after n retries, without a limit.
Doubled(n) == Delay * 2 ^ n

\* The next delay is the doubled one as far as the maximum lets it; a wait is one
\* that was allowed; and a response that could be retried isn't returned.
Delays ==
  /\ retry \in Nat /\ backoff \in Nat /\ asked \in RetryAfters \cup {Transport!NoHeader}
  /\ pc = "send" => body = "whole" /\ Least(backoff, MaxDelay) = Least(Doubled(retry), MaxDelay)
  /\ pc = "wait" =>
       /\ wait <= MaxDelay
       /\ asked # Transport!NoHeader => wait >= asked
       /\ asked = Transport!NoHeader => wait >= Least(Doubled(retry), MaxDelay) \div 2
       /\ Least(backoff, MaxDelay) = Least(Doubled(retry + 1), MaxDelay)
  /\ pc = "done" /\ result.kind = "response" /\ result.retryable =>
       ~Transport!Repeatable \/ result.attempt = Retries \/ asked > MaxDelay

LEMMA DoubledType ==
  ASSUME NEW n \in Nat
  PROVE  Doubled(n) \in Nat /\ Doubled(n + 1) = 2 * Doubled(n)
<1>1. Delay \in Nat /\ 2 ^ n \in Nat /\ 2 ^ (n + 1) = 2 * 2 ^ n
  BY TransportAssumption, PowerDoubles
<1>2. \A d, p \in Nat : d * p \in Nat /\ d * (2 * p) = 2 * (d * p)
  OBVIOUS
<1>3. Delay * (2 * 2 ^ n) = 2 * (Delay * 2 ^ n) /\ Delay * 2 ^ n \in Nat
  BY <1>1, <1>2
<1> QED BY <1>1, <1>3, Zenon DEF Doubled

LEMMA DelaysInitially == NetworkInit => Delays
<1> SUFFICES ASSUME NetworkInit PROVE Delays
  OBVIOUS
<1>1. /\ pc \in {"idle", "send"} /\ body = "whole" /\ retry = 0 /\ backoff = Delay
      /\ asked = Transport!NoHeader
  BY DEF NetworkInit, NoRequest, Transport!Init
<1>2. Doubled(0) = Delay /\ Delay \in Nat
  <2>1. Delay \in Nat /\ 2 ^ 0 = 1
    BY TransportAssumption
  <2> QED BY <2>1 DEF Doubled
<1> QED BY <1>1, <1>2 DEF Delays

\* How long an attempt waits, if it does, is as the header asks, or else between
\* half of the delay and all of it, which the maximum bounds.
LEMMA WaitsBounds ==
  ASSUME Delays, NEW after \in RetryAfters \cup {Transport!NoHeader}, NEW w \in Transport!Waits(after)
  PROVE  /\ after # Transport!NoHeader => w = after
         /\ after = Transport!NoHeader =>
              w >= Least(backoff, MaxDelay) \div 2 /\ w <= MaxDelay
<1> DEFINE d == Least(backoff, MaxDelay)
<1>1. d \in Nat /\ d <= MaxDelay
  BY TransportAssumption DEF Delays, Least, Transport!Least
<1>2. CASE after # Transport!NoHeader
  BY <1>2 DEF Transport!Waits
<1>3. CASE after = Transport!NoHeader
  <2>1. PICK j \in 0 .. d \div 2 : w = d \div 2 + j
    BY <1>3 DEF Transport!Waits, Least
  <2>2. \A x \in Nat : x \div 2 \in Nat /\ x \div 2 + x \div 2 <= x
    OBVIOUS
  <2> HIDE DEF d
  <2>3. d \div 2 \in Nat /\ d \div 2 + d \div 2 <= d /\ MaxDelay \in Nat
    BY <1>1, <2>2, TransportAssumption
  <2>4. w >= d \div 2 /\ w <= MaxDelay
    BY <1>1, <2>1, <2>3
  <2> QED BY <1>3, <2>4 DEF d
<1> QED BY <1>2, <1>3

\* An attempt that is retried doubles the delay; one that isn't retried has no
\* retries left, can't be repeated, or is asked to wait for too long.
LEMMA SendDelays ==
  ASSUME Inv, Delays, Transport!Send
  PROVE  Delays'
<1>1. /\ pc = "send" /\ UNCHANGED <<request, retry>> /\ retry \in Nat /\ backoff \in Nat
      /\ MaxDelay \in Nat /\ RetryAfters \subseteq Nat
      /\ Least(backoff, MaxDelay) = Least(Doubled(retry), MaxDelay)
      /\ Doubled(retry) \in Nat /\ Doubled(retry + 1) = 2 * Doubled(retry)
  BY DoubledType, TransportAssumption DEF Transport!Send, Delays
<1>2. PICK retryable \in BOOLEAN, after \in RetryAfters \cup {Transport!NoHeader} :
        /\ asked' = after
        /\ \E w \in Transport!Waits(after) :
             IF Transport!MayRetry(retryable) /\ w <= MaxDelay
             THEN /\ pc' = "wait" /\ wait' = w
                  /\ open' = Transport!Discard(retry) /\ UNCHANGED result
             ELSE /\ pc' = "done" /\ UNCHANGED wait
                  /\ open' = open \cup {retry} /\ result' = Transport!Response(retry, retryable)
        /\ backoff' = IF Transport!MayRetry(retryable) THEN Least(2 * backoff, MaxDelay) ELSE backoff
  BY DEF Transport!Send, Least
<1>3. PICK w \in Transport!Waits(after) :
        IF Transport!MayRetry(retryable) /\ w <= MaxDelay
        THEN pc' = "wait" /\ wait' = w
        ELSE pc' = "done" /\ result' = Transport!Response(retry, retryable)
  BY <1>2
<1>4. /\ after # Transport!NoHeader => w = after
      /\ after = Transport!NoHeader => w >= Least(Doubled(retry), MaxDelay) \div 2 /\ w <= MaxDelay
  BY <1>1, WaitsBounds
<1>5. retry' = retry /\ retry' \in Nat /\ asked' \in RetryAfters \cup {Transport!NoHeader} /\ backoff' \in Nat
  BY <1>1, <1>2 DEF Least, Transport!Least
<1>6. CASE Transport!MayRetry(retryable) /\ w <= MaxDelay
  <2>1. pc' = "wait" /\ wait' = w /\ backoff' = Least(2 * backoff, MaxDelay)
    BY <1>2, <1>3, <1>6
  <2>2. Least(backoff', MaxDelay) = Least(Doubled(retry + 1), MaxDelay)
    <3>1. \A b, p, m \in Nat : Least(b, m) = Least(p, m) => Least(Least(2 * b, m), m) = Least(2 * p, m)
      BY DEF Least, Transport!Least
    <3> QED BY <1>1, <2>1, <3>1
  <2>3. Doubled(retry)' = Doubled(retry) /\ Doubled(retry + 1)' = Doubled(retry + 1)
    BY <1>5 DEF Doubled
  <2>4. Least(backoff, MaxDelay)' = Least(Doubled(retry + 1), MaxDelay)'
    BY <2>2, <2>3 DEF Least, Transport!Least
  <2>5. Least(Doubled(retry), MaxDelay)' = Least(Doubled(retry), MaxDelay)
    BY <2>3 DEF Least, Transport!Least
  <2>6. /\ asked' # Transport!NoHeader => wait' >= asked'
        /\ asked' = Transport!NoHeader => wait' >= Least(Doubled(retry), MaxDelay) \div 2
        /\ wait' <= MaxDelay
    <3>1. asked' = after
      BY <1>2
    <3>2. \A a \in Nat : a >= a
      OBVIOUS
    <3> QED BY <1>1, <1>4, <1>6, <2>1, <3>1, <3>2
  <2> QED BY <1>5, <2>1, <2>4, <2>5, <2>6 DEF Delays
<1>7. CASE ~(Transport!MayRetry(retryable) /\ w <= MaxDelay)
  <2>1. pc' = "done" /\ result' = Transport!Response(retry, retryable)
    BY <1>3, <1>7
  <2>2. retryable => ~Transport!Repeatable \/ retry = Retries \/ after > MaxDelay
    BY <1>1, <1>4, <1>7 DEF Transport!MayRetry
  <2>3. Transport!Repeatable' = Transport!Repeatable
    BY <1>1 DEF Transport!Repeatable
  <2>4. result'.kind = "response" /\ result'.retryable = retryable /\ result'.attempt = retry
    BY <2>1 DEF Transport!Response
  <2> QED BY <1>2, <1>5, <2>1, <2>2, <2>3, <2>4 DEF Delays
<1> QED BY <1>6, <1>7

LEMMA FailureDelays ==
  ASSUME Delays, pc' = "done", result' = Transport!Failure,
         UNCHANGED <<retry, backoff, asked>>
  PROVE  Delays'
  BY DEF Delays, Transport!Failure

LEMMA DelaysInductive == Inv /\ Delays /\ [NetworkNext]_<<vars, transport>> => Delays'
<1> SUFFICES ASSUME Inv, Delays, [NetworkNext]_<<vars, transport>> PROVE Delays'
  OBVIOUS
<1>1. CASE Transport!Send
  BY <1>1, SendDelays
<1>2. CASE Transport!SendFails \/ Transport!GetBodyFails \/ Transport!ContextEndsWait
  BY <1>2, FailureDelays
     DEF Transport!SendFails, Transport!GetBodyFails, Transport!ContextEndsWait
<1>3. CASE Transport!TimerFires
  <2>1. /\ pc = "wait" /\ pc' = "send" /\ body' = "whole" /\ retry' = retry + 1
        /\ UNCHANGED <<backoff, asked>>
    BY <1>3 DEF Transport!TimerFires, Transport!NewBody, Transport!Counted
  <2>2. Least(backoff, MaxDelay)' = Least(Doubled(retry), MaxDelay)'
    BY <2>1 DEF Delays, Least, Transport!Least, Doubled
  <2> QED BY <2>1, <2>2 DEF Delays
<1>4. CASE Transport!Cancel
  <2>1. UNCHANGED <<request, body, pc, retry, backoff, asked, wait, result>>
    BY <1>4 DEF Transport!Cancel
  <2> QED BY <2>1 DEF Delays, Least, Transport!Least, Doubled, Transport!Repeatable
<1>5. CASE UNCHANGED transport
  BY <1>5 DEF transport, Delays, Least, Transport!Least, Doubled, Transport!Repeatable
<1>6. UNCHANGED <<vars, transport>> => UNCHANGED transport
  OBVIOUS
<1> QED BY <1>1, <1>2, <1>3, <1>4, <1>5, <1>6
           DEF NetworkNext, Transport!Next, Transport!RoundTrip

\* For every number of retries, delay and maximum, and whatever the servers ask
\* for: a rejected response is returned only if no retry may follow it, waits
\* are as long as asked for or as the doubled delay, and never longer than the
\* maximum, and every attempt has a whole body.
THEOREM RetriedAsAsked == NetworkSpec => []RetriesAsAsked
<1>1. Inv /\ Delays => RetriesAsAsked
  <2> SUFFICES ASSUME Inv, Delays PROVE RetriesAsAsked
    OBVIOUS
  <2>1. result.kind = "response" => pc = "done"
    BY DEF Inv, Transport!Nothing
  <2>2. pc = "wait" =>
          /\ wait <= MaxDelay
          /\ asked # Transport!NoHeader => wait >= asked
          /\ asked = Transport!NoHeader => wait >= Transport!Least(Delay * 2 ^ retry, MaxDelay) \div 2
    BY DEF Delays, Least, Doubled
  <2> QED BY <2>1, <2>2 DEF Delays, RetriesAsAsked, Transport!RetriesAsAsked
<1> QED BY <1>1, Initially, Inductive, DelaysInitially, DelaysInductive, PTL DEF NetworkSpec
=============================================================================
