--------------------------- MODULE RpcConnections ---------------------------
(* internal/ethrpc: how callers that run concurrently, such as the searches  *)
(* for the blocks of a ruling's proposals, get a client for the chain that   *)
(* each reads. A chain is connected to once, by the first that asks, with    *)
(* that caller's context. Without a configured node, the nodes of a list are *)
(* tried, which the process downloads once.                                  *)
(*                                                                           *)
(* A node's reply is kept as what RawRequest tells apart; parsing is not.    *)
EXTENDS Orders, Sequences

CONSTANTS
  Callers, Chains, Nodes,
  Asks,          \* what the callers may ask for: functions from callers to chains
  Serves,        \* the chain that each node serves
  Listed,        \* the URLs that the RPC list has for each chain, as nodes
  Usable,        \* those that are HTTP(S) URLs, without a template to fill in
  Configurations \* the nodes that may be configured, for some of the chains

ASSUME ConnectionsAssumption ==
  /\ Serves \in [Nodes -> Chains] /\ Asks \subseteq [Callers -> Chains]
  /\ Listed \in [Chains -> Seq(Nodes)]
  /\ \A f \in Configurations : \A h \in DOMAIN f : f[h] \in Nodes
  /\ Chains \cap {"absent", "malformed", "no answer"} = {}
  /\ Nodes \cap {"none", "start", "waits", "no list", "not listed", "cancelled", "error"} = {}

VARIABLES
  configured,  \* the configured nodes
  chain,       \* the chain that each caller asks for
  cancelled,   \* callers whose context is done
  got,         \* "start", "waits", or the connection's answer; "none" for no caller
  conn,        \* each chain's connection
  lock,        \* the connections that hold the list's mutex
  list,        \* whether the list is downloaded
  downloads    \* how often it was

vars == <<configured, chain, cancelled, got, conn, lock, list, downloads>>

\* A connection: the caller whose context it is made with, the step that it is
\* at, the nodes left to try, those that were refused, and its answer.
Absent == [step |-> "absent", ctx |-> "none", left |-> <<>>, refused |-> {}, answer |-> "none"]

Init ==
  /\ configured \in Configurations
  /\ chain \in Asks
  /\ cancelled = {} /\ got = [c \in Callers |-> "start"]
  /\ conn = [h \in Chains |-> Absent]
  /\ lock = {} /\ list = FALSE /\ downloads = 0

Cancelled(h) == conn[h].ctx \in cancelled

New(h) == conn[h].step = "absent"

\* Looks up the chain's connection under the dialer's mutex, or makes it, with
\* the caller's context.
Dial(c) ==
  /\ got[c] = "start"
  /\ got' = [got EXCEPT ![c] = "waits"]
  /\ conn' = IF New(chain[c])
             THEN [conn EXCEPT ![chain[c]] = [Absent EXCEPT !.step = "made", !.ctx = c]]
             ELSE conn
  /\ UNCHANGED <<configured, chain, cancelled, lock, list, downloads>>

\* The first caller that waits for the connection, which needn't be the one that
\* made it, connects.
Connect(h) ==
  /\ conn[h].step = "made"
  /\ conn' = [conn EXCEPT ![h].step = IF h \in DOMAIN configured THEN "try" ELSE "list",
                          ![h].left = IF h \in DOMAIN configured THEN <<configured[h]>> ELSE <<>>]
  /\ UNCHANGED <<configured, chain, cancelled, got, lock, list, downloads>>

Free == lock = {}

\* Waits for the list's mutex, and holds it if the list has to be downloaded.
Lock(h) ==
  /\ conn[h].step = "list" /\ Free
  /\ IF list THEN conn' = [conn EXCEPT ![h].step = "listed"] /\ UNCHANGED lock
             ELSE conn' = [conn EXCEPT ![h].step = "download"] /\ lock' = lock \cup {h}
  /\ UNCHANGED <<configured, chain, cancelled, got, list, downloads>>

\* The URLs of the list for a chain, without those that can't be used.
Urls(h) == Part(Listed[h], {i \in DOMAIN Listed[h] : Listed[h][i] \in Usable})

Kept(ok) == list \/ ok

\* Downloads the list and keeps it, unless that fails.
Download(h) ==
  /\ conn[h].step = "download"
  /\ lock' = lock \ {h}
  /\ \E ok \in BOOLEAN :
       /\ ok => ~Cancelled(h) /\ \E g \in Chains : Urls(g) # <<>>
       /\ list' = Kept(ok)
       /\ downloads' = downloads + (IF ok THEN 1 ELSE 0)
       /\ conn' = IF ok THEN [conn EXCEPT ![h].step = "listed"]
                        ELSE [conn EXCEPT ![h].step = "done", ![h].answer = "no list"]
  /\ UNCHANGED <<configured, chain, cancelled, got>>

DefaultRPCs(h) ==
  /\ conn[h].step = "listed"
  /\ conn' = IF Urls(h) = <<>>
             THEN [conn EXCEPT ![h].step = "done", ![h].answer = "not listed"]
             ELSE [conn EXCEPT ![h].step = "try", ![h].left = Urls(h)]
  /\ UNCHANGED <<configured, chain, cancelled, got, lock, list, downloads>>

-----------------------------------------------------------------------------
(* What a node replies to eth_chainId *)

\* A reply to another request, as a gateway may send, has any chain's ID. One with
\* the request's ID is taken to be to it, although every client counts from 1.
Replies(n) ==
  {[status |-> s, id |-> i, error |-> e, result |-> r] :
     s \in {"200", "other"}, i \in {"own", "another"}, e \in BOOLEAN,
     r \in Chains \cup {"absent", "malformed"}}

Possible(n, reply) == reply.id = "own" /\ reply.result \in Chains => reply.result = Serves[n]

NoAnswer == "no answer"

\* Mutant: the reply's ID isn't compared.
AnyReply(reply) ==
  IF reply.status # "200" \/ reply.error \/ reply.result \in {"absent", "malformed"}
  THEN NoAnswer ELSE reply.result

RawRequest(reply) ==
  IF reply.status # "200" \/ reply.id # "own" \/ reply.error \/ reply.result \in {"absent", "malformed"}
  THEN NoAnswer ELSE reply.result

ExpectedChain(h, reply) == RawRequest(reply) = h

\* Connects to the next node if it replies with the chain's ID.
Answers(h) ==
  /\ conn[h].step = "try" /\ conn[h].left # <<>> /\ ~Cancelled(h)
  /\ \E reply \in Replies(Head(conn[h].left)) :
       /\ Possible(Head(conn[h].left), reply)
       /\ ExpectedChain(h, reply)
  /\ conn' = [conn EXCEPT ![h].step = "done", ![h].answer = Head(conn[h].left)]
  /\ UNCHANGED <<configured, chain, cancelled, got, lock, list, downloads>>

\* Mutant: only the first node is tried.
NoOther(h) == <<>>

Rest(h) == Tail(conn[h].left)

\* Goes on to the next node if there is one. The context isn't looked at if it is
\* the configured node that fails, which is the only one.
Refuse(h) ==
  LET rest == Rest(h)
      last == rest = <<>> \/ Cancelled(h)
  IN /\ conn' = [conn EXCEPT ![h].refused = @ \cup {Head(conn[h].left)}, ![h].left = rest,
                             ![h].step = IF last THEN "done" ELSE "try",
                             ![h].answer = IF ~last THEN "none"
                                           ELSE IF Cancelled(h) THEN "cancelled" ELSE "error"]
     /\ UNCHANGED <<configured, chain, cancelled, got, lock, list, downloads>>

\* The node replies otherwise, or can't be reached.
Fails(h) ==
  /\ conn[h].step = "try"
  /\ \E reply \in Replies(Head(conn[h].left)) :
       Possible(Head(conn[h].left), reply) /\ ~ExpectedChain(h, reply)
  /\ Refuse(h)

Stopped(h) == Cancelled(h)

ContextEnds(h) == conn[h].step = "try" /\ Stopped(h) /\ Refuse(h)

\* Mutant: the time to connect isn't bounded.
Unbounded(h) == FALSE

\* A node of the list that doesn't answer is given up after a second. The
\* configured node isn't.
Bounded(h) == conn[h].step = "try" /\ h \notin DOMAIN configured

TimesOut(h) == Bounded(h) /\ Refuse(h)

-----------------------------------------------------------------------------

\* Mutant: a caller whose context is done gets its own error.
OwnError(c) == IF c \in cancelled THEN "cancelled" ELSE conn[chain[c]].answer

Answer(c) == conn[chain[c]].answer

\* A caller waits for the connection, whatever its own context.
Return(c) ==
  /\ got[c] = "waits" /\ conn[chain[c]].step = "done"
  /\ got' = [got EXCEPT ![c] = Answer(c)]
  /\ UNCHANGED <<configured, chain, cancelled, conn, lock, list, downloads>>

Cancel(c) ==
  /\ cancelled' = cancelled \cup {c} /\ c \notin cancelled
  /\ UNCHANGED <<configured, chain, got, conn, lock, list, downloads>>

Makes(h) == Connect(h) \/ Lock(h) \/ Download(h) \/ DefaultRPCs(h)

Next ==
  \/ \E c \in Callers : Dial(c) \/ Return(c) \/ Cancel(c)
  \/ \E h \in Chains : Makes(h) \/ Answers(h) \/ Fails(h) \/ ContextEnds(h) \/ TimesOut(h)

\* Callers run, the list's server answers or fails, and timeouts and contexts end
\* requests. No node is assumed to reply.
Fairness ==
  /\ \A c \in Callers : WF_vars(Dial(c)) /\ WF_vars(Return(c))
  /\ \A h \in Chains : /\ WF_vars(Connect(h)) /\ SF_vars(Lock(h)) /\ WF_vars(Download(h))
                       /\ WF_vars(DefaultRPCs(h)) /\ WF_vars(TimesOut(h))
                       /\ WF_vars(ContextEnds(h))

Spec == Init /\ [][Next]_vars /\ Fairness

-----------------------------------------------------------------------------

Answered(c) == got[c] \notin {"none", "start", "waits"}

\* A client is of a node that serves the caller's chain, whatever nodes of the
\* list serve, and whichever requests they reply to (NewClient, "since the node
\* may come from an untrusted list").
RightChain == \A c \in Callers : got[c] \in Nodes => Serves[got[c]] = chain[c]

\* Callers that the dialer answered got the same client, or the same error
\* (NewDialer, "returns the same client, or the same error, every time after"). The
\* list is downloaded at most once (DefaultRPCs), and by one connection at a time,
\* however many chains wait for it, and however often a download fails.
ConnectsOnce ==
  /\ \A c, d \in Callers :
       chain[c] = chain[d] /\ Answered(c) /\ Answered(d) => got[c] = got[d]
  /\ downloads <= 1 /\ Cardinality(lock) <= 1

\* The nodes of a chain: the configured one, or else those of the list.
NodesOf(h) ==
  IF h \in DOMAIN configured THEN {configured[h]}
  ELSE {n \in Usable : \E k \in DOMAIN Listed[h] : Listed[h][k] = n}

\* A chain without a client has no node that could be used: all of its nodes were
\* refused, or there is no list, or it has none for the chain, or the caller
\* that made the connection was cancelled.
RefusedByAll ==
  \A h \in Chains :
    /\ conn[h].answer = "error" => conn[h].refused = NodesOf(h)
    /\ conn[h].answer = "cancelled" => Cancelled(h)
    /\ conn[h].answer = "not listed" => downloads > 0

\* A caller of a chain without a configured node gets an answer, though none of
\* the nodes may reply, and one of any chain once the context that the connection
\* is made with ends.
CallersAnswered ==
  \A c \in Callers :
    got[c] \in {"start", "waits"} /\ (chain[c] \notin DOMAIN configured \/ Cancelled(chain[c]))
      ~> Answered(c)
=============================================================================
