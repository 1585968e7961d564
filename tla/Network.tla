------------------------------ MODULE Network ------------------------------
(* What all services are reached through: the connections to chains, of     *)
(* RpcConnections, and the HTTP client's requests, of RetryTransport. They  *)
(* share no state: of a connection's request, the transport only changes    *)
(* which reply or failure it ends with, and RpcConnections allows them all. *)
(* So a behaviour is of the one or of the other, which is idle meanwhile.   *)
EXTENDS RpcConnections

CONSTANTS Retries, Delay, MaxDelay, RetryAfters

\* New makes a transport that retries, and that waits before it does.
ASSUME TransportAssumption ==
  {Retries, Delay, MaxDelay} \subseteq Nat \ {0} /\ RetryAfters \subseteq Nat

VARIABLES request, body, pc, retry, backoff, asked, wait, open, ended, result

Transport == INSTANCE RetryTransport WITH cancelled <- ended

transport == <<request, body, pc, retry, backoff, asked, wait, open, ended, result>>

\* No request.
NoRequest ==
  /\ request = "none" /\ body = "whole" /\ pc = "idle" /\ retry = 0 /\ backoff = Delay
  /\ asked = Transport!NoHeader /\ wait = 0 /\ open = {} /\ ended = FALSE
  /\ result = Transport!Nothing

\* No callers.
NoCallers ==
  /\ configured \in Configurations /\ configured = <<>>
  /\ chain = [c \in Callers |-> CHOOSE h \in Chains : TRUE]
  /\ cancelled = {} /\ got = [c \in Callers |-> "none"]
  /\ conn = [h \in Chains |-> Absent]
  /\ lock = {} /\ list = FALSE /\ downloads = 0

NetworkInit == (Init /\ NoRequest) \/ (NoCallers /\ Transport!Init)

NetworkNext ==
  \/ pc = "idle" /\ Next /\ UNCHANGED transport
  \/ Transport!Next /\ pc # "idle" /\ UNCHANGED vars

NetworkSpec ==
  NetworkInit /\ [][NetworkNext]_<<vars, transport>> /\ Fairness /\ Transport!Fairness

-----------------------------------------------------------------------------

\* The properties of RetryTransport, of its requests: no response leaks, a request
\* is retried while it may be and as it was asked to be, and it ends.
OnlyResultOpen == Transport!OnlyResultOpen

\* See RetryTransport.
RetriesAsAsked == Transport!RetriesAsAsked

\* See RetryTransport.
Ends == Transport!Ends
=============================================================================
