--------------------------- MODULE RetryTransport ---------------------------
(* internal/httpretry: one request of the HTTP client that every service is  *)
(* asked with, which is sent again while it is rate limited or a gateway     *)
(* rejects it. Times are in units; a response is the number of the attempt   *)
(* that it answers; of its status only whether it is retried is kept.        *)
EXTENDS Integers

CONSTANTS
  Retries,      \* how often a request is retried,
  Delay,        \* the time before the first retry,
  MaxDelay,     \* and the longest time before one
  RetryAfters   \* times that a Retry-After header asks for

VARIABLES
  request,   \* what the body of the request is: "none", "copied" or "stream"
  body,      \* what is left of the attempt's: "whole" or "read"
  pc,        \* "send", "wait" or "done", or "idle" if there is no request
  retry,     \* the number of retries so far
  backoff,   \* the next delay
  asked,     \* the last response's Retry-After
  wait,      \* the time that the timer is set to
  open,      \* responses whose body isn't closed
  cancelled, \* whether the request's context is done
  result     \* what the caller gets

vars == <<request, body, pc, retry, backoff, asked, wait, open, cancelled, result>>

Least(a, b) == IF a < b THEN a ELSE b

\* No Retry-After, or one that is neither a number of seconds nor a date. A date
\* in the past asks for 0.
NoHeader == -1

Nothing == [kind |-> "none"]

Failure == [kind |-> "error"]

Response(n, retryable) == [kind |-> "response", attempt |-> n, retryable |-> retryable]

Repeatable == request # "stream"

Init ==
  /\ request \in {"none", "copied", "stream"}
  /\ body = "whole" /\ pc = "send" /\ retry = 0 /\ backoff = Delay
  /\ asked = NoHeader /\ wait = 0 /\ open = {} /\ cancelled = FALSE /\ result = Nothing

\* Mutant: the header is only followed up to the maximum.
CappedHeader(after) ==
  IF after # NoHeader THEN {Least(after, MaxDelay)}
  ELSE LET d == Least(backoff, MaxDelay) IN {d \div 2 + j : j \in 0..(d \div 2)}

\* What the header asks for, or else the backoff with jitter.
Waits(after) ==
  IF after # NoHeader THEN {after}
  ELSE LET d == Least(backoff, MaxDelay) IN {d \div 2 + j : j \in 0..(d \div 2)}

MayRetry(retryable) == Repeatable /\ retryable /\ retry # Retries

\* Mutant: the response that is retried is left open.
LeftOpen(n) == open \cup {n}

Discard(n) == open \ {n}

\* Sends the attempt. Its answer is returned, or discarded and retried later.
Send ==
  /\ pc = "send" /\ ~cancelled
  /\ body' = "read"
  /\ \E retryable \in BOOLEAN, after \in RetryAfters \cup {NoHeader} :
       /\ asked' = after
       /\ \E w \in Waits(after) :
            IF MayRetry(retryable) /\ w <= MaxDelay
            THEN /\ pc' = "wait" /\ wait' = w
                 /\ open' = Discard(retry) /\ UNCHANGED result
            ELSE /\ pc' = "done" /\ UNCHANGED wait
                 /\ open' = open \cup {retry} /\ result' = Response(retry, retryable)
       /\ backoff' = IF MayRetry(retryable) THEN Least(2 * backoff, MaxDelay) ELSE backoff
  /\ UNCHANGED <<request, retry, cancelled>>

\* The request fails, as it does at once if its context is done.
SendFails ==
  /\ pc = "send"
  /\ pc' = "done" /\ result' = Failure
  /\ UNCHANGED <<request, body, retry, backoff, asked, wait, open, cancelled>>

NewBody == "whole"

Counted == retry + 1

\* The timer fires, and a copy of the request is made with a new body.
TimerFires ==
  /\ pc = "wait"
  /\ pc' = "send" /\ body' = NewBody /\ retry' = Counted
  /\ UNCHANGED <<request, backoff, asked, wait, open, cancelled, result>>

\* The body can't be read again.
GetBodyFails ==
  /\ pc = "wait" /\ request = "copied"
  /\ pc' = "done" /\ result' = Failure
  /\ UNCHANGED <<request, body, retry, backoff, asked, wait, open, cancelled>>

\* Mutant: only a retry looks at the context, not the wait.
AfterTheWait == cancelled /\ pc = "send"

WaitEnds == cancelled /\ pc = "wait"

ContextEndsWait ==
  /\ WaitEnds
  /\ pc' = "done" /\ result' = Failure
  /\ UNCHANGED <<request, body, retry, backoff, asked, wait, open, cancelled>>

Cancel ==
  /\ pc # "done" /\ ~cancelled
  /\ cancelled' = TRUE
  /\ UNCHANGED <<request, body, pc, retry, backoff, asked, wait, open, result>>

RoundTrip == Send \/ SendFails \/ TimerFires \/ GetBodyFails \/ ContextEndsWait

Next == RoundTrip \/ Cancel

\* The base transport answers or fails, and a select with a channel that is ready
\* goes on. Nothing is assumed of the timer.
Fairness == WF_vars(Send \/ SendFails) /\ WF_vars(ContextEndsWait)

Spec == Init /\ [][Next]_vars /\ Fairness

-----------------------------------------------------------------------------

\* Of the responses of all attempts, only the one that the caller gets is open,
\* and it is the last, which wasn't closed to retry it (RoundTrip, "returns the
\* last of those responses").
OnlyResultOpen ==
  /\ open = (IF result.kind = "response" THEN {result.attempt} ELSE {})
  /\ result.kind = "response" => result.attempt = retry

\* A rejected response is returned only if no retry may follow it: its retries
\* are used up, it asks for too long, or the body can't be sent again. A wait is
\* never longer than the maximum, nor shorter than what the server asks for, and
\* without a Retry-After at least half of the doubled delay. No attempt sends a
\* body of which an earlier one read a part.
RetriesAsAsked ==
  /\ result.kind = "response" /\ result.retryable =>
       ~Repeatable \/ result.attempt = Retries \/ asked > MaxDelay
  /\ pc = "wait" =>
       /\ wait <= MaxDelay
       /\ asked # NoHeader => wait >= asked
       /\ asked = NoHeader => wait >= Least(Delay * 2^retry, MaxDelay) \div 2
  /\ pc = "send" => body = "whole"

\* A request whose context is done ends, whatever the timer does, and if timers
\* fire, every request ends.
Ends ==
  /\ cancelled ~> pc = "done"
  /\ WF_vars(TimerFires) => (pc = "send" ~> pc = "done")
=============================================================================
