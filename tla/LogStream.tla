----------------------------- MODULE LogStream -----------------------------
(***************************************************************************)
(* What a caller of ethrpc.Client.ScanLogs is promised: the logs of a      *)
(* fixed stream, one at a time and in order, until the stream is           *)
(* complete, the scan fails, or the caller stops reading.                  *)
(***************************************************************************)
EXTENDS Naturals, Sequences

VARIABLES expected,   \* the logs of the whole range, in chain order
          yielded,    \* the logs that the caller got so far
          status      \* "open", then one of the three final values

vars == <<expected, yielded, status>>

Init ==
  /\ yielded = <<>>
  /\ status \in {"open", "done"}
  /\ status = "done" => expected = <<>>

\* The caller gets the next log, and may stop reading at it. A scan that just
\* delivered its last log may complete in the same step.
Deliver ==
  /\ status = "open"
  /\ Len(yielded) < Len(expected)
  /\ yielded' = Append(yielded, expected[Len(yielded) + 1])
  /\ status' \in {"open", "stopped", "done"}
  /\ status' = "done" => yielded' = expected
  /\ UNCHANGED expected

\* The scan ends without another log. It only completes with every log.
End ==
  /\ status = "open"
  /\ status' \in {"done", "failed"}
  /\ status' = "done" => yielded = expected
  /\ UNCHANGED <<expected, yielded>>

Next == Deliver \/ End

Spec == Init /\ [][Next]_vars
=============================================================================
