------------------------ MODULE SubmissionContract ------------------------
(***************************************************************************)
(* What perf/async_pipeline.py promises of each event, without queue or    *)
(* threads (its module docstring and AsyncSubmissionService's): a          *)
(* submitted event is tried at most MaxAttempts times; it ends committed   *)
(* by the try that succeeds or dead-lettered by the last one that fails,   *)
(* never both, and whatever it ended as it stays.                          *)
(***************************************************************************)
EXTENDS Naturals

CONSTANTS Events, MaxAttempts

VARIABLES outcome,   \* what has become of each event
          calls      \* how often each event has been tried

cvars == <<outcome, calls>>

Init ==
    /\ outcome = [e \in Events |-> "new"]
    /\ calls = [e \in Events |-> 0]

Submit(e) ==
    /\ outcome[e] = "new"
    /\ outcome' = [outcome EXCEPT ![e] = "pending"]
    /\ UNCHANGED calls

Try(e) ==
    /\ outcome[e] = "pending"
    /\ calls[e] < MaxAttempts
    /\ calls' = [calls EXCEPT ![e] = @ + 1]

Succeed(e) == Try(e) /\ outcome' = [outcome EXCEPT ![e] = "committed"]

FailAndKeep(e) ==
    /\ Try(e)
    /\ calls[e] + 1 < MaxAttempts
    /\ UNCHANGED outcome

FailForGood(e) ==
    /\ Try(e)
    /\ calls[e] + 1 = MaxAttempts
    /\ outcome' = [outcome EXCEPT ![e] = "dead_lettered"]

Next == \E e \in Events :
            Submit(e) \/ Succeed(e) \/ FailAndKeep(e) \/ FailForGood(e)

Spec == Init /\ [][Next]_cvars
=============================================================================
