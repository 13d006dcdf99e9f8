------------------------------ MODULE WorkQueue ------------------------------
(***************************************************************************)
(* What start_worker() of uibottom.c promises its callers: a bounded FIFO  *)
(* of jobs run one at a time, in the order they were accepted, by one      *)
(* thread.  A call answers -1 only when Capacity jobs are accepted and not *)
(* yet finished; an accepted job is never lost and never run twice.        *)
(***************************************************************************)
EXTENDS Integers, Sequences

CONSTANTS Job,       (* the jobs callers submit                            *)
          Capacity   (* jobs that may be accepted and unfinished at a time *)

VARIABLES pending,   (* accepted, unfinished jobs, the oldest first        *)
          running,   (* is the oldest of them being run?                   *)
          ret        (* what the last call answered                        *)

avars == <<pending, running, ret>>

AInit ==
    /\ pending = <<>>
    /\ running = FALSE
    /\ ret = 0

Accept(j) ==
    /\ Len(pending) < Capacity
    /\ pending' = Append(pending, j)
    /\ ret' = 0
    /\ UNCHANGED running

Refuse ==
    /\ Len(pending) = Capacity
    /\ ret' = -1
    /\ UNCHANGED <<pending, running>>

Start ==
    /\ ~running
    /\ pending # <<>>
    /\ running' = TRUE
    /\ UNCHANGED <<pending, ret>>

Finish ==
    /\ running
    /\ running' = FALSE
    /\ pending' = Tail(pending)
    /\ UNCHANGED ret

ANext ==
    \/ \E j \in Job : Accept(j)
    \/ Refuse
    \/ Start
    \/ Finish

AFairness == WF_avars(Start) /\ WF_avars(Finish)

ASpec == AInit /\ [][ANext]_avars /\ AFairness
==============================================================================
