-------------------------------- MODULE Worker --------------------------------
(***************************************************************************)
(* The worker thread of uibottom.c (lines 528-567): a ring of MAXPENDING   *)
(* slots, filled by the main thread in start_worker() and emptied by       *)
(* worker_thread().  No lock protects the ring; a slot whose function is   *)
(* NULL is free, and a counting semaphore tells the thread that a slot is  *)
(* filled.  Each access to the shared memory is a step of its own.         *)
(***************************************************************************)
EXTENDS Integers, Sequences

CONSTANTS Job,          (* what callers submit: a function with its data   *)
          NULL,         (* an empty slot                                   *)
          MAXPENDING,   (* slots of the ring                               *)
          SemMax        (* the count at which the semaphore saturates      *)

ASSUME WorkerAssumption ==
    /\ NULL \notin Job
    /\ MAXPENDING \in Nat \ {0}
    /\ SemMax \in Nat
    /\ MAXPENDING <= SemMax

VARIABLES
    worker_fn, worker_data,   (* the ring: the two halves of each job      *)
    sem,                      (* worker_sem, -1 before worker_init()       *)
    p1,                       (* where start_worker() puts the next job    *)
    p2,                       (* where worker_thread() takes the next job  *)
    mpc, job,                 (* the main thread in start_worker(job)      *)
    wpc,                      (* the worker thread                         *)
    ret                       (* what the last start_worker() returned     *)

mvars == <<p1, mpc, job, ret>>
wvars == <<p2, wpc>>
vars == <<worker_fn, worker_data, sem, mvars, wvars>>

Slot == 0 .. MAXPENDING - 1
Succ(p) == (p + 1) % MAXPENDING

Init ==
    /\ worker_fn = [s \in Slot |-> NULL]
    /\ worker_data = [s \in Slot |-> NULL]
    /\ sem = -1
    /\ p1 = 0 /\ p2 = 0
    /\ mpc = "idle" /\ job = NULL /\ ret = 0
    /\ wpc = "none"
------------------------------------------------------------------------------
(* The main thread in start_worker().                                      *)

StartWorker(j) ==
    /\ mpc = "idle"
    /\ job' = j
    /\ mpc' = IF sem = -1 THEN "init" ELSE "test"
    /\ UNCHANGED <<worker_fn, worker_data, sem, p1, wvars, ret>>

(* worker_init() creates the semaphore and the thread, and only then       *)
(* clears the ring.                                                        *)
CreateThread ==
    /\ mpc = "init"
    /\ sem' = 0
    /\ wpc' = "wait"
    /\ mpc' = "memset"
    /\ UNCHANGED <<worker_fn, worker_data, p1, p2, job, ret>>

ClearRing ==
    /\ mpc = "memset"
    /\ worker_fn' = [s \in Slot |-> NULL]
    /\ worker_data' = [s \in Slot |-> NULL]
    /\ mpc' = "test"
    /\ UNCHANGED <<sem, p1, job, ret, wvars>>

RingFull ==
    /\ mpc = "test"
    /\ worker_fn[p1] # NULL
    /\ ret' = -1
    /\ mpc' = "idle" /\ job' = NULL
    /\ UNCHANGED <<worker_fn, worker_data, sem, p1, wvars>>

FillFn ==
    /\ mpc = "test"
    /\ worker_fn[p1] = NULL
    /\ worker_fn' = [worker_fn EXCEPT ![p1] = job]
    /\ mpc' = "data"
    /\ UNCHANGED <<worker_data, sem, p1, job, ret, wvars>>

FillData ==
    /\ mpc = "data"
    /\ worker_data' = [worker_data EXCEPT ![p1] = job]
    /\ mpc' = "post"
    /\ UNCHANGED <<worker_fn, sem, p1, job, ret, wvars>>

SemPost ==
    /\ mpc = "post"
    /\ sem' = IF sem < SemMax THEN sem + 1 ELSE sem
    /\ mpc' = "advance"
    /\ ret' = 0
    /\ UNCHANGED <<worker_fn, worker_data, p1, job, wvars>>

AdvanceP1 ==
    /\ mpc = "advance"
    /\ p1' = Succ(p1)
    /\ mpc' = "idle" /\ job' = NULL
    /\ UNCHANGED <<worker_fn, worker_data, sem, ret, wvars>>
------------------------------------------------------------------------------
(* The worker thread in worker_thread().                                   *)

SemWait ==
    /\ wpc = "wait"
    /\ sem > 0
    /\ sem' = sem - 1
    /\ wpc' = "run"
    /\ UNCHANGED <<worker_fn, worker_data, mvars, p2>>

JobReturns ==
    /\ wpc = "run"
    /\ wpc' = "clear"
    /\ UNCHANGED <<worker_fn, worker_data, sem, mvars, p2>>

KeepSlot ==                                 \* plausible bug: the slot stays filled
    /\ wpc = "clear"
    /\ wpc' = "advance"
    /\ UNCHANGED <<worker_fn, worker_data, sem, mvars, p2>>

FreeSlot ==
    /\ wpc = "clear"
    /\ worker_fn' = [worker_fn EXCEPT ![p2] = NULL]
    /\ wpc' = "advance"
    /\ UNCHANGED <<worker_data, sem, mvars, p2>>

AdvanceP2 ==
    /\ wpc = "advance"
    /\ p2' = Succ(p2)
    /\ wpc' = "wait"
    /\ UNCHANGED <<worker_fn, worker_data, sem, mvars>>
------------------------------------------------------------------------------
WorkerInit == CreateThread \/ ClearRing
InStartWorker ==
    WorkerInit \/ RingFull \/ FillFn \/ FillData \/ SemPost \/ AdvanceP1
WorkerThread == SemWait \/ JobReturns \/ FreeSlot \/ AdvanceP2

Next ==
    \/ \E j \in Job : StartWorker(j)
    \/ InStartWorker
    \/ WorkerThread

(* Both threads keep running: start_worker() never blocks and every job    *)
(* returns.  Nobody has to submit a job.                                   *)
Fairness == WF_vars(InStartWorker) /\ WF_vars(WorkerThread)

Spec == Init /\ [][Next]_vars /\ Fairness
------------------------------------------------------------------------------
(* The slots the worker has still to finish: Held of them from Head on.    *)

Head1 == IF wpc = "advance" THEN Succ(p2) ELSE p2
Held ==
    (IF sem > 0 THEN sem ELSE 0) + (IF wpc \in {"run", "clear"} THEN 1 ELSE 0)

(* The i-th slot from p on, the ring being closed.                         *)
At(p, i) == IF p + i < MAXPENDING THEN p + i ELSE p + i - MAXPENDING

TypeOK ==
    /\ worker_fn \in [Slot -> Job \cup {NULL}]
    /\ worker_data \in [Slot -> Job \cup {NULL}]
    /\ sem \in -1 .. SemMax
    /\ p1 \in Slot /\ p2 \in Slot
    /\ mpc \in {"idle", "init", "memset", "test", "data", "post", "advance"}
    /\ job \in Job \cup {NULL}
    /\ wpc \in {"none", "wait", "run", "clear", "advance"}
    /\ ret \in {-1, 0}

(* The call `(worker_fn[p2])(worker_data[p2])` never jumps through NULL,   *)
(* and the data it passes is the data submitted with that function.        *)
RunsWholeJob ==
    wpc = "run" => /\ worker_fn[p2] # NULL
                   /\ worker_data[p2] = worker_fn[p2]

(* SDL_SemPost never hits the ceiling of the semaphore, where a post is    *)
(* dropped: a filled slot would then stay filled for ever.                 *)
NoLostPost == mpc = "post" => sem < SemMax

(* While the main thread is filling slot p1 the worker is at another slot. *)
NoSharedSlot ==
    mpc \in {"data", "post"} /\ wpc \in {"run", "clear"} => p1 # p2

(* The ring, seen from the slot the worker will finish next: the Held      *)
(* slots from there on hold whole jobs, the rest are free, but for the one *)
(* start_worker() may be filling; and p1 is the first that is free.        *)
Ahead(h, s) == IF s >= h THEN s - h ELSE s - h + MAXPENDING
Tail1 == IF mpc = "advance" THEN Succ(p1) ELSE p1
Filling == mpc \in {"data", "post"}

PhaseInv ==
    /\ wpc = "none" <=> sem = -1
    /\ wpc = "none" => mpc \in {"idle", "init"}
    /\ mpc = "init" => wpc = "none"
    /\ mpc = "memset" => Held = 0
    /\ mpc # "idle" => job \in Job
    /\ Filling => Held < MAXPENDING

RingInv ==
    /\ Held <= MAXPENDING
    /\ Held < MAXPENDING => Ahead(Head1, Tail1) = Held
    /\ Held = MAXPENDING => Tail1 = Head1
    /\ \A s \in Slot : Ahead(Head1, s) < Held =>
           worker_fn[s] \in Job /\ worker_data[s] = worker_fn[s]
    /\ \A s \in Slot : Ahead(Head1, s) >= Held =>
           worker_fn[s] = IF Filling /\ s = p1 THEN job ELSE NULL
    /\ mpc = "post" => worker_data[p1] = job

IndInv == TypeOK /\ PhaseInv /\ RingInv

(* The ring is the FIFO of WorkQueue.tla: a job is accepted when its post  *)
(* is made and finished when its slot is freed.                            *)
Pending == [i \in 1 .. Held |-> worker_fn[At(Head1, i - 1)]]
Running == wpc \in {"run", "clear"}

Queue == INSTANCE WorkQueue WITH
    Capacity <- MAXPENDING, pending <- Pending, running <- Running

ImplementsQueue == Queue!ASpec
ImplementsQueueSafely == Queue!AInit /\ [][Queue!ANext]_(Queue!avars)
==============================================================================
