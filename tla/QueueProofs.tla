----------------------------- MODULE QueueProofs -----------------------------
(***************************************************************************)
(* Proofs about the two queues between a thread of the program and one     *)
(* that works it off: the ring of Worker.tla, for every number of slots    *)
(* and any jobs, with the keyboard's animation that runs on it; and the    *)
(* DSP's list of AudioStream.tla, for every rate and any pieces.           *)
(***************************************************************************)
EXTENDS KeyboardAnimation, AudioStream, NumberLemmas, SequenceTheorems

(* The successor of a slot: `(p+1)%MAXPENDING` without the division.       *)
LEMMA SuccSlot ==
    ASSUME NEW p \in Slot
    PROVE  /\ Succ(p) = IF p = MAXPENDING - 1 THEN 0 ELSE p + 1
           /\ Succ(p) \in Slot
  BY WorkerAssumption DEF Succ, Slot

(* Before anything is started the ring is empty and the threads at rest.   *)
LEMMA InitInd == Init => IndInv
  <1> SUFFICES ASSUME Init PROVE IndInv
    OBVIOUS
  <1>1. TypeOK
    BY WorkerAssumption DEF Init, TypeOK, Slot
  <1>2. PhaseInv
    BY DEF Init, PhaseInv, Filling
  <1>3. Held = 0 /\ Head1 = 0 /\ Tail1 = 0
    BY DEF Init, Held, Head1, Tail1
  <1>4. RingInv
    BY <1>3, WorkerAssumption DEF Init, RingInv, Ahead, Filling, Slot
  <1> QED
    BY <1>1, <1>2, <1>4 DEF IndInv

(* Where the ring is seen from, and how much of it is held, are in range.  *)
LEMMA RingTypes ==
    ASSUME TypeOK
    PROVE  Held \in Nat /\ Head1 \in Slot /\ Tail1 \in Slot
  BY SuccSlot DEF TypeOK, Held, Head1, Tail1

(* Distances along the ring: within it, one to one, and one less from the  *)
(* next slot.                                                              *)
LEMMA AheadSlot ==
    ASSUME NEW h \in Slot, NEW s \in Slot
    PROVE  /\ Ahead(h, s) \in 0 .. MAXPENDING - 1
           /\ Ahead(h, s) = 0 <=> s = h
           /\ Ahead(Succ(h), s) =
                  IF s = h THEN MAXPENDING - 1 ELSE Ahead(h, s) - 1
           /\ Ahead(h, Succ(s)) =
                  IF Ahead(h, s) = MAXPENDING - 1 THEN 0 ELSE Ahead(h, s) + 1
           /\ \A t \in Slot : Ahead(h, t) = Ahead(h, s) => t = s
  BY SuccSlot, WorkerAssumption DEF Ahead, Slot

(* Every step of the two threads keeps the invariant.                      *)
LEMMA NextInd == IndInv /\ [Next]_vars => IndInv'
  <1> SUFFICES ASSUME IndInv, [Next]_vars PROVE IndInv'
    OBVIOUS
  <1> USE WorkerAssumption DEF IndInv
  <1>t. Held \in Nat /\ Head1 \in Slot /\ Tail1 \in Slot
    BY RingTypes
  <1>1. ASSUME NEW j \in Job, StartWorker(j) PROVE IndInv'
    <2> USE <1>1 DEF StartWorker, mvars, wvars
    <2>1. TypeOK' /\ PhaseInv'
      BY DEF TypeOK, PhaseInv, Held, Filling
    <2>2. Held' = Held /\ Head1' = Head1 /\ Tail1' = Tail1
      BY DEF TypeOK, PhaseInv, Held, Head1, Tail1
    <2>3. RingInv'
      BY <1>t, <2>2, AheadSlot, SuccSlot DEF TypeOK, PhaseInv, RingInv, Filling
    <2> QED
      BY <2>1, <2>3
  <1>2. ASSUME CreateThread PROVE IndInv'
    <2> USE <1>2 DEF CreateThread, mvars, wvars
    <2>1. TypeOK' /\ PhaseInv'
      BY DEF TypeOK, PhaseInv, Held, Filling
    <2>2. Held' = Held /\ Head1' = Head1 /\ Tail1' = Tail1
      BY DEF TypeOK, PhaseInv, Held, Head1, Tail1
    <2>3. RingInv'
      BY <1>t, <2>2, AheadSlot, SuccSlot DEF TypeOK, PhaseInv, RingInv, Filling
    <2> QED
      BY <2>1, <2>3
  <1>3. ASSUME ClearRing PROVE IndInv'
    <2> USE <1>3 DEF ClearRing, mvars, wvars
    <2>1. TypeOK' /\ PhaseInv'
      BY DEF TypeOK, PhaseInv, Held, Filling
    <2>2. Held' = Held /\ Head1' = Head1 /\ Tail1' = Tail1
      BY DEF TypeOK, PhaseInv, Held, Head1, Tail1
    <2>3. RingInv'
      BY <1>t, <2>2, AheadSlot, SuccSlot DEF TypeOK, PhaseInv, RingInv, Filling
    <2> QED
      BY <2>1, <2>3
  <1>4. ASSUME RingFull PROVE IndInv'
    <2> USE <1>4 DEF RingFull, mvars, wvars
    <2>1. TypeOK' /\ PhaseInv'
      BY DEF TypeOK, PhaseInv, Held, Filling
    <2>2. Held' = Held /\ Head1' = Head1 /\ Tail1' = Tail1
      BY DEF TypeOK, PhaseInv, Held, Head1, Tail1
    <2>3. RingInv'
      BY <1>t, <2>2, AheadSlot, SuccSlot DEF TypeOK, PhaseInv, RingInv, Filling
    <2> QED
      BY <2>1, <2>3
  <1>5. ASSUME FillFn PROVE IndInv'
    <2> USE <1>5 DEF FillFn, mvars, wvars
    <2>0. Held < MAXPENDING
      BY <1>t, AheadSlot DEF TypeOK, PhaseInv, RingInv, Tail1, Slot
    <2>1. TypeOK' /\ PhaseInv'
      BY <2>0 DEF TypeOK, PhaseInv, Held, Filling
    <2>2. Held' = Held /\ Head1' = Head1 /\ Tail1' = Tail1
      BY DEF TypeOK, PhaseInv, Held, Head1, Tail1
    <2>3. RingInv'
      BY <1>t, <2>2, AheadSlot, SuccSlot DEF TypeOK, PhaseInv, RingInv, Filling
    <2> QED
      BY <2>1, <2>3
  <1>6. ASSUME FillData PROVE IndInv'
    <2> USE <1>6 DEF FillData, mvars, wvars
    <2>0. Held < MAXPENDING /\ Tail1 = p1 /\ Ahead(Head1, p1) = Held
      BY <1>t DEF PhaseInv, RingInv, Filling, Tail1
    <2>1. TypeOK' /\ PhaseInv'
      BY DEF TypeOK, PhaseInv, Held, Filling
    <2>2. Held' = Held /\ Head1' = Head1 /\ Tail1' = Tail1
      BY DEF TypeOK, PhaseInv, Held, Head1, Tail1
    <2>3. RingInv'
      BY <1>t, <2>0, <2>2, AheadSlot, SuccSlot DEF TypeOK, PhaseInv, RingInv, Filling
    <2> QED
      BY <2>1, <2>3
  <1>7. ASSUME SemPost PROVE IndInv'
    <2> USE <1>7 DEF SemPost, mvars, wvars
    <2>0. Held < MAXPENDING /\ Tail1 = p1 /\ Ahead(Head1, p1) = Held
      BY <1>t DEF PhaseInv, RingInv, Filling, Tail1
    <2>a. sem' = sem + 1
      BY <2>0 DEF TypeOK, PhaseInv, Held
    <2>1. TypeOK' /\ PhaseInv'
      BY <2>0, <2>a DEF TypeOK, PhaseInv, Held, Filling
    <2>2. Held' = Held + 1 /\ Head1' = Head1 /\ Tail1' = Succ(p1)
      BY <2>a DEF TypeOK, PhaseInv, Held, Head1, Tail1
    <2>3. Ahead(Head1, Succ(p1)) = IF Held = MAXPENDING - 1 THEN 0 ELSE Held + 1
      BY <1>t, <2>0, AheadSlot DEF TypeOK
    <2>4. \A s \in Slot : s # p1 => Ahead(Head1, s) # Held
      BY <1>t, <2>0, AheadSlot DEF TypeOK
    <2>5. Held + 1 <= MAXPENDING /\ Succ(p1) \in Slot
      BY <1>t, <2>0, SuccSlot DEF TypeOK
    <2>6. RingInv'
      BY <1>t, <2>0, <2>2, <2>3, <2>4, <2>5, AheadSlot DEF TypeOK, PhaseInv, RingInv, Filling
    <2> QED
      BY <2>1, <2>6
  <1>8. ASSUME AdvanceP1 PROVE IndInv'
    <2> USE <1>8 DEF AdvanceP1, mvars, wvars
    <2>1. TypeOK' /\ PhaseInv'
      BY SuccSlot DEF TypeOK, PhaseInv, Held, Filling
    <2>2. Held' = Held /\ Head1' = Head1 /\ Tail1' = Tail1
      BY DEF TypeOK, PhaseInv, Held, Head1, Tail1
    <2>3. RingInv'
      BY <1>t, <2>2, AheadSlot, SuccSlot DEF TypeOK, PhaseInv, RingInv, Filling
    <2> QED
      BY <2>1, <2>3
  <1>9. ASSUME SemWait PROVE IndInv'
    <2> USE <1>9 DEF SemWait, mvars, wvars
    <2>1. TypeOK' /\ PhaseInv'
      BY DEF TypeOK, PhaseInv, Held, Filling
    <2>2. Held' = Held /\ Head1' = Head1 /\ Tail1' = Tail1
      BY DEF TypeOK, PhaseInv, Held, Head1, Tail1
    <2>3. RingInv'
      BY <1>t, <2>2, AheadSlot, SuccSlot DEF TypeOK, PhaseInv, RingInv, Filling
    <2> QED
      BY <2>1, <2>3
  <1>10. ASSUME JobReturns PROVE IndInv'
    <2> USE <1>10 DEF JobReturns, mvars, wvars
    <2>1. TypeOK' /\ PhaseInv'
      BY DEF TypeOK, PhaseInv, Held, Filling
    <2>2. Held' = Held /\ Head1' = Head1 /\ Tail1' = Tail1
      BY DEF TypeOK, PhaseInv, Held, Head1, Tail1
    <2>3. RingInv'
      BY <1>t, <2>2, AheadSlot, SuccSlot DEF TypeOK, PhaseInv, RingInv, Filling
    <2> QED
      BY <2>1, <2>3
  <1>11. ASSUME FreeSlot PROVE IndInv'
    <2> USE <1>11 DEF FreeSlot, mvars, wvars
    <2>1. TypeOK' /\ PhaseInv'
      BY DEF TypeOK, PhaseInv, Held, Filling
    <2>2. Held' = Held - 1 /\ Head1' = Succ(Head1) /\ Tail1' = Tail1
      BY DEF TypeOK, PhaseInv, Held, Head1, Tail1
    <2>3. Held >= 1 /\ p2 = Head1
      BY <1>t DEF TypeOK, PhaseInv, Held, Head1
    <2>4. Filling => p1 # Head1
      BY <1>t, <2>3, AheadSlot DEF PhaseInv, RingInv, Filling, Tail1
    <2>5. \A s \in Slot :
            /\ Ahead(Head1, s) \in 0 .. MAXPENDING - 1
            /\ Ahead(Head1, s) = 0 <=> s = Head1
            /\ Ahead(Head1', s) =
                   IF s = Head1 THEN MAXPENDING - 1 ELSE Ahead(Head1, s) - 1
      BY <1>t, <2>2, AheadSlot
    <2>6. Held <= MAXPENDING /\ Held' <= MAXPENDING - 1
      BY <1>t, <2>2, <2>3 DEF RingInv
    <2>7. Ahead(Head1', Tail1') = Held'
      BY <1>t, <2>2, <2>3, <2>5, <2>6 DEF RingInv
    <2>8. \A s \in Slot : Ahead(Head1', s) < Held' =>
            worker_fn'[s] \in Job /\ worker_data'[s] = worker_fn'[s]
      BY <1>t, <2>2, <2>3, <2>5, <2>6 DEF TypeOK, RingInv
    <2>9. \A s \in Slot : Ahead(Head1', s) >= Held' =>
            worker_fn'[s] = IF Filling' /\ s = p1' THEN job' ELSE NULL
      BY <1>t, <2>2, <2>3, <2>4, <2>5, <2>6 DEF TypeOK, RingInv, Filling
    <2>10. RingInv'
      BY <1>t, <2>2, <2>6, <2>7, <2>8, <2>9 DEF RingInv
    <2> QED
      BY <2>1, <2>10
  <1>12. ASSUME AdvanceP2 PROVE IndInv'
    <2> USE <1>12 DEF AdvanceP2, mvars, wvars
    <2>1. TypeOK' /\ PhaseInv'
      BY SuccSlot DEF TypeOK, PhaseInv, Held, Filling
    <2>2. Held' = Held /\ Head1' = Head1 /\ Tail1' = Tail1
      BY DEF TypeOK, PhaseInv, Held, Head1, Tail1
    <2>3. RingInv'
      BY <1>t, <2>2, AheadSlot, SuccSlot DEF TypeOK, PhaseInv, RingInv, Filling
    <2> QED
      BY <2>1, <2>3
  <1>13. CASE UNCHANGED vars
    <2> USE <1>13 DEF vars, mvars, wvars
    <2>1. TypeOK' /\ PhaseInv'
      BY DEF TypeOK, PhaseInv, Held, Filling
    <2>2. Held' = Held /\ Head1' = Head1 /\ Tail1' = Tail1
      BY DEF TypeOK, PhaseInv, Held, Head1, Tail1
    <2>3. RingInv'
      BY <1>t, <2>2, AheadSlot, SuccSlot DEF TypeOK, PhaseInv, RingInv, Filling
    <2> QED
      BY <2>1, <2>3
  <1> QED
    BY <1>1, <1>2, <1>3, <1>4, <1>5, <1>6, <1>7, <1>8, <1>9, <1>10, <1>11, <1>12, <1>13
    DEF Next, InStartWorker, WorkerInit, WorkerThread

(* The invariant holds in every reachable state.                           *)
THEOREM Inductive == Spec => []IndInv
  <1>1. Init => IndInv
    BY InitInd
  <1>2. IndInv /\ [Next]_vars => IndInv'
    BY NextInd
  <1> QED
    BY <1>1, <1>2, PTL DEF Spec

(* worker_thread() never calls NULL and never pairs a function with the    *)
(* data of another job.                                                    *)
THEOREM WholeJobs == Spec => []RunsWholeJob
  <1>1. IndInv => RunsWholeJob
    <2> SUFFICES ASSUME IndInv, wpc = "run"
                 PROVE  worker_fn[p2] # NULL /\ worker_data[p2] = worker_fn[p2]
      BY DEF RunsWholeJob
    <2>1. Held > 0 /\ Held \in Nat /\ Head1 = p2 /\ p2 \in Slot
      BY RingTypes DEF IndInv, TypeOK, Held, Head1
    <2>2. Ahead(Head1, p2) = 0
      BY <2>1, AheadSlot
    <2> QED
      BY <2>1, <2>2, WorkerAssumption DEF IndInv, RingInv
  <1> QED
    BY <1>1, Inductive, PTL

(* The post in start_worker() is never dropped by a full semaphore.        *)
THEOREM PostsCount == Spec => []NoLostPost
  <1>1. IndInv => NoLostPost
    BY WorkerAssumption
    DEF IndInv, TypeOK, PhaseInv, NoLostPost, Held, Filling
  <1> QED
    BY <1>1, Inductive, PTL

(* The two threads never use one slot at the same time.                    *)
THEOREM SlotsApart == Spec => []NoSharedSlot
  <1>1. IndInv => NoSharedSlot
    <2> SUFFICES ASSUME IndInv, Filling, wpc \in {"run", "clear"}
                 PROVE  p1 # p2
      BY DEF NoSharedSlot, Filling
    <2>1. Held > 0 /\ Held < MAXPENDING /\ Head1 = p2 /\ Tail1 = p1 /\ p2 \in Slot
      BY RingTypes DEF IndInv, TypeOK, PhaseInv, Held, Head1, Tail1, Filling
    <2> QED
      BY <2>1, AheadSlot DEF IndInv, RingInv
  <1> QED
    BY <1>1, Inductive, PTL

(* At() walks along the ring: it undoes Ahead(), and the second slot from  *)
(* p on is the first from the successor of p on.                           *)
LEMMA AtSlot ==
    ASSUME NEW h \in Slot, NEW i \in 0 .. MAXPENDING - 1
    PROVE  /\ At(h, i) \in Slot
           /\ Ahead(h, At(h, i)) = i
           /\ i > 0 => At(Succ(h), i - 1) = At(h, i)
  BY SuccSlot, WorkerAssumption DEF At, Ahead, Slot

(* The sequence of unfinished jobs is one, as long as Held says.           *)
LEMMA PendingSeq ==
    ASSUME IndInv
    PROVE  /\ Pending \in Seq(Job)
           /\ Len(Pending) = Held
           /\ Held \in 0 .. MAXPENDING
           /\ \A i \in 1 .. Held : Pending[i] = worker_fn[At(Head1, i - 1)]
  <1>1. Held \in 0 .. MAXPENDING /\ Head1 \in Slot
    BY RingTypes, WorkerAssumption DEF IndInv, RingInv
  <1>2. \A i \in 1 .. Held : worker_fn[At(Head1, i - 1)] \in Job
    <2> SUFFICES ASSUME NEW i \in 1 .. Held
                 PROVE  worker_fn[At(Head1, i - 1)] \in Job
      OBVIOUS
    <2>1. i - 1 \in 0 .. MAXPENDING - 1
      BY <1>1, WorkerAssumption
    <2> QED
      BY <1>1, <2>1, AtSlot DEF IndInv, RingInv
  <1> QED
    BY <1>1, <1>2 DEF Pending

(* A step that keeps the ring's held part keeps the sequence.              *)
LEMMA SamePending ==
    ASSUME IndInv, Held' = Held, Head1' = Head1,
           \A s \in Slot : Ahead(Head1, s) < Held => worker_fn'[s] = worker_fn[s]
    PROVE  Pending' = Pending
  <1>1. Held \in 0 .. MAXPENDING /\ Head1 \in Slot
    BY RingTypes, WorkerAssumption DEF IndInv, RingInv
  <1>2. ASSUME NEW i \in 1 .. Held
        PROVE  worker_fn'[At(Head1, i - 1)] = worker_fn[At(Head1, i - 1)]
    <2>1. i - 1 \in 0 .. MAXPENDING - 1
      BY <1>1, WorkerAssumption
    <2> QED
      BY <1>1, <2>1, AtSlot
  <1> QED
    BY <1>2 DEF Pending

(* Every step of the ring is a step of the queue or leaves it alone.       *)
LEMMA StepRefines ==
    IndInv /\ IndInv' /\ [Next]_vars => [Queue!ANext]_(Queue!avars)
  <1> SUFFICES ASSUME IndInv, IndInv', [Next]_vars
               PROVE  [Queue!ANext]_(Queue!avars)
    OBVIOUS
  <1>t. Held \in Nat /\ Head1 \in Slot /\ Tail1 \in Slot
    BY RingTypes DEF IndInv
  <1> DEFINE Same == UNCHANGED <<Pending, Running, ret>>
  <1>s. Same => [Queue!ANext]_(Queue!avars)
    BY DEF Queue!avars
  <1> HIDE DEF Same
  <1>1. ASSUME NEW j \in Job, StartWorker(j) PROVE Same
    <2> USE <1>1 DEF StartWorker, mvars, wvars
    <2>1. Held' = Held /\ Head1' = Head1
      BY DEF IndInv, TypeOK, PhaseInv, Held, Head1
    <2>2. \A s \in Slot : Ahead(Head1, s) < Held => worker_fn'[s] = worker_fn[s]
      BY <1>t, AheadSlot DEF IndInv, TypeOK, PhaseInv, RingInv
    <2>3. Pending' = Pending
      BY <2>1, <2>2, SamePending
    <2> QED
      BY <2>3 DEF Same, Running, IndInv, PhaseInv
  <1>2. ASSUME CreateThread PROVE Same
    <2> USE <1>2 DEF CreateThread, mvars, wvars
    <2>1. Held' = Held /\ Head1' = Head1
      BY DEF IndInv, TypeOK, PhaseInv, Held, Head1
    <2>2. \A s \in Slot : Ahead(Head1, s) < Held => worker_fn'[s] = worker_fn[s]
      BY <1>t, AheadSlot DEF IndInv, TypeOK, PhaseInv, RingInv
    <2>3. Pending' = Pending
      BY <2>1, <2>2, SamePending
    <2> QED
      BY <2>3 DEF Same, Running, IndInv, PhaseInv
  <1>3. ASSUME ClearRing PROVE Same
    <2> USE <1>3 DEF ClearRing, mvars, wvars
    <2>1. Held' = Held /\ Head1' = Head1
      BY DEF IndInv, TypeOK, PhaseInv, Held, Head1
    <2>2. \A s \in Slot : Ahead(Head1, s) < Held => worker_fn'[s] = worker_fn[s]
      BY <1>t, AheadSlot DEF IndInv, TypeOK, PhaseInv, RingInv
    <2>3. Pending' = Pending
      BY <2>1, <2>2, SamePending
    <2> QED
      BY <2>3 DEF Same, Running, IndInv, PhaseInv
  <1>4. ASSUME FillFn PROVE Same
    <2> USE <1>4 DEF FillFn, mvars, wvars
    <2>1. Held' = Held /\ Head1' = Head1
      BY DEF IndInv, TypeOK, PhaseInv, Held, Head1
    <2>a. Held < MAXPENDING
      BY <1>t, AheadSlot, WorkerAssumption
      DEF IndInv, TypeOK, PhaseInv, RingInv, Tail1, Slot
    <2>2. \A s \in Slot : Ahead(Head1, s) < Held => worker_fn'[s] = worker_fn[s]
      BY <1>t, <2>a, AheadSlot DEF IndInv, TypeOK, RingInv, Tail1
    <2>3. Pending' = Pending
      BY <2>1, <2>2, SamePending
    <2> QED
      BY <2>3 DEF Same, Running, IndInv, PhaseInv
  <1>5. ASSUME FillData PROVE Same
    <2> USE <1>5 DEF FillData, mvars, wvars
    <2>1. Held' = Held /\ Head1' = Head1
      BY DEF IndInv, TypeOK, PhaseInv, Held, Head1
    <2>2. \A s \in Slot : Ahead(Head1, s) < Held => worker_fn'[s] = worker_fn[s]
      BY <1>t, AheadSlot DEF IndInv, TypeOK, PhaseInv, RingInv
    <2>3. Pending' = Pending
      BY <2>1, <2>2, SamePending
    <2> QED
      BY <2>3 DEF Same, Running, IndInv, PhaseInv
  <1>6. ASSUME AdvanceP1 PROVE Same
    <2> USE <1>6 DEF AdvanceP1, mvars, wvars
    <2>1. Held' = Held /\ Head1' = Head1
      BY DEF IndInv, TypeOK, PhaseInv, Held, Head1
    <2>2. \A s \in Slot : Ahead(Head1, s) < Held => worker_fn'[s] = worker_fn[s]
      BY <1>t, AheadSlot DEF IndInv, TypeOK, PhaseInv, RingInv
    <2>3. Pending' = Pending
      BY <2>1, <2>2, SamePending
    <2> QED
      BY <2>3 DEF Same, Running, IndInv, PhaseInv
  <1>7. ASSUME JobReturns PROVE Same
    <2> USE <1>7 DEF JobReturns, mvars, wvars
    <2>1. Held' = Held /\ Head1' = Head1
      BY DEF IndInv, TypeOK, PhaseInv, Held, Head1
    <2>2. \A s \in Slot : Ahead(Head1, s) < Held => worker_fn'[s] = worker_fn[s]
      BY <1>t, AheadSlot DEF IndInv, TypeOK, PhaseInv, RingInv
    <2>3. Pending' = Pending
      BY <2>1, <2>2, SamePending
    <2> QED
      BY <2>3 DEF Same, Running, IndInv, PhaseInv
  <1>8. ASSUME AdvanceP2 PROVE Same
    <2> USE <1>8 DEF AdvanceP2, mvars, wvars
    <2>1. Held' = Held /\ Head1' = Head1
      BY DEF IndInv, TypeOK, PhaseInv, Held, Head1
    <2>2. \A s \in Slot : Ahead(Head1, s) < Held => worker_fn'[s] = worker_fn[s]
      BY <1>t, AheadSlot DEF IndInv, TypeOK, PhaseInv, RingInv
    <2>3. Pending' = Pending
      BY <2>1, <2>2, SamePending
    <2> QED
      BY <2>3 DEF Same, Running, IndInv, PhaseInv
  <1>9. ASSUME UNCHANGED vars PROVE Same
    BY <1>9 DEF vars, mvars, wvars, Same, Pending, Running, Held, Head1
  <1>10. ASSUME RingFull PROVE Queue!Refuse
    <2> USE <1>10 DEF RingFull, mvars, wvars
    <2>1. Held = MAXPENDING
      BY <1>t, AheadSlot, WorkerAssumption
      DEF IndInv, TypeOK, PhaseInv, RingInv, Tail1, Filling
    <2>2. Held' = Held /\ Head1' = Head1
      BY DEF IndInv, TypeOK, PhaseInv, Held, Head1
    <2>3. Pending' = Pending
      BY <2>2, SamePending
    <2> QED
      BY <2>1, <2>3, PendingSeq DEF Queue!Refuse, Running
  <1>11. ASSUME SemWait PROVE Queue!Start
    <2> USE <1>11 DEF SemWait, mvars, wvars
    <2>1. Held' = Held /\ Head1' = Head1 /\ Held > 0
      BY DEF IndInv, TypeOK, Held, Head1
    <2>2. Pending' = Pending
      BY <2>1, SamePending
    <2>3. Pending # <<>>
      BY <2>1, PendingSeq
    <2> QED
      BY <2>2, <2>3 DEF Queue!Start, Running
  <1>12. ASSUME SemPost PROVE Queue!Accept(job) /\ job \in Job
    <2> USE <1>12 DEF SemPost, mvars, wvars
    <2>1. /\ Held < MAXPENDING /\ Tail1 = p1 /\ Ahead(Head1, p1) = Held
          /\ job \in Job
      BY <1>t DEF IndInv, PhaseInv, RingInv, Filling, Tail1
    <2>2. Held' = Held + 1 /\ Head1' = Head1
      BY <2>1, WorkerAssumption DEF IndInv, TypeOK, PhaseInv, Held, Head1
    <2>3. At(Head1, Held) = p1
      BY <1>t, <2>1, AtSlot, AheadSlot DEF IndInv, TypeOK
    <2>4. worker_fn[p1] = job
      BY <1>t, <2>1 DEF IndInv, TypeOK, RingInv, Filling
    <2>5. Pending' = [i \in 1 .. Held + 1 |-> worker_fn[At(Head1, i - 1)]]
      BY <2>2 DEF Pending
    <2>6. Pending' = Append(Pending, job)
      <3>1. \A i \in 1 .. Held + 1 :
               worker_fn[At(Head1, i - 1)] = Append(Pending, job)[i]
        BY <1>t, <2>3, <2>4, PendingSeq
      <3>2. /\ Append(Pending, job) \in Seq(Job)
            /\ Len(Append(Pending, job)) = Held + 1
        BY <2>1, PendingSeq
      <3>3. \A i \in 1 .. Held + 1 : worker_fn[At(Head1, i - 1)] \in Job
        BY <3>1, <3>2
      <3>4. Held + 1 \in Nat /\ Pending' \in [1 .. Held + 1 -> Job]
        BY <1>t, <2>5, <3>3
      <3>5. Pending' \in Seq(Job) /\ Len(Pending') = Held + 1
        BY <3>4
      <3>6. \A i \in 1 .. Held + 1 : Pending'[i] = Append(Pending, job)[i]
        BY <2>5, <3>1
      <3> QED
        BY <3>2, <3>5, <3>6, SeqEqual
    <2> QED
      BY <2>1, <2>6, PendingSeq DEF Queue!Accept, Running
  <1>13. ASSUME FreeSlot PROVE Queue!Finish
    <2> USE <1>13 DEF FreeSlot, mvars, wvars
    <2>1. Held' = Held - 1 /\ Head1' = Succ(Head1) /\ Held > 0 /\ p2 = Head1
      BY <1>t DEF IndInv, TypeOK, PhaseInv, Held, Head1
    <2>2. ASSUME NEW i \in 1 .. Held - 1
          PROVE  worker_fn'[At(Head1', i - 1)] = worker_fn[At(Head1, i)]
      <3>1. i \in 0 .. MAXPENDING - 1 /\ i > 0
        BY <1>t, PendingSeq, WorkerAssumption
      <3>2. /\ At(Head1', i - 1) = At(Head1, i)
            /\ At(Head1, i) \in Slot
            /\ At(Head1, i) # p2
        BY <1>t, <2>1, <3>1, AtSlot, AheadSlot
      <3> QED
        BY <3>2 DEF IndInv, TypeOK
    <2>3. Pending' = [i \in 1 .. Held - 1 |-> worker_fn[At(Head1, i)]]
      BY <2>1, <2>2 DEF Pending
    <2>4. Pending' = Tail(Pending)
      <3>1. \A i \in 1 .. Held - 1 : worker_fn[At(Head1, i)] = Tail(Pending)[i]
        BY <1>t, <2>1, PendingSeq
      <3>2. Tail(Pending) \in Seq(Job) /\ Len(Tail(Pending)) = Held - 1
        BY <1>t, <2>1, PendingSeq
      <3>3. \A i \in 1 .. Held - 1 : worker_fn[At(Head1, i)] \in Job
        BY <3>1, <3>2
      <3>4. Held - 1 \in Nat /\ Pending' \in [1 .. Held - 1 -> Job]
        BY <1>t, <2>1, <2>3, <3>3
      <3>5. Pending' \in Seq(Job) /\ Len(Pending') = Held - 1
        BY <3>4
      <3>6. \A i \in 1 .. Held - 1 : Pending'[i] = Tail(Pending)[i]
        BY <2>3, <3>1
      <3> QED
        BY <3>2, <3>5, <3>6, SeqEqual
    <2> QED
      BY <2>4 DEF Queue!Finish, Running
  <1> QED
    BY <1>s, <1>1, <1>2, <1>3, <1>4, <1>5, <1>6, <1>7, <1>8, <1>9, <1>10, <1>11, <1>12, <1>13
    DEF Next, InStartWorker, WorkerInit, WorkerThread, Queue!ANext

(* The ring behaves as the bounded FIFO of WorkQueue.tla: jobs run in the  *)
(* order of acceptance, none lost, none twice, and -1 only when it is full. *)
THEOREM RingIsQueue == Spec => ImplementsQueueSafely
  <1>1. Init => Queue!AInit
    <2> SUFFICES ASSUME Init PROVE Queue!AInit
      OBVIOUS
    <2>1. Held = 0
      BY DEF Init, Held
    <2>2. Pending = <<>>
      BY <2>1 DEF Pending
    <2> QED
      BY <2>2 DEF Init, Queue!AInit, Running
  <1>2. IndInv /\ IndInv' /\ [Next]_vars => [Queue!ANext]_(Queue!avars)
    BY StepRefines
  <1> QED
    BY <1>1, <1>2, Inductive, PTL DEF Spec, ImplementsQueueSafely

--------------------------------------------------------------------------------
(* The animation on the worker's ring: the job accepted last goes where    *)
(* dest says, and when a job is over the keyboard is where it was sent.    *)
Last == worker_fn[At(Head1, Held - 1)]

AnimationInv ==
    /\ kb_y_pos \in Int /\ step \in 0 .. Steps + 1
    /\ from \in {Shown, Hidden} /\ dest \in {Shown, Hidden}
    /\ wpc # "run" => step = 0
    /\ wpc = "run" /\ step > Steps => kb_y_pos = worker_data[p2][2]
    /\ wpc = "clear" => kb_y_pos = worker_fn[p2][2]
    /\ Held > 0 => Last[2] = dest
    /\ Held = 0 => kb_y_pos = dest

(* A step that keeps the held part of the ring keeps the last job of it.   *)
LEMMA SameLast ==
    ASSUME IndInv, Held' = Held, Head1' = Head1, Held > 0,
           \A t \in Slot : Ahead(Head1, t) < Held => worker_fn'[t] = worker_fn[t]
    PROVE  Last' = Last
  <1>1. Held \in 1 .. MAXPENDING /\ Head1 \in Slot
    BY RingTypes, WorkerAssumption DEF IndInv, RingInv
  <1>2. At(Head1, Held - 1) \in Slot /\ Ahead(Head1, At(Head1, Held - 1)) = Held - 1
    BY <1>1, AtSlot, WorkerAssumption
  <1> QED
    BY <1>1, <1>2 DEF Last, At

(* The job in work is the first of the ring, whole.                        *)
LEMMA InWork ==
    ASSUME IndInv, wpc \in {"run", "clear"}
    PROVE  /\ p2 \in Slot /\ p2 = Head1 /\ Held \in 1 .. MAXPENDING
           /\ worker_fn[p2] \in Job /\ worker_data[p2] = worker_fn[p2]
           /\ Filling => p1 # p2
  <1>1. Held \in 1 .. MAXPENDING /\ Head1 = p2 /\ p2 \in Slot
    BY RingTypes, WorkerAssumption DEF IndInv, TypeOK, RingInv, Held, Head1
  <1>2. Ahead(Head1, p2) = 0
    BY <1>1, AheadSlot
  <1>3. Filling => Held < MAXPENDING /\ Ahead(Head1, p1) = Held
    BY DEF IndInv, PhaseInv, RingInv, Tail1, Filling
  <1> QED
    BY <1>1, <1>2, <1>3 DEF IndInv, RingInv

(* The steps of the animation are steps of the ring.                       *)
LEMMA AnimationSteps == AnimationInv /\ [KNext]_kbvars => [Next]_vars
  <1> SUFFICES ASSUME AnimationInv, KNext
               PROVE  [Next]_vars
    BY DEF kbvars
  <1>1. CASE ToggleTo
    <2> DEFINE j == <<from, IF kb_y_pos < Hidden THEN Hidden ELSE Shown>>
    <2>1. j \in Job
      BY AnimationAssumption DEF AnimationInv
    <2>2. StartWorker(j)
      BY <1>1 DEF ToggleTo
    <2> HIDE DEF j
    <2> QED
      BY <2>1, <2>2 DEF Next
  <1> QED
    BY <1>1 DEF KNext, ToggleFrom, InToggle, KWorker, Animate, AnimationEnds,
                InWorker, Next, WorkerThread

(* The main thread in toggle_keyboard() and start_worker().                *)
LEMMA ToggleStep ==
    IndInv /\ AnimationInv /\ (ToggleFrom \/ ToggleTo \/ InToggle) => AnimationInv'
  <1> SUFFICES ASSUME IndInv, AnimationInv, ToggleFrom \/ ToggleTo \/ InToggle
               PROVE  AnimationInv'
    OBVIOUS
  <1>t. Held \in Nat /\ Head1 \in Slot /\ Tail1 \in Slot
    BY RingTypes DEF IndInv
  <1>1. CASE ToggleFrom
    BY <1>1 DEF ToggleFrom, AnimationInv, vars, mvars, wvars, Held, Head1, Last
  <1>2. CASE ToggleTo
    BY <1>2 DEF ToggleTo, StartWorker, AnimationInv, wvars, Held, Head1, Last
  <1>3. CASE InToggle
    <2> USE <1>3 DEF InToggle
    <2>1. UNCHANGED <<kb_y_pos, from, step>>
      OBVIOUS
    <2>2. CASE CreateThread
      BY <2>1, <2>2 DEF CreateThread, AnimationInv, IndInv, PhaseInv, TypeOK, Held, Head1
    <2>3. CASE ClearRing
      BY <2>1, <2>3, InWork DEF ClearRing, AnimationInv, IndInv, PhaseInv, Held, wvars
    <2>4. CASE RingFull
      BY <2>1, <2>4 DEF RingFull, AnimationInv, wvars, Held, Head1, Last
    <2>5. CASE FillFn
      <3> USE <2>5 DEF FillFn, wvars
      <3>0. Tail1 = p1 /\ Held < MAXPENDING
        BY <1>t, AheadSlot, WorkerAssumption
        DEF IndInv, TypeOK, PhaseInv, RingInv, Tail1, Slot
      <3>1. Held < MAXPENDING /\ Ahead(Head1, p1) = Held /\ p1 \in Slot
        BY <3>0 DEF IndInv, TypeOK, RingInv
      <3>2. /\ Held' = Held /\ Head1' = Head1 /\ dest' = dest
            /\ UNCHANGED <<wpc, p2, worker_data>>
        BY DEF Held, Head1
      <3>3. \A t \in Slot : Ahead(Head1, t) < Held => worker_fn'[t] = worker_fn[t]
        BY <1>t, <3>1 DEF IndInv, TypeOK
      <3>4. Held > 0 => Last' = Last
        BY <3>2, <3>3, SameLast
      <3>5. wpc \in {"run", "clear"} => worker_fn'[p2] = worker_fn[p2]
        BY <3>3, InWork, AheadSlot
      <3> QED
        BY <2>1, <3>2, <3>4, <3>5 DEF AnimationInv
    <2>6. CASE FillData
      <3> USE <2>6 DEF FillData, wvars
      <3>1. /\ Held' = Held /\ Head1' = Head1 /\ dest' = dest /\ Filling
            /\ UNCHANGED <<wpc, p2, worker_fn>>
        BY DEF Held, Head1, Filling
      <3>2. wpc = "run" => worker_data'[p2] = worker_data[p2]
        BY <3>1, InWork DEF IndInv, TypeOK
      <3>3. Last' = Last
        BY <3>1 DEF Last, At
      <3> QED
        BY <2>1, <3>1, <3>2, <3>3 DEF AnimationInv
    <2>7. CASE SemPost
      <3> USE <2>7 DEF SemPost, wvars
      <3>1. /\ Held < MAXPENDING /\ Tail1 = p1 /\ Ahead(Head1, p1) = Held
            /\ job \in Job /\ p1 \in Slot
        BY <1>t DEF IndInv, TypeOK, PhaseInv, RingInv, Filling, Tail1
      <3>2. Held' = Held + 1 /\ Head1' = Head1
        BY <3>1, WorkerAssumption DEF IndInv, TypeOK, PhaseInv, Held, Head1
      <3>3. At(Head1, Held) = p1
        BY <1>t, <3>1, AtSlot, AheadSlot
      <3>4. worker_fn[p1] = job
        BY <1>t, <3>1 DEF IndInv, RingInv, Filling
      <3>5. Last' = job
        BY <1>t, <3>2, <3>3, <3>4 DEF Last, At
      <3>6. dest' = job[2] /\ job[2] \in {Shown, Hidden}
        BY <3>1, AnimationAssumption
      <3> QED
        BY <1>t, <2>1, <3>2, <3>5, <3>6 DEF AnimationInv
    <2>8. CASE AdvanceP1
      BY <2>1, <2>8 DEF AdvanceP1, AnimationInv, wvars, Held, Head1, Last
    <2> QED
      BY <2>2, <2>3, <2>4, <2>5, <2>6, <2>7, <2>8 DEF InStartWorker, WorkerInit
  <1> QED
    BY <1>1, <1>2, <1>3

(* The whole way of a job leads to its end.                                *)
LEMMA WholeWay ==
    ASSUME NEW a \in Job
    PROVE  Position(a, Steps) = a[2] /\ \A i \in Nat : Position(a, i) \in Int
  <1>1. Steps \in Nat \ {0} /\ a[1] \in {0, Steps} /\ a[2] \in {0, Steps}
    BY AnimationAssumption DEF Shown, Hidden
  <1>2. /\ Steps \div Steps = 1 /\ 0 \div Steps = 0 /\ (-Steps) \div Steps = -1
    BY <1>1
  <1>3. CASE a[1] = a[2]
    BY <1>1, <1>2, <1>3 DEF Position
  <1>4. CASE a[1] = 0 /\ a[2] = Steps
    BY <1>1, <1>2, <1>4 DEF Position
  <1>5. CASE a[1] = Steps /\ a[2] = 0
    BY <1>1, <1>2, <1>5 DEF Position
  <1> QED
    BY <1>1, <1>3, <1>4, <1>5

(* The worker thread, running animate().                                   *)
LEMMA AnimateStep == IndInv /\ AnimationInv /\ KWorker => AnimationInv'
  <1> SUFFICES ASSUME IndInv, AnimationInv, KWorker
               PROVE  AnimationInv'
    OBVIOUS
  <1>t. Held \in Nat /\ Head1 \in Slot /\ Steps \in Nat \ {0}
    BY RingTypes, AnimationAssumption DEF IndInv
  <1>1. CASE Animate
    <2> USE <1>1 DEF Animate
    <2>1. /\ UNCHANGED <<worker_fn, worker_data, sem, p2, wpc, from, dest>>
          /\ wpc = "run" /\ step \in Nat /\ step <= Steps /\ step' = step + 1
      BY DEF vars, mvars, wvars, AnimationInv
    <2>2. worker_data[p2] \in Job /\ Held > 0
      BY <2>1, InWork
    <2>3. Held' = Held /\ Last' = Last
      BY <2>1 DEF Held, Head1, Last, At
    <2>4. kb_y_pos' \in Int /\ (step' > Steps => kb_y_pos' = worker_data[p2][2])
      <3>1. kb_y_pos' = Position(worker_data[p2], step)
        OBVIOUS
      <3>2. step' > Steps => step = Steps
        BY <1>t, <2>1
      <3> QED
        BY <2>1, <2>2, <3>1, <3>2, WholeWay
    <2> QED
      BY <1>t, <2>1, <2>2, <2>3, <2>4 DEF AnimationInv
  <1>2. CASE AnimationEnds
    <2> USE <1>2 DEF AnimationEnds, JobReturns
    <2>1. /\ UNCHANGED <<worker_fn, worker_data, sem, p2, kb_y_pos, from, dest>>
          /\ wpc = "run" /\ wpc' = "clear" /\ step > Steps /\ step' = 0
      OBVIOUS
    <2>2. worker_data[p2] = worker_fn[p2] /\ Held > 0
      BY <2>1, InWork
    <2>3. Held' = Held /\ Head1' = Head1
      BY <2>1 DEF Held, Head1
    <2>4. Last' = Last
      BY <2>1, <2>3 DEF Last, At
    <2> QED
      BY <1>t, <2>1, <2>2, <2>3, <2>4 DEF AnimationInv
  <1>3. CASE SemWait /\ UNCHANGED avars
    <2>1. /\ UNCHANGED <<worker_fn, worker_data, p2, kb_y_pos, from, step, dest>>
          /\ wpc = "wait" /\ wpc' = "run" /\ sem > 0 /\ sem' = sem - 1
      BY <1>3 DEF SemWait, avars
    <2>2. Held' = Held /\ Head1' = Head1
      BY <2>1 DEF Held, Head1, IndInv, TypeOK
    <2>3. Last' = Last
      BY <2>1, <2>2 DEF Last, At
    <2> QED
      BY <1>t, <2>1, <2>2, <2>3 DEF AnimationInv
  <1>4. CASE FreeSlot /\ UNCHANGED avars
    <2> USE <1>4 DEF FreeSlot, avars, mvars
    <2>1. Held' = Held - 1 /\ Head1' = Succ(Head1) /\ Head1 = p2 /\ Held \in 1 .. MAXPENDING
      BY InWork DEF IndInv, TypeOK, PhaseInv, Held, Head1
    <2>2. CASE Held = 1
      <3>1. At(Head1, 0) = Head1
        BY <1>t, WorkerAssumption DEF At, Slot
      <3>2. kb_y_pos = dest
        BY <2>1, <2>2, <3>1 DEF AnimationInv, Last
      <3> QED
        BY <2>1, <2>2, <3>2 DEF AnimationInv
    <2>3. CASE Held > 1
      <3>1. /\ At(Succ(Head1), Held - 2) = At(Head1, Held - 1)
            /\ At(Head1, Held - 1) \in Slot /\ At(Head1, Held - 1) # Head1
        <4>1. Held - 1 \in 0 .. MAXPENDING - 1 /\ Held - 1 > 0 /\ (Held - 1) - 1 = Held - 2
          BY <2>1, <2>3, WorkerAssumption
        <4> QED
          BY <1>t, <4>1, AtSlot, AheadSlot
      <3>2. Last' = Last
        <4>1. worker_fn'[At(Head1, Held - 1)] = worker_fn[At(Head1, Held - 1)]
          BY <2>1, <3>1 DEF IndInv, TypeOK
        <4>2. Last' = worker_fn'[At(Head1', Held' - 1)]
          BY DEF Last, At
        <4>3. Held' - 1 = Held - 2
          BY <2>1
        <4> QED
          BY <2>1, <3>1, <4>1, <4>2, <4>3 DEF Last
      <3> QED
        BY <2>1, <2>3, <3>2 DEF AnimationInv
    <2> QED
      BY <2>1, <2>2, <2>3
  <1>5. CASE AdvanceP2 /\ UNCHANGED avars
    <2>1. /\ UNCHANGED <<worker_fn, worker_data, sem, kb_y_pos, from, step, dest>>
          /\ wpc = "advance" /\ wpc' = "wait" /\ p2' = Succ(p2)
      BY <1>5 DEF AdvanceP2, avars, mvars
    <2>2. Held' = Held /\ Head1' = Head1
      BY <2>1 DEF Held, Head1
    <2>3. Last' = Last
      BY <2>1, <2>2 DEF Last, At
    <2> QED
      BY <1>t, <2>1, <2>2, <2>3 DEF AnimationInv
  <1> QED
    BY <1>1, <1>2, <1>3, <1>4, <1>5 DEF KWorker, InWorker

LEMMA AnimationInductive ==
    IndInv /\ AnimationInv /\ [KNext]_kbvars => IndInv' /\ AnimationInv'
  <1>1. IndInv /\ AnimationInv /\ [KNext]_kbvars => IndInv'
    BY AnimationSteps, NextInd
  <1>2. IndInv /\ AnimationInv /\ KNext => AnimationInv'
    BY ToggleStep, AnimateStep DEF KNext
  <1>3. AnimationInv /\ UNCHANGED kbvars => AnimationInv'
    BY DEF AnimationInv, kbvars, avars, vars, mvars, wvars, Held, Head1, Last
  <1> QED
    BY <1>1, <1>2, <1>3

LEMMA AnimationInit == KInit => IndInv /\ AnimationInv
  BY InitInd, AnimationAssumption DEF KInit, Init, AnimationInv, Held, Hidden, Shown

(* The keyboard rests where the last accepted toggle sent it, for any      *)
(* number of slots and steps.                                              *)
THEOREM KeyboardRests == KSpec => []RestsAsAsked
  <1>1. AnimationInv => RestsAsAsked
    BY DEF AnimationInv, RestsAsAsked
  <1> QED
    BY <1>1, AnimationInit, AnimationInductive, PTL DEF KSpec

(* With the animations as its jobs the ring is still the queue.            *)
THEOREM AnimationsAreQueued == KSpec => ImplementsQueueSafely
  <1>1. KInit => Init
    BY DEF KInit
  <1>2. KSpec => Init /\ [](IndInv /\ AnimationInv) /\ [][KNext]_kbvars
    BY <1>1, AnimationInit, AnimationInductive, PTL DEF KSpec
  <1>3. Init => Queue!AInit
    BY DEF Init, Queue!AInit, Pending, Running, Held
  <1>4. IndInv /\ IndInv' /\ AnimationInv /\ [KNext]_kbvars
            => [Queue!ANext]_(Queue!avars)
    BY AnimationSteps, StepRefines
  <1> QED
    BY <1>2, <1>3, <1>4, PTL DEF ImplementsQueueSafely
------------------------------------------------------------------------------
(* The audio stream: what the buffers of a list add up to.                 *)
ABuffer == [nsamples : Samples, done : BOOLEAN]
Buffers == Seq(ABuffer)

LEMMA BufferIs ==
    \A b \in ABuffer :
        /\ b.nsamples \in Samples /\ b.nsamples \in Nat
        /\ [b EXCEPT !.done = TRUE] \in ABuffer
        /\ [b EXCEPT !.done = TRUE].nsamples = b.nsamples
        /\ [b EXCEPT !.done = TRUE].done = TRUE
  BY AudioAssumption DEF ABuffer

LEMMA PartIs ==
    ASSUME NEW T, NEW s \in Seq(T), NEW a \in 1 .. Len(s) + 1, NEW b \in 0 .. Len(s),
           a <= b + 1
    PROVE  /\ SubSeq(s, a, b) \in Seq(T)
           /\ Len(SubSeq(s, a, b)) = b + 1 - a
           /\ \A i \in 1 .. b + 1 - a : SubSeq(s, a, b)[i] = s[a - 1 + i]
  <1>1. /\ Len(s) \in Nat /\ a \in Int /\ b \in Int
        /\ \A i \in a .. b : s[i] \in T
    <2>1. Len(s) \in Nat /\ \A i \in 1 .. Len(s) : s[i] \in T
      OBVIOUS
    <2>2. a \in Int /\ b \in Int /\ \A i \in a .. b : i \in 1 .. Len(s)
      BY <2>1
    <2> QED
      BY <2>1, <2>2
  <1>2. /\ SubSeq(s, a, b) \in Seq(T)
        /\ Len(SubSeq(s, a, b)) = IF a <= b THEN b - a + 1 ELSE 0
        /\ \A i \in 1 .. b - a + 1 : SubSeq(s, a, b)[i] = s[a + i - 1]
    BY <1>1, SubSeqProperties
  <1>3. \A i \in 1 .. b + 1 - a : a - 1 + i = a + i - 1 /\ i \in 1 .. b - a + 1
    BY <1>1
  <1> QED
    BY <1>1, <1>2, <1>3

LEMMA SumOfIs ==
    ASSUME NEW bufs \in Buffers
    PROVE  /\ SumOf(bufs) = Sum([i \in 1 .. Len(bufs) |-> bufs[i].nsamples], Len(bufs))
           /\ \A i \in 1 .. Len(bufs) : bufs[i].nsamples \in Samples /\ bufs[i].nsamples \in Nat
           /\ SumOf(bufs) \in Nat
  <1> DEFINE f == [i \in 1 .. Len(bufs) |-> bufs[i].nsamples]
  <1>1. SumOf(bufs) = Sum(f, Len(bufs))
    BY DEF SumOf, Buffers
  <1>2. \A i \in 1 .. Len(bufs) : bufs[i].nsamples \in Samples /\ bufs[i].nsamples \in Nat
    <2>1. \A i \in 1 .. Len(bufs) : bufs[i] \in ABuffer
      BY DEF Buffers
    <2> QED
      BY <2>1, BufferIs
  <1>3. Len(bufs) \in Nat /\ \A i \in 1 .. Len(bufs) : f[i] \in Nat
    BY <1>2 DEF Buffers
  <1> HIDE DEF f
  <1>4. Sum(f, Len(bufs)) \in Nat
    <2>1. \A i \in 0 .. Len(bufs) : Sum(f, i) \in Nat
      BY <1>3, SumType
    <2>2. Len(bufs) \in 0 .. Len(bufs)
      BY <1>3
    <2> QED
      BY <2>1, <2>2
  <1> QED
    BY <1>1, <1>2, <1>4 DEF f

LEMMA SumOfNone == SumOf(<<>>) = 0
  BY SumNext DEF SumOf

LEMMA SumOfOneMore ==
    ASSUME NEW bufs \in Buffers, NEW n \in Samples
    PROVE  /\ Append(bufs, Buffer(n)) \in Buffers
           /\ SumOf(Append(bufs, Buffer(n))) = SumOf(bufs) + n
  <1> DEFINE more == Append(bufs, Buffer(n))
             f == [i \in 1 .. Len(bufs) |-> bufs[i].nsamples]
             g == [i \in 1 .. Len(more) |-> more[i].nsamples]
  <1>1. /\ more \in Buffers /\ Len(more) = Len(bufs) + 1
        /\ \A i \in 1 .. Len(bufs) : more[i] = bufs[i]
        /\ more[Len(bufs) + 1].nsamples = n
        /\ Len(bufs) \in Nat
    <2>1. Buffer(n) \in ABuffer /\ Buffer(n).nsamples = n
      BY DEF ABuffer, Buffer
    <2> HIDE DEF more
    <2> QED
      BY <2>1 DEF Buffers, more
  <1>2. /\ SumOf(more) = Sum(g, Len(bufs) + 1)
        /\ SumOf(bufs) = Sum(f, Len(bufs))
    BY <1>1, SumOfIs
  <1>3. \A i \in 1 .. Len(bufs) : g[i] = f[i]
    BY <1>1
  <1>4. g[Len(bufs) + 1] = n
    BY <1>1
  <1> HIDE DEF f, g
  <1>5. Sum(g, Len(bufs) + 1) = Sum(g, Len(bufs)) + n
    BY <1>1, <1>4, SumNext
  <1>6. Sum(g, Len(bufs)) = Sum(f, Len(bufs))
    BY <1>1, <1>3, SumSame
  <1> QED
    BY <1>1, <1>2, <1>5, <1>6

LEMMA PartsAre ==
    ASSUME NEW bufs \in Buffers, NEW k \in 0 .. Len(bufs)
    PROVE  /\ SubSeq(bufs, 1, k) \in Buffers
           /\ Len(SubSeq(bufs, 1, k)) = k
           /\ \A i \in 1 .. k : SubSeq(bufs, 1, k)[i] = bufs[i]
           /\ SubSeq(bufs, k + 1, Len(bufs)) \in Buffers
           /\ Len(SubSeq(bufs, k + 1, Len(bufs))) = Len(bufs) - k
           /\ \A i \in 1 .. Len(bufs) - k :
                  SubSeq(bufs, k + 1, Len(bufs))[i] = bufs[k + i]
  <1>0. Len(bufs) \in Nat /\ k \in Nat
    BY DEF Buffers
  <1>1. /\ SubSeq(bufs, 1, k) \in Buffers
        /\ Len(SubSeq(bufs, 1, k)) = k
        /\ \A i \in 1 .. k : SubSeq(bufs, 1, k)[i] = bufs[i]
    <2>1. 1 \in 1 .. Len(bufs) + 1 /\ k \in 0 .. Len(bufs) /\ 1 <= k + 1
          /\ k + 1 - 1 = k /\ \A i \in 1 .. k : 1 - 1 + i = i
      BY <1>0
    <2> QED
      BY <2>1, PartIs DEF Buffers
  <1>2. /\ k + 1 \in 1 .. Len(bufs) + 1 /\ Len(bufs) \in 0 .. Len(bufs)
        /\ k + 1 <= Len(bufs) + 1
    BY <1>0
  <1>3. /\ Len(bufs) + 1 - (k + 1) = Len(bufs) - k
        /\ \A i \in 1 .. Len(bufs) - k : k + 1 - 1 + i = k + i
    <2>1. \A l \in Nat, j \in Nat : l + 1 - (j + 1) = l - j
      OBVIOUS
    <2>2. \A j \in Nat, i \in Int : j + 1 - 1 + i = j + i
      OBVIOUS
    <2> QED
      BY <1>0, <2>1, <2>2
  <1> QED
    BY <1>1, <1>2, <1>3, PartIs DEF Buffers

LEMMA SumOfParts ==
    ASSUME NEW bufs, NEW k
    PROVE  bufs \in Buffers /\ k \in 0 .. Len(bufs) =>
               SumOf(bufs) = SumOf(SubSeq(bufs, 1, k))
                               + SumOf(SubSeq(bufs, k + 1, Len(bufs)))
  <1> DEFINE a == SubSeq(bufs, 1, k)
             b == SubSeq(bufs, k + 1, Len(bufs))
             n == Len(bufs) - k
             f == [i \in 1 .. Len(bufs) |-> bufs[i].nsamples]
             fa == [i \in 1 .. Len(a) |-> a[i].nsamples]
             fb == [i \in 1 .. Len(b) |-> b[i].nsamples]
  <1>1. ASSUME bufs \in Buffers, k \in 0 .. Len(bufs)
        PROVE  SumOf(bufs) = SumOf(a) + SumOf(b)
    <2>0. /\ Len(bufs) \in Nat /\ k \in Nat /\ n \in Nat /\ Len(bufs) = k + n
          /\ bufs \in Buffers
      BY <1>1 DEF Buffers
    <2>1. /\ a \in Buffers /\ Len(a) = k /\ \A i \in 1 .. k : a[i] = bufs[i]
          /\ b \in Buffers /\ Len(b) = n /\ \A i \in 1 .. n : b[i] = bufs[k + i]
      BY <1>1, PartsAre
    <2> HIDE DEF a, b
    <2>2. /\ SumOf(bufs) = Sum(f, Len(bufs))
          /\ SumOf(a) = Sum(fa, k) /\ SumOf(b) = Sum(fb, n)
      BY <2>0, <2>1, SumOfIs
    <2>3. k \in Nat /\ n \in Nat
      BY <2>0
    <2>4. \A i \in 1 .. k : fa[i] = f[i]
      BY <2>0, <2>1
    <2>5. \A i \in 1 .. n : fb[i] = f[k + i]
      BY <2>0, <2>1
    <2>6. \A i \in 1 .. Len(bufs) : f[i] \in Int
      <3>1. \A i \in 1 .. Len(bufs) : bufs[i].nsamples \in Nat
        BY <2>0, SumOfIs
      <3>2. \A i \in 1 .. Len(bufs) : f[i] \in Nat
        BY <3>1
      <3> QED
        BY <3>2
    <2> HIDE DEF f, fa, fb, n
    <2>7. ASSUME NEW l \in Nat
          PROVE  l = k + n /\ (\A i \in 1 .. l : f[i] \in Int) =>
                     Sum(f, l) = Sum(fa, k) + Sum(fb, n)
      BY <2>3, <2>4, <2>5, SumParts
    <2>8. Sum(f, Len(bufs)) = Sum(fa, k) + Sum(fb, n)
      BY <2>0, <2>6, <2>7
    <2> QED
      BY <2>2, <2>8
  <1> QED
    BY <1>1

LEMMA SumOfPlayed ==
    ASSUME NEW bufs \in Buffers, NEW k \in 1 .. Len(bufs)
    PROVE  /\ [bufs EXCEPT ![k].done = TRUE] \in Buffers
           /\ Len([bufs EXCEPT ![k].done = TRUE]) = Len(bufs)
           /\ SumOf([bufs EXCEPT ![k].done = TRUE]) = SumOf(bufs)
  <1> DEFINE done == [bufs EXCEPT ![k].done = TRUE]
             f == [i \in 1 .. Len(bufs) |-> bufs[i].nsamples]
             g == [i \in 1 .. Len(done) |-> done[i].nsamples]
  <1>1. /\ done \in Buffers /\ Len(done) = Len(bufs) /\ Len(bufs) \in Nat
        /\ \A i \in 1 .. Len(bufs) : done[i].nsamples = bufs[i].nsamples
    <2> DEFINE b == [bufs[k] EXCEPT !.done = TRUE]
    <2>1. /\ Len(bufs) \in Nat /\ bufs \in [1 .. Len(bufs) -> ABuffer]
          /\ bufs[k] \in ABuffer
      BY DEF Buffers
    <2>2. b \in ABuffer /\ b.nsamples = bufs[k].nsamples
      BY <2>1, BufferIs
    <2>3. done = [bufs EXCEPT ![k] = b]
      OBVIOUS
    <2> HIDE DEF b, done
    <2>4. done \in [1 .. Len(bufs) -> ABuffer] /\ done \in Buffers /\ Len(done) = Len(bufs)
      BY <2>1, <2>2, <2>3 DEF Buffers
    <2>5. \A i \in 1 .. Len(bufs) : done[i] = IF i = k THEN b ELSE bufs[i]
      BY <2>1, <2>3
    <2> QED
      BY <2>1, <2>2, <2>4, <2>5
  <1> HIDE DEF done
  <1>2. SumOf(done) = Sum(g, Len(bufs)) /\ SumOf(bufs) = Sum(f, Len(bufs))
    BY <1>1, SumOfIs
  <1>3. \A i \in 1 .. Len(bufs) : g[i] = f[i]
    BY <1>1
  <1> HIDE DEF f, g
  <1>4. Sum(g, Len(bufs)) = Sum(f, Len(bufs))
    BY <1>1, <1>3, SumSame
  <1> QED
    BY <1>1, <1>2, <1>4 DEF done
------------------------------------------------------------------------------
(* The count that the program keeps is the sum of its list; it is at most  *)
(* a piece above the limit, which is 0 only while no format is known and   *)
(* the list is empty.                                                      *)
CountInv ==
    /\ waveBufs \in Buffers /\ dsp \in Buffers
    /\ queuedSamples = SumOf(waveBufs)
    /\ max_wavbuf_size \in {0, rate}
    /\ ndsp_rate = 0 => waveBufs = <<>>
    /\ queuedSamples <= max_wavbuf_size + Largest

AudioInv == CountInv /\ DspOwnsItsBuffers

LEMMA LargestIs ==
    /\ Largest \in Nat /\ \A n \in Samples : n \in Nat /\ n <= Largest
  <1>1. Largest \in Samples /\ \A n \in Samples : n <= Largest
    BY AudioAssumption DEF Largest
  <1> QED
    BY <1>1, AudioAssumption

(* Freed is just what the DSP has played: the list is then the DSP's own.  *)
LEMMA CleanedIs ==
    ASSUME AudioInv
    PROVE  /\ CountDone = Len(waveBufs) - Len(dsp)
           /\ Cleaned \in Buffers /\ Len(Cleaned) = Len(dsp)
           /\ \A i \in 1 .. Len(Cleaned) : ~Cleaned[i].done
           /\ CleanedSamples = SumOf(Cleaned)
           /\ CleanedSamples \in Nat /\ CleanedSamples <= queuedSamples
           /\ waveBufs = <<>> => Cleaned = <<>>
  <1> DEFINE L == Len(waveBufs)
             D == Len(dsp)
             playing == {i \in DOMAIN waveBufs : ~waveBufs[i].done}
  <1>1. L \in Nat /\ D \in Nat /\ D <= L /\ DOMAIN waveBufs = 1 .. L
    BY DEF AudioInv, CountInv, DspOwnsItsBuffers, Buffers
  <1>2. playing = L - D + 1 .. L
    BY <1>1 DEF AudioInv, DspOwnsItsBuffers
  <1>3. CountDone = L - D
    <2>1. CASE D = 0
      <3>1. playing = {}
        BY <1>1, <1>2, <2>1
      <3> QED
        BY <1>1, <2>1, <3>1 DEF CountDone
    <2>2. CASE D > 0
      <3>1. playing # {} /\ L - D + 1 \in playing /\ \A j \in playing : L - D + 1 <= j
        BY <1>1, <1>2, <2>2
      <3>2. \A i \in playing : (\A j \in playing : i <= j) => i = L - D + 1
        BY <1>1, <1>2, <3>1
      <3> DEFINE first == CHOOSE i \in playing : \A j \in playing : i <= j
      <3>3. CountDone = first - 1
        BY <3>1 DEF CountDone
      <3>4. first = L - D + 1
        <4> HIDE DEF playing, L, D
        <4> QED
          BY <3>1, <3>2
      <3> HIDE DEF first, L, D
      <3> QED
        BY <1>1, <3>3, <3>4
    <2> QED
      BY <1>1, <2>1, <2>2
  <1>4. CountDone \in 0 .. L /\ waveBufs \in Buffers
    BY <1>1, <1>3 DEF AudioInv, CountInv
  <1>5. /\ Cleaned \in Buffers /\ Len(Cleaned) = L - CountDone
        /\ \A i \in 1 .. L - CountDone : Cleaned[i] = waveBufs[CountDone + i]
        /\ SumOf(waveBufs) = SumOf(SubSeq(waveBufs, 1, CountDone)) + SumOf(Cleaned)
        /\ SubSeq(waveBufs, 1, CountDone) \in Buffers
    BY <1>4, PartsAre, SumOfParts DEF Cleaned
  <1>6. \A i \in 1 .. Len(Cleaned) : ~Cleaned[i].done
    <2> SUFFICES ASSUME NEW i \in 1 .. Len(Cleaned)
                 PROVE  ~Cleaned[i].done
      OBVIOUS
    <2>1. CountDone + i \in playing
      <3> HIDE DEF playing, L, D
      <3> QED
        BY <1>1, <1>2, <1>3, <1>5
    <2> QED
      BY <1>5, <2>1
  <1>7. /\ SumOf(Cleaned) \in Nat /\ SumOf(SubSeq(waveBufs, 1, CountDone)) \in Nat
        /\ queuedSamples = SumOf(waveBufs)
    BY <1>5, SumOfIs DEF AudioInv, CountInv
  <1>8. CleanedSamples = SumOf(Cleaned) /\ CleanedSamples <= queuedSamples
    BY <1>5, <1>7 DEF CleanedSamples
  <1>9. waveBufs = <<>> => Cleaned = <<>>
    <2>1. waveBufs = <<>> => Len(Cleaned) = 0
      BY <1>1, <1>3, <1>5
    <2> QED
      BY <1>5, <2>1 DEF Buffers
  <1> QED
    BY <1>1, <1>3, <1>5, <1>6, <1>7, <1>8, <1>9

(* What the parts of the program do to list and count.                     *)
LEMMA ClosedInv == ASSUME AudioInv, SoundClose PROVE AudioInv'
  <1>1. /\ waveBufs' = <<>> /\ dsp' = <<>> /\ queuedSamples' = 0
        /\ max_wavbuf_size' = max_wavbuf_size
    BY DEF SoundClose
  <1>2. <<>> \in Buffers
    BY DEF Buffers
  <1>3. 0 <= max_wavbuf_size + Largest
    BY LargestIs, AudioAssumption DEF AudioInv, CountInv
  <1> QED
    BY <1>1, <1>2, <1>3, SumOfNone DEF AudioInv, CountInv, DspOwnsItsBuffers

LEMMA SameSoundInv == ASSUME AudioInv, UNCHANGED sound PROVE AudioInv'
  BY DEF sound, AudioInv, CountInv, DspOwnsItsBuffers

LEMMA CleanInv ==
    ASSUME AudioInv, waveBufs' = Cleaned, queuedSamples' = CleanedSamples,
           UNCHANGED <<max_wavbuf_size, ndsp_rate, dsp>>
    PROVE  AudioInv'
  <1>1. CountInv'
    <2>1. queuedSamples \in Int /\ max_wavbuf_size + Largest \in Int
      <3>1. rate \in Nat /\ Largest \in Nat
        BY LargestIs, AudioAssumption
      <3>2. queuedSamples \in Nat
        BY SumOfIs DEF AudioInv, CountInv
      <3> QED
        BY <3>1, <3>2 DEF AudioInv, CountInv
    <2>2. CleanedSamples <= max_wavbuf_size + Largest
      BY <2>1, CleanedIs DEF AudioInv, CountInv
    <2> QED
      BY <2>2, CleanedIs DEF AudioInv, CountInv
  <1>2. DspOwnsItsBuffers'
    <2>1. Len(dsp) \in Nat /\ DOMAIN Cleaned = 1 .. Len(Cleaned)
      BY CleanedIs DEF AudioInv, CountInv, Buffers
    <2> QED
      BY <2>1, CleanedIs DEF DspOwnsItsBuffers
  <1> QED
    BY <1>1, <1>2 DEF AudioInv

LEMMA PlayInv == ASSUME AudioInv, NEW n \in Samples, Play(n) PROVE AudioInv'
  <1>1. /\ waveBufs' = Append(Cleaned, Buffer(n)) /\ dsp' = Append(dsp, Buffer(n))
        /\ queuedSamples' = CleanedSamples + n
        /\ ndsp_rate' = rate
        /\ max_wavbuf_size' = IF ndsp_rate = 0 THEN rate ELSE max_wavbuf_size
        /\ ~Full
    BY DEF Play
  <1>2. /\ waveBufs' \in Buffers /\ dsp' \in Buffers
        /\ SumOf(waveBufs') = queuedSamples'
    BY <1>1, CleanedIs, SumOfOneMore DEF AudioInv, CountInv
  <1>3. queuedSamples' <= max_wavbuf_size' + Largest
    <2>1. n \in Nat /\ n <= Largest /\ Largest \in Nat /\ rate \in Nat
      BY LargestIs, AudioAssumption
    <2>2. CleanedSamples \in Nat
      BY CleanedIs
    <2>3. CASE ndsp_rate = 0
      <3>1. CleanedSamples = 0
        BY <2>3, CleanedIs, SumOfNone DEF AudioInv, CountInv
      <3> QED
        BY <1>1, <2>1, <2>3, <3>1
    <2>4. CASE ndsp_rate # 0
      <3>1. max_wavbuf_size \in Nat /\ CleanedSamples <= max_wavbuf_size
        BY <1>1, <2>1, <2>2 DEF AudioInv, CountInv, Full
      <3> QED
        BY <1>1, <2>1, <2>2, <2>4, <3>1
    <2> QED
      BY <2>3, <2>4
  <1>4. rate # 0 /\ max_wavbuf_size' \in {0, rate}
    BY <1>1, AudioAssumption DEF AudioInv, CountInv
  <1>5. CountInv'
    BY <1>1, <1>2, <1>3, <1>4 DEF CountInv
  <1>6. DspOwnsItsBuffers'
    <2>1. /\ Len(Cleaned) = Len(dsp) /\ Len(dsp) \in Nat
          /\ Cleaned \in Buffers /\ dsp \in Buffers
      BY CleanedIs DEF AudioInv, CountInv, Buffers
    <2>2. /\ Len(waveBufs') = Len(dsp) + 1 /\ Len(dsp') = Len(dsp) + 1
          /\ DOMAIN waveBufs' = 1 .. Len(dsp) + 1
          /\ \A i \in 1 .. Len(dsp) : waveBufs'[i] = Cleaned[i]
          /\ waveBufs'[Len(dsp) + 1].done = FALSE
      BY <1>1, <2>1 DEF Buffers, Buffer
    <2>3. \A i \in 1 .. Len(dsp) + 1 : ~waveBufs'[i].done
      BY <2>1, <2>2, CleanedIs
    <2> QED
      BY <2>1, <2>2, <2>3 DEF DspOwnsItsBuffers
  <1> QED
    BY <1>5, <1>6 DEF AudioInv

(* The DSP plays the first of its buffers, which is the first of the       *)
(* program's list that is not done.                                        *)
LEMMA DspInv == ASSUME AudioInv, DspPlays PROVE AudioInv'
  <1> DEFINE L == Len(waveBufs)
             D == Len(dsp)
             k == L - D + 1
  <1>1. /\ L \in Nat /\ D \in Nat /\ D <= L /\ D > 0 /\ DOMAIN waveBufs = 1 .. L
        /\ dsp' = Tail(dsp) /\ Len(dsp') = D - 1 /\ dsp' \in Buffers
    BY DEF DspPlays, AudioInv, CountInv, DspOwnsItsBuffers, Buffers
  <1>2. k \in 1 .. L
    BY <1>1
  <1>3. /\ waveBufs' = [waveBufs EXCEPT ![k].done = TRUE]
        /\ UNCHANGED <<queuedSamples, max_wavbuf_size, ndsp_rate>>
    BY <1>1, <1>2 DEF DspPlays
  <1>4. /\ waveBufs' \in Buffers /\ Len(waveBufs') = L
        /\ SumOf(waveBufs') = SumOf(waveBufs)
    BY <1>2, <1>3, SumOfPlayed DEF AudioInv, CountInv
  <1>5. waveBufs # <<>>
    BY <1>1
  <1>6. CountInv'
    BY <1>1, <1>3, <1>4, <1>5 DEF AudioInv, CountInv
  <1>7. \A i \in 1 .. L : waveBufs'[i].done <=> i = k \/ waveBufs[i].done
    BY <1>2, <1>3 DEF AudioInv, CountInv, Buffers
  <1>8. DspOwnsItsBuffers'
    <2>1. DOMAIN waveBufs' = 1 .. L
      BY <1>4 DEF Buffers
    <2>2. \A i \in 1 .. L : waveBufs[i].done <=> i <= L - D
      BY <1>1 DEF AudioInv, DspOwnsItsBuffers
    <2>3. \A i \in 1 .. L : i <= L - (D - 1) <=> i = k \/ i <= L - D
      BY <1>1
    <2> HIDE DEF L, D, k
    <2>4. \A i \in 1 .. L : waveBufs'[i].done <=> i <= L - (D - 1)
      BY <1>7, <2>2, <2>3
    <2> QED
      BY <1>1, <1>4, <2>1, <2>4 DEF DspOwnsItsBuffers, L, D
  <1> QED
    BY <1>6, <1>8 DEF AudioInv

LEMMA AudioStep == AudioInv /\ [AudioNext]_audiovars => AudioInv'
  <1> SUFFICES ASSUME AudioInv, [AudioNext]_audiovars PROVE AudioInv'
    OBVIOUS
  <1>1. CASE StartStream
    BY <1>1, ClosedInv DEF StartStream
  <1>2. ASSUME StopStream PROVE AudioInv'
    BY <1>2, ClosedInv DEF StopStream
  <1>3. CASE UserStops
    BY <1>2, <1>3 DEF UserStops
  <1>4. CASE Continue
    BY <1>4, CleanInv DEF Continue
  <1>5. CASE Perform
    BY <1>5, SameSoundInv DEF Perform
  <1>6. CASE Choke
    BY <1>6, CleanInv DEF Choke
  <1>7. CASE \E n \in Samples : Play(n)
    BY <1>7, PlayInv
  <1>8. CASE NothingToPlay
    BY <1>8, CleanInv DEF NothingToPlay
  <1>9. CASE Refuse
    BY <1>9, CleanInv DEF Refuse
  <1>10. CASE Done
    BY <1>10, SameSoundInv DEF Done
  <1>11. CASE CheckHealth
    BY <1>2, <1>11, SameSoundInv DEF CheckHealth
  <1>12. CASE DspPlays
    BY <1>12, DspInv
  <1>13. CASE UNCHANGED audiovars
    BY <1>13, SameSoundInv DEF audiovars
  <1> QED
    BY <1>1, <1>3, <1>4, <1>5, <1>6, <1>7, <1>8, <1>9, <1>10, <1>11, <1>12, <1>13
       DEF AudioNext, RunStream, Callback

THEOREM AudioInvariant == AudioSpec => []AudioInv
  <1>1. AudioInit => AudioInv
    <2> SUFFICES ASSUME AudioInit PROVE AudioInv
      OBVIOUS
    <2>1. /\ waveBufs = <<>> /\ dsp = <<>> /\ queuedSamples = 0
          /\ max_wavbuf_size = 0
      BY DEF AudioInit
    <2>2. <<>> \in Buffers
      BY DEF Buffers
    <2>3. 0 <= 0 + Largest
      BY LargestIs
    <2> QED
      BY <2>1, <2>2, <2>3, SumOfNone DEF AudioInv, CountInv, DspOwnsItsBuffers
  <1> QED
    BY <1>1, AudioStep, PTL DEF AudioSpec

(* Whenever sound_clean_buffers() runs, it frees nothing that the DSP has  *)
(* still to play: the DSP's own list is the end of the program's.          *)
THEOREM DspKeepsItsBuffers == AudioSpec => []DspOwnsItsBuffers
  <1>1. AudioInv => DspOwnsItsBuffers
    BY DEF AudioInv
  <1> QED
    BY <1>1, AudioInvariant, PTL

(* However fast the server sends and whatever its pieces decode to, what   *)
(* waits to be played is at most one piece more than the limit: the count  *)
(* kept beside the list is the list's.                                     *)
THEOREM AudioIsBounded == AudioSpec => []QueueBounded
  <1>1. AudioInv => QueueBounded
    BY DEF AudioInv, CountInv, QueueBounded
  <1> QED
    BY <1>1, AudioInvariant, PTL

==============================================================================
