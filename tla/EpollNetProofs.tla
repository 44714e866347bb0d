--------------------------- MODULE EpollNetProofs ---------------------------
(***************************************************************************)
(* Theorems about the thread pool and the network layer on it, for every    *)
(* size of the pool and of the queue and any descriptors.  The pool's       *)
(* counters are exact, its ring is a queue, and the event loop never waits   *)
(* for room while all workers wait for tasks: the threads in one state are   *)
(* counted (Those), and every step moves at most one of them (Moves).  The   *)
(* network layer keeps its contract with the handlers: an event is in one    *)
(* place at a time.                                                        *)
(***************************************************************************)
EXTENDS EpollNet, FiniteSetTheorems, TLAPS

States == {"none", "top", "wait", "woken", "run", "gone"}
NumOf(l) == Cardinality(Those(l))

Ind == TypeOK /\ PoolInv

LEMMA SlotFinite == IsFiniteSet(Slot) /\ Cardinality(Slot) = ThreadMax
  <1>1. 1 \in Int /\ ThreadMax \in Int /\ ThreadMax >= 1
    BY SizesAssumption
  <1>2. QED
    BY <1>1, FS_Interval DEF Slot

LEMMA ThoseFinite ==
  ASSUME NEW l
  PROVE  IsFiniteSet(Those(l)) /\ NumOf(l) \in Nat /\ NumOf(l) <= ThreadMax
  <1>1. Those(l) \in SUBSET Slot
    BY DEF Those
  <1>2. IsFiniteSet(Those(l)) /\ Cardinality(Those(l)) <= ThreadMax
    BY <1>1, SlotFinite, FS_Subset
  <1>3. QED
    BY <1>2, FS_CardinalityType DEF NumOf

(* The threads there are, by what they do.                                 *)
LEMMA LiveParts ==
  ASSUME TypeOK
  PROVE  /\ IsFiniteSet(Live)
         /\ Cardinality(Live) \in Nat
         /\ Cardinality(Live) + NumOf("gone") <= ThreadMax
         /\ Waiting = Those("wait") /\ {i \in Slot : At(i, "run")} = Those("run")
  <1>1. Live \in SUBSET Slot /\ Those("gone") \in SUBSET Slot /\ Live \cap Those("gone") = {}
    BY DEF Live, Those, At
  <1>2. /\ IsFiniteSet(Live) /\ IsFiniteSet(Those("gone")) /\ IsFiniteSet(Live \cup Those("gone"))
        /\ Cardinality(Live \cup Those("gone")) <= ThreadMax
    BY <1>1, SlotFinite, FS_Subset, Live \cup Those("gone") \in SUBSET Slot
  <1>3. Cardinality(Live \cup Those("gone")) =
          Cardinality(Live) + Cardinality(Those("gone")) - Cardinality({})
    BY <1>1, <1>2, FS_Union
  <1>4. Cardinality(Live) \in Nat /\ Cardinality(Those("gone")) \in Nat
    BY <1>2, FS_CardinalityType
  <1>5. Waiting = Those("wait") /\ {i \in Slot : At(i, "run")} = Those("run")
    BY DEF Waiting, Those
  <1>6. QED
    BY <1>2, <1>3, <1>4, <1>5, FS_EmptySet DEF NumOf

-----------------------------------------------------------------------------
(* What a step does to the counts.                                         *)

(* Thread i goes to l.                                                     *)
Moves(i, l) == worker' = [worker EXCEPT ![i] = l]

LEMMA MovedNum ==
  ASSUME TypeOK, NEW i \in Slot, NEW l \in States, Moves(i, l), worker[i] # l, NEW m
  PROVE  NumOf(m)' = IF m = l THEN NumOf(m) + 1
                     ELSE IF m = worker[i] THEN NumOf(m) - 1 ELSE NumOf(m)
  <1>1. Those(m)' = IF m = l THEN Those(m) \cup {i} ELSE Those(m) \ {i}
    BY DEF Those, At, Moves, TypeOK
  <1>2. i \in Those(m) <=> worker[i] = m
    BY DEF Those, At
  <1>3. CASE m = l
    <2>1. i \notin Those(m)
      BY <1>2, <1>3
    <2>2. Cardinality(Those(m) \cup {i}) = Cardinality(Those(m)) + 1
      BY <2>1, ThoseFinite, FS_AddElement
    <2>3. QED
      BY <1>1, <1>3, <2>2 DEF NumOf
  <1>4. CASE m # l
    <2>1. Cardinality(Those(m) \ {i}) =
            IF i \in Those(m) THEN Cardinality(Those(m)) - 1 ELSE Cardinality(Those(m))
      BY ThoseFinite, FS_RemoveElement
    <2>2. QED
      BY <1>1, <1>2, <1>4, <2>1 DEF NumOf
  <1>5. QED
    BY <1>3, <1>4

LEMMA MovedLive ==
  ASSUME TypeOK, NEW i \in Slot, NEW l \in States, Moves(i, l)
  PROVE  /\ i \in Live /\ l \in {"top", "wait", "woken", "run"} => Live' = Live
         /\ i \in Live /\ l = "gone" => Cardinality(Live)' = Cardinality(Live) - 1
         /\ worker[i] = "none" /\ l = "top" => Cardinality(Live)' = Cardinality(Live) + 1
  <1>1. Live' = IF l \in {"none", "gone"} THEN Live \ {i} ELSE Live \cup {i}
    BY DEF Live, Moves, TypeOK
  <1>2. IsFiniteSet(Live)
    BY LiveParts
  <1>3. i \in Live <=> worker[i] \notin {"none", "gone"}
    BY DEF Live
  <1>4. ASSUME i \in Live, l \in {"top", "wait", "woken", "run"} PROVE Live' = Live
    BY <1>1, <1>4
  <1>5. ASSUME i \in Live, l = "gone" PROVE Cardinality(Live)' = Cardinality(Live) - 1
    BY <1>1, <1>2, <1>5, FS_RemoveElement
  <1>6. ASSUME worker[i] = "none", l = "top"
        PROVE  Cardinality(Live)' = Cardinality(Live) + 1
    <2>1. i \notin Live
      BY <1>3, <1>6
    <2>2. Live' = Live \cup {i}
      BY <1>1, <1>6
    <2>3. QED
      BY <1>2, <2>1, <2>2, FS_AddElement
  <1>7. QED
    BY <1>4, <1>5, <1>6

(* The invariant in terms of the counts.                                   *)
Counts ==
  /\ alive = Cardinality(Live) /\ busy = NumOf("run")
  /\ ThreadMin <= alive /\ alive <= ThreadMax
  /\ manager \in {"grow", "signal"} => left > 0
  /\ producer = "wait" => cur = QueueMax
  /\ NumOf("wait") # 0 => cur <= NumOf("gone") + NumOf("woken")

LEMMA IndCounts == TypeOK => (PoolInv <=> Counts)
  <1> SUFFICES ASSUME TypeOK PROVE PoolInv <=> Counts
    OBVIOUS
  <1>1. Waiting # {} <=> NumOf("wait") # 0
    BY LiveParts, ThoseFinite, FS_EmptySet DEF NumOf
  <1>2. QED
    BY <1>1, LiveParts DEF PoolInv, Counts, CountersExact, LostSignals, NumOf

LEMMA IndCountsNext == TypeOK' => (PoolInv' <=> Counts')
  BY IndCounts, PTL

LEMMA NextIndexType ==
  ASSUME NEW i \in 0 .. QueueMax - 1
  PROVE  NextIndex(i) \in 0 .. QueueMax - 1
  <1>1. QueueMax \in Nat /\ QueueMax > 0 /\ i \in Nat
    BY SizesAssumption
  <1>2. QED
    BY <1>1 DEF NextIndex

(* A signal wakes one waiting worker, if any, and nothing else happens.    *)
LEMMA SignalEffect ==
  ASSUME TypeOK, Signal
  PROVE  /\ worker' \in [Slot -> States] /\ Live' = Live
         /\ NumOf("run")' = NumOf("run") /\ NumOf("gone")' = NumOf("gone")
         /\ IF NumOf("wait") = 0 THEN UNCHANGED worker /\ NumOf("wait")' = NumOf("wait")
                                      /\ NumOf("woken")' = NumOf("woken")
            ELSE NumOf("woken")' = NumOf("woken") + 1
  <1>1. Waiting = Those("wait") /\ (Waiting = {} <=> NumOf("wait") = 0)
    BY LiveParts, ThoseFinite, FS_EmptySet DEF NumOf
  <1>2. CASE UNCHANGED worker /\ Waiting = {}
    <2>1. \A l : Those(l)' = Those(l)
      BY <1>2 DEF Those, At
    <2>2. Live' = Live
      BY <1>2 DEF Live
    <2>3. QED
      BY <1>1, <1>2, <2>1, <2>2 DEF NumOf, TypeOK, States
  <1>3. ASSUME NEW i \in Waiting, Moves(i, "woken")
        PROVE  /\ worker' \in [Slot -> States] /\ Live' = Live
               /\ NumOf("run")' = NumOf("run") /\ NumOf("gone")' = NumOf("gone")
               /\ NumOf("woken")' = NumOf("woken") + 1
    <2>1. i \in Slot /\ worker[i] = "wait" /\ i \in Live /\ "woken" \in States
      BY <1>3 DEF Waiting, At, Live, States
    <2>2. Live' = Live
      BY <1>3, <2>1, MovedLive
    <2>3. \A m : NumOf(m)' = IF m = "woken" THEN NumOf(m) + 1
                            ELSE IF m = "wait" THEN NumOf(m) - 1 ELSE NumOf(m)
      BY <1>3, <2>1, MovedNum
    <2>4. worker' \in [Slot -> States]
      BY <1>3, <2>1 DEF Moves, TypeOK, States
    <2>5. QED
      BY <2>2, <2>3, <2>4
  <1>4. QED
    BY <1>1, <1>2, <1>3 DEF Signal, Moves

-----------------------------------------------------------------------------
(* The initial states and the steps.                                       *)

LEMMA InitInd == Init => Ind
  <1> SUFFICES ASSUME Init PROVE Ind
    OBVIOUS
  <1>1. ThreadMin \in Nat /\ ThreadMin >= 1 /\ ThreadMin <= ThreadMax
        /\ ThreadMax \in Nat /\ Count \in Nat /\ QueueMax \in Nat /\ QueueMax >= 1
    BY SizesAssumption
  <1>2. TypeOK
    <2>1. /\ ring \in [0 .. QueueMax - 1 -> Task \cup {NoTask}]
          /\ worker \in [Slot -> States] /\ job \in [Slot -> Task \cup {NoTask}]
      BY DEF Init, States
    <2>2. /\ front \in 0 .. QueueMax - 1 /\ rear \in 0 .. QueueMax - 1
          /\ cur \in 0 .. QueueMax /\ wait \in 0 .. Count
          /\ alive \in Nat /\ busy \in Nat /\ left \in Nat
      BY <1>1 DEF Init
    <2>3. QED
      BY <2>1, <2>2 DEF Init, TypeOK, States
  <1>3. Live = 1 .. ThreadMin
    BY <1>1 DEF Init, Live, Slot
  <1>4. Cardinality(Live) = ThreadMin
    BY <1>1, <1>3, FS_Interval
  <1>5. Those("run") = {} /\ Those("wait") = {}
    BY DEF Init, Those, At
  <1>6. NumOf("run") = 0 /\ NumOf("wait") = 0
    BY <1>5, FS_EmptySet DEF NumOf
  <1>7. Counts
    BY <1>1, <1>4, <1>6 DEF Counts, Init
  <1>8. QED
    BY <1>2, <1>7, IndCounts DEF Ind

(* The facts about the counts that every step starts from.                 *)
LEMMA Numbers ==
  ASSUME Ind
  PROVE  /\ TypeOK /\ Counts
         /\ \A l : NumOf(l) \in Nat
         /\ {ThreadMax, ThreadMin, QueueMax, Count} \subseteq Nat \ {0}
  BY IndCounts, ThoseFinite, SizesAssumption DEF Ind

(* The same after a step: the counts are numbers, and no more threads live  *)
(* than there are slots.                                                    *)
Bounded == Cardinality(Live) <= ThreadMax /\ \A l : NumOf(l) \in Nat

LEMMA BoundedNow == TypeOK => Bounded
  <1> SUFFICES ASSUME TypeOK PROVE Bounded
    OBVIOUS
  <1>1. Cardinality(Live) \in Nat /\ NumOf("gone") \in Nat /\ ThreadMax \in Nat
    BY LiveParts, ThoseFinite, SizesAssumption
  <1>2. QED
    BY <1>1, LiveParts, ThoseFinite DEF Bounded

LEMMA BoundedNext == TypeOK' => Bounded'
  BY BoundedNow, PTL

(* No thread moves.                                                        *)
LEMMA StillNum ==
  ASSUME UNCHANGED worker
  PROVE  Live' = Live /\ \A m : NumOf(m)' = NumOf(m)
  <1>1. Live' = Live /\ \A m : Those(m)' = Those(m)
    BY DEF Live, Those, At
  <1>2. QED
    BY <1>1 DEF NumOf

(* Adding a task: the queue has one task more, and, if a worker waits, one  *)
(* worker more is woken.                                                   *)
LEMMA PutStep ==
  ASSUME Ind, NEW t \in Task \cup {NoTask}, Put(t),
         \/ UNCHANGED <<producer, adding>>
         \/ producer' = "free" /\ adding' = NoTask,
         producer # "wait"
  PROVE  Ind'
  <1>1. /\ TypeOK /\ Counts /\ (\A l : NumOf(l) \in Nat)
        /\ {ThreadMax, ThreadMin, QueueMax, Count} \subseteq Nat \ {0}
    BY Numbers
  <1>2. Signal /\ cur < QueueMax /\ cur' = cur + 1 /\ front' = NextIndex(front)
        /\ ring' = [ring EXCEPT ![front] = t]
        /\ UNCHANGED <<rear, alive, busy, wait, job, manager, left, shrink>>
    BY DEF Put, counters, managerVars
  <1>3. worker' \in [Slot -> States]
    BY <1>1, <1>2, SignalEffect
  <1>4. front' \in 0 .. QueueMax - 1
    BY <1>1, <1>2, NextIndexType DEF TypeOK
  <1>5. TypeOK'
    BY <1>1, <1>2, <1>3, <1>4 DEF TypeOK, States
  <1>6. Counts'
    <2>1. NumOf("gone") \in Nat /\ NumOf("woken") \in Nat /\ cur \in Nat
      BY <1>1 DEF TypeOK
    <2>2. NumOf("wait")' # 0 => cur' <= NumOf("gone")' + NumOf("woken")'
      BY <1>1, <1>2, <2>1, SignalEffect DEF Counts
    <2>3. Live' = Live /\ NumOf("run")' = NumOf("run") /\ producer' # "wait"
      BY <1>1, <1>2, SignalEffect
    <2>4. QED
      BY <1>1, <1>2, <2>2, <2>3 DEF Counts
  <1>7. QED
    BY <1>5, <1>6, IndCountsNext DEF Ind

(* The tasks are whatever the event loop adds: in Next tasks that are not    *)
(* in the pool yet, in NetNext the events that epoll has reported.          *)
AnyProducer == AddResume \/ \E t \in Task : Add(t) \/ AddFull(t)
PoolNext == AnyProducer \/ Manager \/ Spurious \/ \E i \in Slot : Custom(i)

LEMMA NextIsPoolNext == Next => PoolNext
  BY DEF Next, PoolNext, Producer, AnyProducer, Outside

LEMMA ProducerStep == Ind /\ AnyProducer => Ind'
  <1> SUFFICES ASSUME Ind, AnyProducer PROVE Ind'
    OBVIOUS
  <1>1. TypeOK /\ Counts
    BY Numbers
  <1>2. ASSUME NEW t \in Task, Add(t) PROVE Ind'
    BY <1>2, PutStep DEF Add
  <1>3. ASSUME cur = QueueMax, producer' = "wait",
               adding' \in Task \cup {NoTask},
               UNCHANGED <<queueVars, counters, worker, job, managerVars>>
        PROVE  Ind'
    <2>1. TypeOK'
      BY <1>1, <1>3 DEF TypeOK, queueVars, counters, managerVars
    <2>2. Counts'
      BY <1>1, <1>3, StillNum DEF Counts, queueVars, counters, managerVars
    <2>3. QED
      BY <2>1, <2>2, IndCountsNext DEF Ind
  <1>4. ASSUME NEW t \in Task, AddFull(t) PROVE Ind'
    BY <1>3, <1>4 DEF AddFull
  <1>5. ASSUME AddResume PROVE Ind'
    <2>1. adding \in Task \cup {NoTask} /\ producer # "wait"
      BY <1>1, <1>5 DEF TypeOK, AddResume
    <2>2. CASE Put(adding) /\ producer' = "free" /\ adding' = NoTask
      BY <2>1, <2>2, PutStep
    <2>3. CASE cur = QueueMax /\ producer' = "wait"
               /\ UNCHANGED <<queueVars, counters, worker, job, adding, managerVars>>
      BY <2>1, <2>3, <1>3
    <2>4. QED
      BY <1>5, <2>2, <2>3 DEF AddResume
  <1>6. QED
    BY <1>2, <1>4, <1>5 DEF AnyProducer

LEMMA WaitTaskStep ==
  ASSUME Ind, NEW i \in Slot, WaitTask(i)
  PROVE  Ind'
  <1>1. /\ TypeOK /\ Counts /\ (\A l : NumOf(l) \in Nat)
        /\ {ThreadMax, ThreadMin, QueueMax, Count} \subseteq Nat \ {0}
    BY Numbers
  <1>2. /\ worker[i] \in {"top", "woken"} /\ Moves(i, "wait") /\ cur = 0
        /\ UNCHANGED <<ring, front, rear, cur, alive, busy, wait, job, producer,
                       adding, manager, left, shrink>>
    BY DEF WaitTask, AtLock, At, Moves, queueVars, counters, managerVars
  <1>3. /\ NumOf("run")' = NumOf("run") /\ NumOf("gone")' = NumOf("gone")
        /\ Live' = Live
    BY <1>1, <1>2, MovedNum, MovedLive DEF States, Live
  <1>4. TypeOK'
    BY <1>1, <1>2 DEF TypeOK, Moves
  <1>5. NumOf("woken")' \in Nat
    BY <1>4, BoundedNext DEF Bounded
  <1>6. Counts'
    BY <1>1, <1>2, <1>3, <1>5 DEF Counts, TypeOK
  <1>7. QED
    BY <1>4, <1>6, IndCountsNext DEF Ind

LEMMA ExitStep ==
  ASSUME Ind, NEW i \in Slot, Exit(i)
  PROVE  Ind'
  <1>1. /\ TypeOK /\ Counts /\ (\A l : NumOf(l) \in Nat)
        /\ {ThreadMax, ThreadMin, QueueMax, Count} \subseteq Nat \ {0}
    BY Numbers
  <1>2. /\ worker[i] \in {"top", "woken"} /\ Moves(i, "gone")
        /\ wait > 0 /\ alive > ThreadMin /\ wait' = wait - 1 /\ alive' = alive - 1
        /\ UNCHANGED <<ring, front, rear, cur, busy, job, producer,
                       adding, manager, left, shrink>>
    BY DEF Exit, AtLock, MustExit, At, Moves, queueVars, managerVars
  <1>3. /\ NumOf("run")' = NumOf("run") /\ NumOf("gone")' = NumOf("gone") + 1
        /\ NumOf("wait")' = NumOf("wait")
        /\ NumOf("woken")' = NumOf("woken") \/ NumOf("woken")' = NumOf("woken") - 1
        /\ Cardinality(Live)' = Cardinality(Live) - 1
    BY <1>1, <1>2, MovedNum, MovedLive DEF States, Live
  <1>4. TypeOK'
    <2>1. wait' \in 0 .. Count /\ alive' \in Nat
      BY <1>1, <1>2 DEF TypeOK
    <2>2. QED
      BY <1>1, <1>2, <2>1 DEF TypeOK, Moves
  <1>5. Counts'
    <2>1. /\ NumOf("run") \in Nat /\ NumOf("gone") \in Nat /\ NumOf("woken") \in Nat
          /\ cur \in Nat /\ alive \in Nat
      BY <1>1 DEF TypeOK
    <2>2. NumOf("wait")' # 0 => cur' <= NumOf("gone")' + NumOf("woken")'
      BY <1>1, <1>2, <1>3, <2>1 DEF Counts
    <2>3. QED
      BY <1>1, <1>2, <1>3, <2>1, <2>2 DEF Counts
  <1>6. QED
    BY <1>4, <1>5, IndCountsNext DEF Ind

LEMMA TakeStep ==
  ASSUME Ind, NEW i \in Slot, Take(i)
  PROVE  Ind'
  <1>1. /\ TypeOK /\ Counts /\ (\A l : NumOf(l) \in Nat)
        /\ {ThreadMax, ThreadMin, QueueMax, Count} \subseteq Nat \ {0}
    BY Numbers
  <1>2. /\ worker[i] \in {"top", "woken"} /\ Moves(i, "run")
        /\ cur > 0 /\ cur' = cur - 1 /\ busy' = busy + 1
        /\ job' = [job EXCEPT ![i] = ring[rear]] /\ rear' = NextIndex(rear)
        /\ producer' = IF producer = "wait" THEN "woken" ELSE producer
        /\ UNCHANGED <<ring, front, alive, wait, adding, manager, left, shrink>>
    BY DEF Take, AtLock, At, Moves, managerVars
  <1>3. /\ NumOf("run")' = NumOf("run") + 1 /\ NumOf("gone")' = NumOf("gone")
        /\ NumOf("wait")' = NumOf("wait")
        /\ NumOf("woken")' = NumOf("woken") \/ NumOf("woken")' = NumOf("woken") - 1
        /\ Live' = Live
    BY <1>1, <1>2, MovedNum, MovedLive DEF States, Live
  <1>4. TypeOK'
    <2>1. rear' \in 0 .. QueueMax - 1
      BY <1>1, <1>2, NextIndexType DEF TypeOK
    <2>2. ring[rear] \in Task \cup {NoTask}
      BY <1>1 DEF TypeOK
    <2>3. cur' \in 0 .. QueueMax /\ busy' \in Nat
      BY <1>1, <1>2 DEF TypeOK
    <2>4. worker' \in [Slot -> States] /\ job' \in [Slot -> Task \cup {NoTask}]
      BY <1>1, <1>2, <2>2 DEF TypeOK, Moves, States
    <2>5. QED
      BY <1>1, <1>2, <2>1, <2>3, <2>4 DEF TypeOK, States
  <1>5. Counts'
    <2>1. /\ NumOf("run") \in Nat /\ NumOf("gone") \in Nat /\ NumOf("woken") \in Nat
          /\ cur \in Nat /\ alive \in Nat
      BY <1>1 DEF TypeOK
    <2>2. NumOf("wait")' # 0 => cur' <= NumOf("gone")' + NumOf("woken")'
      BY <1>1, <1>2, <1>3, <2>1 DEF Counts
    <2>3. QED
      BY <1>1, <1>2, <1>3, <2>1, <2>2 DEF Counts
  <1>6. QED
    BY <1>4, <1>5, IndCountsNext DEF Ind

LEMMA DoneStep ==
  ASSUME Ind, NEW i \in Slot, Done(i)
  PROVE  Ind'
  <1>1. /\ TypeOK /\ Counts /\ (\A l : NumOf(l) \in Nat)
        /\ {ThreadMax, ThreadMin, QueueMax, Count} \subseteq Nat \ {0}
    BY Numbers
  <1>2. /\ worker[i] = "run" /\ Moves(i, "top") /\ busy' = busy - 1
        /\ job' = [job EXCEPT ![i] = NoTask]
        /\ UNCHANGED <<ring, front, rear, cur, alive, wait, producer,
                       adding, manager, left, shrink>>
    BY DEF Done, At, Moves, queueVars, managerVars
  <1>3. /\ NumOf("run")' = NumOf("run") - 1 /\ NumOf("gone")' = NumOf("gone")
        /\ NumOf("wait")' = NumOf("wait") /\ NumOf("woken")' = NumOf("woken")
        /\ Live' = Live
    BY <1>1, <1>2, MovedNum, MovedLive DEF States, Live
  <1>4. TypeOK'
    <2>1. Those("run") # {}
      BY <1>2 DEF Those, At
    <2>2. NumOf("run") # 0
      BY <2>1, ThoseFinite, FS_EmptySet DEF NumOf
    <2>3. busy' \in Nat
      BY <1>1, <1>2, <2>2 DEF Counts
    <2>4. QED
      BY <1>1, <1>2, <2>3 DEF TypeOK, Moves
  <1>5. Counts'
    BY <1>1, <1>2, <1>3 DEF Counts, TypeOK
  <1>6. QED
    BY <1>4, <1>5, IndCountsNext DEF Ind

-----------------------------------------------------------------------------
(* The manager, and wakings for no reason.                                 *)

LEMMA CreateStep == Ind /\ Create => Ind'
  <1> SUFFICES ASSUME Ind, Create PROVE Ind'
    OBVIOUS
  <1>1. /\ TypeOK /\ Counts /\ (\A l : NumOf(l) \in Nat)
        /\ {ThreadMax, ThreadMin, QueueMax, Count} \subseteq Nat \ {0}
    BY Numbers
  <1>2. /\ manager = "grow" /\ left' = left - 1
        /\ manager' = IF left = 1 THEN "shrink" ELSE "grow"
        /\ UNCHANGED <<ring, front, rear, cur, busy, wait, job, producer, adding, shrink>>
    BY DEF Create, queueVars
  <1>3. left' \in Nat /\ (manager' = "grow" => left' > 0)
    BY <1>1, <1>2 DEF Counts, TypeOK
  <1>4. ASSUME NEW i \in Slot, FreeSlot(i), Moves(i, "top"), alive' = alive + 1
        PROVE  Ind'
    <2>1. worker[i] = "none"
      BY <1>4 DEF FreeSlot, At
    <2>2. /\ NumOf("run")' = NumOf("run") /\ NumOf("gone")' = NumOf("gone")
          /\ NumOf("wait")' = NumOf("wait") /\ NumOf("woken")' = NumOf("woken")
          /\ Cardinality(Live)' = Cardinality(Live) + 1
      BY <1>1, <1>4, <2>1, MovedNum, MovedLive DEF States
    <2>3. TypeOK'
      BY <1>1, <1>2, <1>3, <1>4 DEF TypeOK, Moves
    <2>4. Cardinality(Live)' <= ThreadMax
      BY <2>3, BoundedNext DEF Bounded
    <2>5. alive' = Cardinality(Live)' /\ ThreadMin <= alive' /\ alive' <= ThreadMax
      BY <1>1, <1>4, <2>2, <2>4 DEF Counts, TypeOK
    <2>6. Counts'
      BY <1>1, <1>2, <1>3, <2>2, <2>5 DEF Counts
    <2>7. QED
      BY <2>3, <2>6, IndCountsNext DEF Ind
  <1>5. ASSUME UNCHANGED <<worker, alive>> PROVE Ind'
    <2>1. TypeOK'
      BY <1>1, <1>2, <1>3, <1>5 DEF TypeOK
    <2>2. Counts'
      BY <1>1, <1>2, <1>3, <1>5, StillNum DEF Counts
    <2>3. QED
      BY <2>1, <2>2, IndCountsNext DEF Ind
  <1>6. QED
    BY <1>4, <1>5 DEF Create, Moves

LEMMA ManagerStep == Ind /\ Manager => Ind'
  <1> SUFFICES ASSUME Ind, Manager PROVE Ind'
    OBVIOUS
  <1>1. /\ TypeOK /\ Counts /\ (\A l : NumOf(l) \in Nat)
        /\ {ThreadMax, ThreadMin, QueueMax, Count} \subseteq Nat \ {0}
    BY Numbers
  <1>2. ASSUME Look PROVE Ind'
    <2>1. /\ shrink' \in BOOLEAN /\ left' \in Nat
          /\ (manager' = "grow" /\ left' > 0) \/ manager' = "shrink"
      BY <1>1, <1>2 DEF Look, MustShrink
    <2>2. TypeOK'
      BY <1>1, <1>2, <2>1 DEF Look, TypeOK, queueVars, counters
    <2>3. Counts'
      BY <1>1, <1>2, <2>1, StillNum DEF Look, Counts, queueVars, counters
    <2>4. QED
      BY <2>2, <2>3, IndCountsNext DEF Ind
  <1>3. ASSUME Shrink PROVE Ind'
    <2>1. /\ wait' \in 0 .. Count /\ left' \in Nat
          /\ (manager' = "signal" /\ left' > 0) \/ manager' = "sleep"
      BY <1>1, <1>3 DEF Shrink, TypeOK
    <2>2. TypeOK'
      BY <1>1, <1>3, <2>1 DEF Shrink, TypeOK, queueVars
    <2>3. Counts'
      BY <1>1, <1>3, <2>1, StillNum DEF Shrink, Counts, queueVars
    <2>4. QED
      BY <2>2, <2>3, IndCountsNext DEF Ind
  <1>4. ASSUME Wake PROVE Ind'
    <2>1. /\ Signal /\ left' = left - 1 /\ left > 0
          /\ manager' = IF left = 1 THEN "sleep" ELSE "signal"
          /\ UNCHANGED <<ring, front, rear, cur, alive, busy, wait, job,
                         producer, adding, shrink>>
      BY <1>1, <1>4 DEF Wake, Counts, queueVars, counters
    <2>2. left' \in Nat /\ (manager' = "signal" => left' > 0)
      BY <1>1, <2>1 DEF TypeOK
    <2>3. worker' \in [Slot -> States]
      BY <1>1, <2>1, SignalEffect
    <2>4. TypeOK'
      BY <1>1, <2>1, <2>2, <2>3 DEF TypeOK, States
    <2>5. Counts'
      <3>1. NumOf("gone") \in Nat /\ NumOf("woken") \in Nat /\ cur \in Nat
        BY <1>1 DEF TypeOK
      <3>2. NumOf("wait")' # 0 => cur' <= NumOf("gone")' + NumOf("woken")'
        BY <1>1, <2>1, <3>1, SignalEffect DEF Counts
      <3>3. Live' = Live /\ NumOf("run")' = NumOf("run")
        BY <1>1, <2>1, SignalEffect
      <3>4. QED
        BY <1>1, <2>1, <2>2, <3>2, <3>3 DEF Counts
    <2>6. QED
      BY <2>4, <2>5, IndCountsNext DEF Ind
  <1>5. QED
    BY <1>2, <1>3, <1>4, CreateStep DEF Manager

LEMMA SpuriousStep == Ind /\ Spurious => Ind'
  <1> SUFFICES ASSUME Ind, Spurious PROVE Ind'
    OBVIOUS
  <1>1. /\ TypeOK /\ Counts /\ (\A l : NumOf(l) \in Nat)
        /\ {ThreadMax, ThreadMin, QueueMax, Count} \subseteq Nat \ {0}
    BY Numbers
  <1>2. UNCHANGED <<ring, front, rear, cur, alive, busy, wait, job,
                    adding, manager, left, shrink>>
    BY DEF Spurious, queueVars, counters, managerVars
  <1>3. ASSUME NEW i \in Waiting, Moves(i, "woken"), UNCHANGED producer PROVE Ind'
    <2>1. Signal
      BY <1>3 DEF Signal, Moves
    <2>2. worker' \in [Slot -> States]
      BY <1>1, <2>1, SignalEffect
    <2>3. TypeOK'
      BY <1>1, <1>2, <1>3, <2>2 DEF TypeOK, States
    <2>4. Counts'
      <3>1. NumOf("gone") \in Nat /\ NumOf("woken") \in Nat /\ cur \in Nat
        BY <1>1 DEF TypeOK
      <3>2. NumOf("wait")' # 0 => cur' <= NumOf("gone")' + NumOf("woken")'
        BY <1>1, <1>2, <2>1, <3>1, SignalEffect DEF Counts
      <3>3. Live' = Live /\ NumOf("run")' = NumOf("run")
        BY <1>1, <2>1, SignalEffect
      <3>4. QED
        BY <1>1, <1>2, <1>3, <3>2, <3>3 DEF Counts
    <2>5. QED
      BY <2>3, <2>4, IndCountsNext DEF Ind
  <1>4. ASSUME producer' = "woken", UNCHANGED worker PROVE Ind'
    <2>1. TypeOK'
      BY <1>1, <1>2, <1>4 DEF TypeOK
    <2>2. Counts'
      BY <1>1, <1>2, <1>4, StillNum DEF Counts
    <2>3. QED
      BY <2>1, <2>2, IndCountsNext DEF Ind
  <1>5. QED
    BY <1>3, <1>4 DEF Spurious, Moves

LEMMA StutterStep == Ind /\ UNCHANGED vars => Ind'
  <1> SUFFICES ASSUME Ind, UNCHANGED vars PROVE Ind'
    OBVIOUS
  <1>1. TypeOK /\ Counts
    BY Numbers
  <1>2. TypeOK'
    BY <1>1 DEF TypeOK, vars, queueVars, counters, managerVars
  <1>3. Counts'
    BY <1>1, StillNum DEF Counts, vars, queueVars, counters, managerVars
  <1>4. QED
    BY <1>2, <1>3, IndCountsNext DEF Ind

-----------------------------------------------------------------------------
(* The theorems.                                                           *)

LEMMA PoolStep == Ind /\ [PoolNext]_vars => Ind'
  <1> SUFFICES ASSUME Ind, [PoolNext]_vars PROVE Ind'
    OBVIOUS
  <1>1. ASSUME NEW i \in Slot, Custom(i) PROVE Ind'
    BY <1>1, WaitTaskStep, ExitStep, TakeStep, DoneStep DEF Custom
  <1>2. QED
    BY <1>1, ProducerStep, ManagerStep, SpuriousStep, StutterStep DEF PoolNext

LEMMA Inductive == Spec => []Ind
  <1>1. Init => Ind
    BY InitInd
  <1>2. Ind /\ [Next]_vars => Ind'
    BY PoolStep, NextIsPoolNext
  <1>3. QED
    BY <1>1, <1>2, PTL DEF Spec

(* Every variable of the pool keeps its type: the indexes of the ring stay  *)
(* inside it and no counter is driven below zero.                           *)
THEOREM PoolTypes == Spec => []TypeOK
  <1>1. Ind => TypeOK
    BY DEF Ind
  <1>2. QED
    BY <1>1, Inductive, PTL

(* The counters of the pool, which the manager decides on, are those of the *)
(* threads there are, and the pool stays between ThreadMin and ThreadMax.   *)
THEOREM CountersOK == Spec => []CountersExact
  <1>1. Ind => CountersExact
    BY DEF Ind, PoolInv
  <1>2. QED
    BY <1>1, Inductive, PTL

(* Producer_add never waits for room while every worker waits for a task:   *)
(* a worker that was woken and ends instead loses its signal, but so many   *)
(* workers as it takes to fill the queue never end.                         *)
THEOREM NoStallOK == Spec => []NoStall
  <1>1. Ind => NoStall
    <2> SUFFICES ASSUME Ind, producer = "wait", \A i \in Live : At(i, "wait")
                 PROVE  FALSE
      BY DEF NoStall
    <2>1. /\ TypeOK /\ Counts /\ (\A l : NumOf(l) \in Nat)
          /\ {ThreadMax, ThreadMin, QueueMax, Count} \subseteq Nat \ {0}
      BY Numbers
    <2>2. Live = Those("wait")
      BY DEF Live, Those, At
    <2>3. NumOf("wait") = alive /\ alive >= ThreadMin /\ alive \in Nat
      BY <2>1, <2>2 DEF Counts, NumOf, TypeOK
    <2>4. Those("woken") = {}
      BY DEF Live, Those, At
    <2>5. NumOf("woken") = 0
      BY <2>4, FS_EmptySet DEF NumOf
    <2>6. alive + NumOf("gone") <= ThreadMax
      BY <2>1, LiveParts DEF Counts
    <2>7. cur = QueueMax /\ cur <= NumOf("gone") + NumOf("woken")
      BY <2>1, <2>3 DEF Counts
    <2>8. ThreadMax - ThreadMin < QueueMax
      BY SizesAssumption
    <2>9. QED
      BY <2>1, <2>3, <2>5, <2>6, <2>7, <2>8
  <1>2. QED
    BY <1>1, Inductive, PTL
-----------------------------------------------------------------------------
(* The ring implements a bounded FIFO queue.  Positions in the ring, at     *)
(* most one turn ahead of an index, are a sum or a sum less QueueMax.       *)

LEMMA OneTurn ==
  ASSUME NEW n \in 0 .. 2 * QueueMax - 1
  PROVE  n % QueueMax = IF n < QueueMax THEN n ELSE n - QueueMax
  <1>1. QueueMax \in Nat /\ QueueMax >= 1 /\ n \in Nat
    BY SizesAssumption
  <1>2. CASE n < QueueMax
    BY <1>1, <1>2
  <1>3. CASE n >= QueueMax
    <2> DEFINE d == n \div QueueMax
    <2>1. n = QueueMax * d + (n % QueueMax) /\ d \in Nat /\ n % QueueMax \in 0 .. QueueMax - 1
      BY <1>1
    <2> HIDE DEF d
    <2>2. d = 1
      BY <1>1, <1>3, <2>1
    <2>3. QED
      BY <1>1, <1>3, <2>1, <2>2
  <1>4. QED
    BY <1>1, <1>2, <1>3

(* Between the indexes lies what is queued, and the event loop that waits   *)
(* for room has a task.                                                     *)
RingInv ==
  /\ front = (rear + cur) % QueueMax
  /\ producer # "free" => adding \in Task

Place(k) == (rear + k) % QueueMax

LEMMA NextTurn ==
  ASSUME NEW i \in 0 .. QueueMax - 1
  PROVE  NextIndex(i) = IF i + 1 < QueueMax THEN i + 1 ELSE 0
  <1>1. i + 1 \in 0 .. 2 * QueueMax - 1 /\ QueueMax \in Nat
    BY SizesAssumption
  <1>2. (i + 1) % QueueMax = IF i + 1 < QueueMax THEN i + 1 ELSE i + 1 - QueueMax
    BY <1>1, OneTurn
  <1>3. QED
    BY <1>1, <1>2 DEF NextIndex

LEMMA Ranges ==
  ASSUME TypeOK
  PROVE  /\ QueueMax \in Nat /\ QueueMax >= 1
         /\ cur \in Nat /\ cur <= QueueMax /\ rear \in 0 .. QueueMax - 1
  BY SizesAssumption DEF TypeOK

LEMMA Turns ==
  ASSUME TypeOK, NEW k \in 0 .. QueueMax
  PROVE  /\ Place(k) = IF rear + k < QueueMax THEN rear + k ELSE rear + k - QueueMax
         /\ Place(k) \in 0 .. QueueMax - 1
         /\ NextIndex(Place(k)) = IF rear + k + 1 < QueueMax THEN rear + k + 1
                                  ELSE IF rear + k + 1 < 2 * QueueMax THEN rear + k + 1 - QueueMax ELSE 0
  <1>1. QueueMax \in Nat /\ QueueMax >= 1 /\ rear \in 0 .. QueueMax - 1
    BY SizesAssumption DEF TypeOK
  <1>2. Place(k) = IF rear + k < QueueMax THEN rear + k ELSE rear + k - QueueMax
    BY <1>1, OneTurn DEF Place
  <1>3. Place(k) \in 0 .. QueueMax - 1
    BY <1>1, <1>2
  <1>4. NextIndex(Place(k)) = IF Place(k) + 1 < QueueMax THEN Place(k) + 1 ELSE 0
    BY <1>3, NextTurn
  <1>5. QED
    BY <1>1, <1>2, <1>3, <1>4

LEMMA QueueIsSeq == TypeOK => Queue \in Seq(Task \cup {NoTask}) /\ Len(Queue) = cur
  <1> SUFFICES ASSUME TypeOK PROVE Queue \in Seq(Task \cup {NoTask}) /\ Len(Queue) = cur
    OBVIOUS
  <1>1. cur \in Nat /\ cur <= QueueMax /\ QueueMax \in Nat
    BY SizesAssumption DEF TypeOK
  <1>2. ASSUME NEW k \in 1 .. cur PROVE ring[(rear + k - 1) % QueueMax] \in Task \cup {NoTask}
    <2>1. k - 1 \in 0 .. QueueMax /\ rear \in Nat /\ rear + k - 1 = rear + (k - 1)
      BY <1>1, <1>2 DEF TypeOK
    <2>2. (rear + k - 1) % QueueMax \in 0 .. QueueMax - 1
      BY <2>1, Turns DEF Place
    <2>3. QED
      BY <2>2 DEF TypeOK
  <1>3. QED
    BY <1>1, <1>2 DEF Queue

LEMMA QueueIsSeqNext == TypeOK' => (Queue \in Seq(Task \cup {NoTask}) /\ Len(Queue) = cur)'
  BY QueueIsSeq, PTL

LEMMA RingInit == Init => RingInv /\ FIFO!Init
  <1> SUFFICES ASSUME Init PROVE RingInv /\ FIFO!Init
    OBVIOUS
  <1>1. 0 % QueueMax = 0
    BY OneTurn, SizesAssumption
  <1>2. TypeOK /\ cur = 0
    BY InitInd DEF Init, Ind
  <1>3. Queue = << >>
    BY <1>2, QueueIsSeq
  <1>4. QED
    BY <1>1, <1>3 DEF Init, RingInv, FIFO!Init

(* Adding a task appends it.                                               *)
LEMMA PutAppends ==
  ASSUME TypeOK, TypeOK', RingInv, NEW t \in Task, Put(t)
  PROVE  front' = (rear' + cur') % QueueMax /\ FIFO!Put(t)
  <1>1. /\ QueueMax \in Nat /\ QueueMax >= 1 /\ cur \in Nat /\ cur < QueueMax /\ cur' = cur + 1
        /\ rear \in 0 .. QueueMax - 1 /\ rear' = rear /\ front = Place(cur)
        /\ ring' = [ring EXCEPT ![front] = t] /\ front' = NextIndex(front)
    <2>1. front = Place(cur)
      BY DEF RingInv, Place
    <2>2. QueueMax \in Nat /\ QueueMax >= 1 /\ cur \in Nat /\ rear \in 0 .. QueueMax - 1
      BY Ranges
    <2>3. cur < QueueMax /\ cur' = cur + 1 /\ rear' = rear /\ front' = NextIndex(front)
          /\ ring' = [ring EXCEPT ![front] = t]
      BY DEF Put
    <2>4. QED
      BY <2>1, <2>2, <2>3
  <1>2. front' = Place(cur + 1)
    BY <1>1, Turns
  <1>3. ASSUME NEW k \in 0 .. cur - 1 PROVE Place(k) # front /\ Place(k) \in 0 .. QueueMax - 1
    BY <1>1, <1>3, Turns
  <1>4. ASSUME NEW k \in 1 .. cur PROVE Queue'[k] = Queue[k]
    <2>1. k - 1 \in 0 .. cur - 1 /\ k \in 1 .. cur' /\ rear + k - 1 = rear + (k - 1)
      BY <1>1, <1>4
    <2>2. Queue[k] = ring[Place(k - 1)] /\ Queue'[k] = ring'[Place(k - 1)]
      BY <1>1, <2>1 DEF Queue, Place
    <2>3. QED
      BY <1>1, <1>3, <2>1, <2>2 DEF TypeOK
  <1>5. Queue'[cur + 1] = t
    <2>1. Queue'[cur + 1] = ring'[Place(cur)]
      BY <1>1 DEF Queue, Place
    <2>2. QED
      BY <1>1, <2>1, Turns DEF TypeOK
  <1>6. Queue \in Seq(Task \cup {NoTask}) /\ Len(Queue) = cur
        /\ Queue' \in Seq(Task \cup {NoTask}) /\ Len(Queue') = cur + 1
    BY <1>1, QueueIsSeq, QueueIsSeqNext
  <1>7. Queue' = Append(Queue, t)
    BY <1>4, <1>5, <1>6
  <1>8. QED
    BY <1>1, <1>2, <1>6, <1>7 DEF FIFO!Put, Place

(* Taking a task removes the first.                                        *)
LEMMA TakeRemoves ==
  ASSUME TypeOK, TypeOK', RingInv, NEW i \in Slot, Take(i)
  PROVE  front' = (rear' + cur') % QueueMax /\ FIFO!Get
  <1>1. /\ QueueMax \in Nat /\ QueueMax >= 1 /\ cur \in 1 .. QueueMax /\ cur' = cur - 1
        /\ rear \in 0 .. QueueMax - 1 /\ rear' = NextIndex(rear)
        /\ UNCHANGED <<ring, front>>
    BY Ranges DEF Take
  <1>2. rear' = IF rear + 1 < QueueMax THEN rear + 1 ELSE 0
    BY <1>1, NextTurn
  <1>3. ASSUME NEW k \in 0 .. cur - 1 PROVE (rear' + k) % QueueMax = Place(k + 1)
    <2> DEFINE n == rear' + k
    <2>1. n \in 0 .. 2 * QueueMax - 1 /\ k + 1 \in 0 .. QueueMax
      BY <1>1, <1>2, <1>3
    <2>2. n % QueueMax = IF n < QueueMax THEN n ELSE n - QueueMax
      <3> HIDE DEF n
      <3> QED
        BY <2>1, OneTurn
    <2>3. QED
      BY <1>1, <1>2, <1>3, <2>1, <2>2, Turns
  <1>4. ASSUME NEW k \in 1 .. cur' PROVE Queue'[k] = Queue[k + 1]
    <2>1. k - 1 \in 0 .. cur - 1 /\ k + 1 \in 1 .. cur /\ rear' + k - 1 = rear' + (k - 1)
          /\ rear + (k + 1) - 1 = rear + k
      BY <1>1, <1>2, <1>4
    <2>2. Queue[k + 1] = ring[Place(k)] /\ Queue'[k] = ring[(rear' + (k - 1)) % QueueMax]
      BY <1>1, <2>1 DEF Queue, Place
    <2>3. QED
      BY <1>3, <2>1, <2>2
  <1>5. Queue \in Seq(Task \cup {NoTask}) /\ Len(Queue) = cur
        /\ Queue' \in Seq(Task \cup {NoTask}) /\ Len(Queue') = cur - 1
    BY <1>1, QueueIsSeq, QueueIsSeqNext
  <1>6. Queue' = Tail(Queue) /\ Queue # << >>
    BY <1>1, <1>4, <1>5
  <1>7. front' = (rear' + cur') % QueueMax
    BY <1>1, <1>3 DEF RingInv, Place
  <1>8. QED
    BY <1>6, <1>7 DEF FIFO!Get

(* The other steps leave the ring alone.                                   *)
LEMMA RingStill ==
  ASSUME RingInv, UNCHANGED queueVars, producer' # "free" => adding' \in Task
  PROVE  RingInv' /\ UNCHANGED Queue
  BY DEF RingInv, queueVars, Queue

LEMMA RingNext == Ind /\ Ind' /\ RingInv /\ [PoolNext]_vars => RingInv' /\ [FIFO!Next]_Queue
  <1> SUFFICES ASSUME Ind, Ind', RingInv, [PoolNext]_vars
               PROVE  RingInv' /\ [FIFO!Next]_Queue
    OBVIOUS
  <1>1. TypeOK /\ TypeOK'
    BY DEF Ind
  <1>2. ASSUME NEW t \in Task, Put(t), producer' # "free" => adding' \in Task
        PROVE  RingInv' /\ [FIFO!Next]_Queue
    BY <1>1, <1>2, PutAppends DEF RingInv, FIFO!Next
  <1>3. ASSUME NEW t \in Task, Add(t) \/ AddFull(t)
        PROVE  RingInv' /\ [FIFO!Next]_Queue
    <2>1. CASE Add(t)
      BY <1>2, <2>1 DEF Add
    <2>2. CASE AddFull(t)
      BY <2>2, RingStill DEF AddFull
    <2>3. QED
      BY <1>3, <2>1, <2>2
  <1>4. CASE AddResume
    <2>1. adding \in Task
      BY <1>4 DEF AddResume, RingInv
    <2>2. CASE Put(adding) /\ producer' = "free"
      BY <1>2, <2>1, <2>2
    <2>3. CASE UNCHANGED <<queueVars, adding>>
      BY <2>1, <2>3, RingStill
    <2>4. QED
      BY <1>4, <2>2, <2>3 DEF AddResume
  <1>5. ASSUME NEW i \in Slot, Take(i) PROVE RingInv' /\ [FIFO!Next]_Queue
    <2>1. producer' # "free" => adding' \in Task
      BY <1>5 DEF Take, RingInv
    <2>2. QED
      BY <1>1, <1>5, <2>1, TakeRemoves DEF RingInv, FIFO!Next
  <1>6. ASSUME UNCHANGED <<queueVars, adding>>, producer' = producer \/ producer = "wait"
        PROVE  RingInv' /\ [FIFO!Next]_Queue
    BY <1>6, RingStill DEF RingInv
  <1>7. ASSUME NEW i \in Slot, WaitTask(i) \/ Exit(i) \/ Done(i)
        PROVE  RingInv' /\ [FIFO!Next]_Queue
    BY <1>6, <1>7 DEF WaitTask, Exit, Done
  <1>8. CASE Manager \/ Spurious \/ UNCHANGED vars
    BY <1>6, <1>8 DEF Manager, Look, Create, Shrink, Wake, Spurious, vars
  <1>9. QED
    BY <1>3, <1>4, <1>5, <1>7, <1>8 DEF PoolNext, AnyProducer, Custom

(* The ring of tasks is a bounded FIFO queue (Producer_add, Custom): no     *)
(* task is lost, doubled or overtaken, also when the indexes wrap and while *)
(* workers end.                                                            *)
THEOREM RingImplements == Spec => RingIsFifo
  <1>1. Init => RingInv /\ FIFO!Init
    BY RingInit
  <1>2. Ind /\ Ind' /\ RingInv /\ [Next]_vars => RingInv' /\ [FIFO!Next]_Queue
    BY RingNext, NextIsPoolNext
  <1>3. QED
    BY <1>1, <1>2, Inductive, PTL DEF Spec, RingIsFifo, FIFO!Spec
-----------------------------------------------------------------------------
(* The network layer.  An event is in one place: epoll may report it, the   *)
(* loop has it, it is in the queue, or one worker uses it.                  *)

Elems(s) == {s[k] : k \in 1 .. Len(s)}
NoDup(s) == \A j, k \in 1 .. Len(s) : s[j] = s[k] => j = k

InQueue == Elems(Queue)
InAdd == IF producer = "free" THEN {} ELSE {adding}
Serving == {job[i] : i \in {j \in Slot : step[j] \in {"read", "handle", "close"}}}
Ending == {job[i] : i \in {j \in Slot : step[j] \in {"logic", "free"}}}
Served == armed \cup batch \cup InQueue \cup InAdd \cup Serving

Steps == {"out", "read", "handle", "close", "logic", "free"}
Shape ==
  /\ open \subseteq Fd
  /\ inbox \in [Fd -> {"none", "half", "packet"}]
  /\ evFd \in [Task -> Fd \cup {NoFd}]
  /\ step \in [Slot -> Steps]

(* The workers in recv_task, each with an event of its own.                *)
Users ==
  /\ \A i \in Slot : step[i] # "out" => worker[i] = "run"
  /\ \A i, j \in Slot : step[i] # "out" /\ step[j] # "out" /\ job[i] = job[j] => i = j

Apart(a, b, q, d, u) ==
  \A e \in Task :
    /\ e \in a => e \notin b /\ e \notin q /\ e \notin d /\ e \notin u
    /\ e \in b => e \notin q /\ e \notin d /\ e \notin u
    /\ e \in q => e \notin d /\ e \notin u
    /\ e \in d => e \notin u
Places == NoDup(Queue) /\ Apart(armed, batch, InQueue, InAdd, Serving \cup Ending)

(* Each event that is served has an open descriptor of its own.            *)
Owners(v, n, o, f) ==
  /\ v \subseteq Task /\ n \subseteq Task
  /\ \A e \in n : f[e] \in Fd
  /\ \A e \in v : f[e] \in o
  /\ \A d, e \in v : f[d] = f[e] => d = e
Owned == Owners(Served, Ending, open, evFd)

NetInv == Shape /\ Users /\ Places /\ Owned
NetInd == Ind /\ RingInv /\ NetInv

-----------------------------------------------------------------------------
(* The tasks in a queue.                                                   *)

LEMMA Put1 ==
  ASSUME NEW S, NEW s \in Seq(S), NEW t \in S
  PROVE  /\ Elems(Append(s, t)) = Elems(s) \cup {t}
         /\ NoDup(s) /\ t \notin Elems(s) => NoDup(Append(s, t))
  <1>1. Len(s) \in Nat /\ Len(Append(s, t)) = Len(s) + 1
    OBVIOUS
  <1>2. \A k \in 1 .. Len(s) : Append(s, t)[k] = s[k]
    OBVIOUS
  <1>3. Append(s, t)[Len(s) + 1] = t
    OBVIOUS
  <1>4. 1 .. Len(s) + 1 = 1 .. Len(s) \cup {Len(s) + 1}
    BY <1>1
  <1> DEFINE n == Append(s, t)
             l == Len(s)
  <1>5. l \in Nat /\ Len(n) = l + 1 /\ (\A k \in 1 .. l : n[k] = s[k]) /\ n[l + 1] = t
        /\ 1 .. l + 1 = 1 .. l \cup {l + 1}
    BY <1>1, <1>2, <1>3, <1>4
  <1> HIDE DEF n
  <1>6. Elems(n) = Elems(s) \cup {t}
    BY <1>5 DEF Elems
  <1>7. ASSUME NoDup(s), t \notin Elems(s) PROVE NoDup(n)
    <2>1. \A k \in 1 .. l : n[k] # t
      BY <1>5, <1>7 DEF Elems
    <2>2. \A j, k \in 1 .. l : n[j] = n[k] => j = k
      BY <1>5, <1>7 DEF NoDup
    <2>3. QED
      BY <1>5, <2>1, <2>2 DEF NoDup
  <1>8. QED
    BY <1>6, <1>7 DEF n

LEMMA Get1 ==
  ASSUME NEW S, NEW s \in Seq(S), s # << >>, NoDup(s)
  PROVE  /\ Head(s) \in Elems(s) /\ NoDup(Tail(s))
         /\ Elems(Tail(s)) = Elems(s) \ {Head(s)}
  <1> DEFINE n == Tail(s)
             l == Len(s)
  <1>1. l \in Nat /\ l >= 1 /\ Len(n) = l - 1 /\ Head(s) = s[1]
    OBVIOUS
  <1>2. \A k \in 1 .. l - 1 : n[k] = s[k + 1]
    OBVIOUS
  <1> HIDE DEF n
  <1>3. Head(s) \in Elems(s)
    BY <1>1 DEF Elems
  <1>4. NoDup(n)
    BY <1>1, <1>2 DEF NoDup
  <1>5. ASSUME NEW k \in 1 .. l - 1 PROVE n[k] \in Elems(s) \ {Head(s)}
    <2>1. k + 1 \in 1 .. l /\ k + 1 # 1 /\ 1 \in 1 .. l /\ n[k] = s[k + 1]
      BY <1>1, <1>2
    <2>2. s[k + 1] # s[1]
      BY <2>1 DEF NoDup
    <2>3. QED
      BY <1>1, <2>1, <2>2 DEF Elems
  <1>6. ASSUME NEW x \in Elems(s), x # Head(s) PROVE x \in Elems(n)
    <2>1. PICK k \in 1 .. l : s[k] = x
      BY DEF Elems
    <2>2. k - 1 \in 1 .. l - 1 /\ n[k - 1] = s[k]
      BY <1>1, <1>2, <1>6, <2>1
    <2>3. QED
      BY <1>1, <2>1, <2>2 DEF Elems
  <1>7. Elems(n) \subseteq Elems(s) \ {Head(s)}
    BY <1>1, <1>5 DEF Elems
  <1>8. QED
    BY <1>3, <1>4, <1>6, <1>7 DEF n

-----------------------------------------------------------------------------
(* Steps of the net are steps of the pool.                                 *)

LEMMA NetPool == NetInv /\ [NetNext]_allVars => [PoolNext]_vars
  <1> SUFFICES ASSUME NetInv, [NetNext]_allVars PROVE [PoolNext]_vars
    OBVIOUS
  <1>1. ASSUME UNCHANGED poolVars PROVE UNCHANGED vars
    BY <1>1 DEF poolVars, vars
  <1>2. ASSUME NEW e \in Task, RecvEvent(e) \/ AcceptEvent(e) PROVE [PoolNext]_vars
    BY <1>1, <1>2 DEF RecvEvent, AcceptEvent, PoolNext, AnyProducer
  <1>3. ASSUME NEW i \in Slot, Thread(i) PROVE [PoolNext]_vars
    BY <1>1, <1>3 DEF Thread, Start, Leave, RecvTask, ReadPacket, ReadFails, Handled, CloseFd, Logic,
       FreeEv, Step, PoolNext, Custom
  <1>4. CASE PoolThreads \/ Poll \/ AddResume \/ \E f \in Fd : Send(f) \/ CloseByPeer(f)
    BY <1>1, <1>4 DEF PoolThreads, Poll, Send, CloseByPeer, PoolNext, AnyProducer
  <1>5. CASE UNCHANGED allVars
    BY <1>1, <1>5 DEF allVars
  <1>6. QED
    BY <1>2, <1>3, <1>4, <1>5 DEF NetNext, EventLoop
-----------------------------------------------------------------------------
(* What a step does to the workers that use an event.                      *)

(* Worker i goes on in recv_task.                                          *)
Goes(i, from, to) == step[i] = from /\ step' = [step EXCEPT ![i] = to] /\ UNCHANGED <<worker, job>>

LEMMA UsersKept ==
  ASSUME Users, \A i \in Slot : step'[i] # "out" => step[i] # "out" /\ job'[i] = job[i] /\ worker'[i] = "run"
  PROVE  Users'
  BY DEF Users

LEMMA WhileUsing ==
  ASSUME UNCHANGED step, \A i \in Slot : step[i] # "out" => job'[i] = job[i]
  PROVE  Serving' = Serving /\ Ending' = Ending
  BY DEF Serving, Ending

LEMMA Goers ==
  ASSUME Shape, Users, NEW i \in Slot, NEW from \in Steps, NEW to \in Steps, Goes(i, from, to), from # "out"
  PROVE  /\ Users' /\ step' \in [Slot -> Steps]
         /\ Serving' = IF to \in {"read", "handle", "close"} THEN Serving \cup {job[i]} ELSE Serving \ {job[i]}
         /\ Ending' = IF to \in {"logic", "free"} THEN Ending \cup {job[i]} ELSE Ending \ {job[i]}
         /\ from \in {"read", "handle", "close"} => job[i] \in Serving
         /\ from \in {"logic", "free"} => job[i] \in Ending
  <1>1. step'[i] = to /\ step' \in [Slot -> Steps] /\ \A j \in Slot : j # i => step'[j] = step[j]
    BY DEF Goes, Shape
  <1>2. job' = job /\ worker' = worker /\ step[i] = from
    BY DEF Goes
  <1>3. \A j \in Slot : step[j] # "out" /\ job[j] = job[i] => j = i
    BY <1>2 DEF Users
  <1>4. Users'
    BY <1>1, <1>2 DEF Users
  <1>5. Serving' = IF to \in {"read", "handle", "close"} THEN Serving \cup {job[i]} ELSE Serving \ {job[i]}
    BY <1>1, <1>2, <1>3 DEF Serving
  <1>6. Ending' = IF to \in {"logic", "free"} THEN Ending \cup {job[i]} ELSE Ending \ {job[i]}
    BY <1>1, <1>2, <1>3 DEF Ending
  <1>7. QED
    BY <1>1, <1>2, <1>4, <1>5, <1>6 DEF Serving, Ending

LEMMA ServingOrEnding == Users => Serving \cap Ending = {}
  BY DEF Users, Serving, Ending

LEMMA OwnersKept ==
  ASSUME NEW v, NEW n, NEW o, NEW f, Owners(v, n, o, f),
         NEW w, NEW m, w \subseteq v, m \subseteq v \cup n, o \subseteq Fd
  PROVE  Owners(w, m, o, f)
  BY DEF Owners

-----------------------------------------------------------------------------
(* The places.                                                             *)

(* Threads that do not use an event go their ways.                         *)
LEMMA QuietStep ==
  ASSUME NetInv, UNCHANGED <<open, armed, evFd, batch, step>>, UNCHANGED Queue,
         inbox' \in [Fd -> {"none", "half", "packet"}], InAdd' = InAdd,
         \A i \in Slot : step[i] # "out" => job'[i] = job[i] /\ worker'[i] = "run"
  PROVE  NetInv'
  <1>1. Serving' = Serving /\ Ending' = Ending /\ InQueue' = InQueue
    BY WhileUsing DEF InQueue
  <1>2. Users'
    BY UsersKept DEF NetInv
  <1>3. QED
    BY <1>1, <1>2 DEF NetInv, Shape, Places, Owned, Served

LEMMA PollStep ==
  ASSUME NetInv, Poll
  PROVE  NetInv'
  <1>1. batch = {} /\ batch' = Ready /\ armed' = armed \ Ready /\ Ready \subseteq armed
        /\ UNCHANGED <<poolVars, open, inbox, evFd, step>>
    BY DEF Poll, Disarmed, Ready
  <1>2. UNCHANGED <<Queue, producer, adding, worker, job>>
    BY <1>1 DEF poolVars, queueVars, Queue
  <1>3. Serving' = Serving /\ Ending' = Ending /\ InQueue' = InQueue /\ InAdd' = InAdd /\ Users'
    BY <1>1, <1>2 DEF Serving, Ending, InQueue, InAdd, Users, NetInv
  <1>4. Apart(armed', batch', InQueue, InAdd, Serving \cup Ending)
    BY <1>1 DEF NetInv, Places, Apart
  <1>5. Served' = Served
    BY <1>1, <1>3 DEF Served
  <1>6. QED
    BY <1>1, <1>2, <1>3, <1>4, <1>5 DEF NetInv, Shape, Places, Owned

(* Put: a task that is nowhere else in the pool gets to the end of the queue. *)
LEMMA QueuePut ==
  ASSUME TypeOK, TypeOK', RingInv, NetInv, NEW t \in Task, Put(t)
  PROVE  /\ InQueue' = InQueue \cup {t}
         /\ t \notin InQueue => NoDup(Queue)'
         /\ job' = job /\ \A i \in Slot : worker[i] = "run" => worker'[i] = "run"
  <1>1. Queue \in Seq(Task \cup {NoTask})
    BY QueueIsSeq
  <1>2. Queue' = Append(Queue, t)
    BY PutAppends DEF FIFO!Put
  <1>3. Elems(Queue)' = Elems(Queue) \cup {t}
    BY <1>1, <1>2, Put1 DEF Elems
  <1>4. t \notin Elems(Queue) => NoDup(Queue')
    BY <1>1, <1>2, Put1 DEF NetInv, Places
  <1>5. job' = job /\ \A i \in Slot : worker[i] = "run" => worker'[i] = "run"
    BY DEF Put, Signal, Waiting, At, TypeOK
  <1>6. QED
    BY <1>3, <1>4, <1>5 DEF InQueue, NoDup

LEMMA RecvEventStep ==
  ASSUME TypeOK, TypeOK', RingInv, NetInv, NEW e \in Task, RecvEvent(e)
  PROVE  NetInv'
  <1>1. e \in batch /\ batch' = batch \ {e} /\ producer = "free"
        /\ UNCHANGED <<open, inbox, armed, evFd, step>>
    BY DEF RecvEvent, Add, AddFull, kernel
  <1>2. InAdd = {} /\ e \notin InQueue
    BY <1>1 DEF InAdd, NetInv, Places, Apart
  <1>3. job' = job /\ \A i \in Slot : worker[i] = "run" => worker'[i] = "run"
    BY QueuePut DEF RecvEvent, Add, AddFull
  <1>4. /\ InQueue' \cup InAdd' = InQueue \cup {e} /\ InQueue' \cap InAdd' = {}
        /\ NoDup(Queue)'
    <2>1. CASE Add(e)
      <3>1. Put(e) /\ InAdd' = {}
        BY <1>1, <2>1 DEF Add, InAdd
      <3>2. QED
        BY <1>2, <3>1, QueuePut
    <2>2. CASE AddFull(e)
      <3>1. InAdd' = {e} /\ Queue' = Queue
        BY <2>2 DEF AddFull, InAdd, queueVars, Queue
      <3>2. InQueue' = InQueue /\ NoDup(Queue)'
        BY <3>1 DEF InQueue, NetInv, Places
      <3>3. QED
        BY <1>2, <3>1, <3>2
    <2>3. QED
      BY <2>1, <2>2 DEF RecvEvent
  <1>5. Serving' = Serving /\ Ending' = Ending
    BY <1>1, <1>3 DEF Serving, Ending
  <1>6. Users'
    BY <1>1, <1>3 DEF Users, NetInv
  <1>7. Apart(armed, batch', InQueue', InAdd', Serving \cup Ending)
    BY <1>1, <1>2, <1>4 DEF NetInv, Places, Apart
  <1>8. Served' = Served
    BY <1>1, <1>2, <1>4, <1>5 DEF Served
  <1>9. QED
    BY <1>1, <1>4, <1>5, <1>6, <1>7, <1>8 DEF NetInv, Shape, Places, Owned

(* The event that waited for room is in the queue.                         *)
LEMMA PutWaiting ==
  ASSUME TypeOK, TypeOK', RingInv, NetInv, producer = "woken", Put(adding), producer' = "free",
         UNCHANGED netVars
  PROVE  NetInv'
  <1>1. adding \in Task /\ InAdd = {adding} /\ InAdd' = {}
    BY DEF RingInv, InAdd
  <1>2. adding \notin InQueue
    BY <1>1 DEF NetInv, Places, Apart
  <1>3. InQueue' = InQueue \cup {adding} /\ NoDup(Queue)'
        /\ job' = job /\ \A i \in Slot : worker[i] = "run" => worker'[i] = "run"
    BY <1>1, <1>2, QueuePut
  <1>4. UNCHANGED <<open, inbox, armed, evFd, batch, step>>
    BY DEF netVars, kernel
  <1>5. Serving' = Serving /\ Ending' = Ending
    BY <1>3, <1>4 DEF Serving, Ending
  <1>6. Users'
    BY <1>3, <1>4 DEF Users, NetInv
  <1>7. Apart(armed, batch, InQueue', InAdd', Serving \cup Ending)
    BY <1>1, <1>3 DEF NetInv, Places, Apart
  <1>8. Served' = Served
    BY <1>1, <1>3, <1>4, <1>5 DEF Served
  <1>9. QED
    BY <1>3, <1>4, <1>5, <1>6, <1>7, <1>8 DEF NetInv, Shape, Places, Owned

LEMMA StartStep ==
  ASSUME TypeOK, TypeOK', RingInv, NetInv, NEW i \in Slot, Start(i)
  PROVE  NetInv'
  <1>1. /\ Take(i) /\ worker[i] \in {"top", "woken"} /\ worker'[i] = "run"
        /\ \A j \in Slot : j # i => worker'[j] = worker[j] /\ job'[j] = job[j] /\ step'[j] = step[j]
        /\ step'[i] = "read" /\ step' \in [Slot -> Steps]
        /\ UNCHANGED <<open, inbox, armed, evFd, batch>>
    BY DEF Start, Take, AtLock, At, kernel, TypeOK, NetInv, Shape, Steps
  <1>2. step[i] = "out"
    BY <1>1 DEF NetInv, Users
  <1>3. Queue \in Seq(Task \cup {NoTask}) /\ Queue # << >> /\ Queue' = Tail(Queue)
    BY <1>1, QueueIsSeq, TakeRemoves DEF FIFO!Get
  <1>4. job'[i] = Head(Queue)
    <2>1. Len(Queue) = cur /\ cur > 0 /\ cur \in Nat
      BY <1>1, QueueIsSeq DEF Take, TypeOK
    <2>2. Queue[1] = ring[(rear + 1 - 1) % QueueMax]
      BY <2>1 DEF Queue
    <2>3. rear + 1 - 1 = rear /\ rear % QueueMax = rear
      <3>1. QueueMax \in Nat /\ rear \in 0 .. QueueMax - 1 /\ rear \in 0 .. 2 * QueueMax - 1
        BY Ranges
      <3>2. rear % QueueMax = IF rear < QueueMax THEN rear ELSE rear - QueueMax
        BY <3>1, OneTurn
      <3>3. QED
        BY <3>1, <3>2
    <2>4. job'[i] = ring[rear]
      BY <1>1 DEF Take, TypeOK
    <2>5. QED
      BY <1>3, <2>2, <2>3, <2>4
  <1> DEFINE h == Head(Queue)
  <1>5. h \in InQueue /\ InQueue' = InQueue \ {h} /\ NoDup(Queue')
    BY <1>3, Get1 DEF InQueue, NetInv, Places, Elems
  <1> HIDE DEF h
  <1>6. h \in Task /\ h \notin Serving \cup Ending
    BY <1>5 DEF NetInv, Places, Apart, Owned, Owners, Served
  <1>7. job'[i] = h
    BY <1>4 DEF h
  <1>8. Serving' = Serving \cup {h} /\ Ending' = Ending
    BY <1>1, <1>2, <1>7 DEF Serving, Ending
  <1>9. Users'
    <2>1. \A j \in Slot : step[j] # "out" => job[j] # h
      BY <1>6 DEF Serving, Ending, NetInv, Shape, Steps
    <2>2. QED
      BY <1>1, <1>2, <1>7, <2>1 DEF Users, NetInv
  <1>10. InAdd' = InAdd
    BY <1>1 DEF Take, InAdd
  <1>11. Apart(armed, batch, InQueue', InAdd, Serving' \cup Ending)
    BY <1>5, <1>8 DEF NetInv, Places, Apart
  <1>12. Served' = Served
    BY <1>1, <1>5, <1>8, <1>10 DEF Served
  <1>13. NoDup(Queue)'
    BY <1>5 DEF NoDup
  <1>14. QED
    BY <1>1, <1>8, <1>9, <1>10, <1>11, <1>12, <1>13 DEF NetInv, Shape, Places, Owned
LEMMA AcceptStep ==
  ASSUME TypeOK, NetInv, NEW e \in Task, AcceptEvent(e)
  PROVE  NetInv'
  <1>1. PICK f \in Fd \ open :
          /\ open' = open \cup {f}
          /\ inbox' = [inbox EXCEPT ![f] = "none"]
          /\ evFd' = [evFd EXCEPT ![e] = f]
    BY DEF AcceptEvent
  <1>2. evFd[e] = NoFd /\ armed' = armed \cup {e} /\ UNCHANGED <<poolVars, batch, step>>
    BY DEF AcceptEvent
  <1>3. UNCHANGED <<Queue, producer, adding, worker, job>>
    BY <1>2 DEF poolVars, queueVars, Queue
  <1>4. Serving' = Serving /\ Ending' = Ending /\ InQueue' = InQueue /\ InAdd' = InAdd /\ Users'
    BY <1>2, <1>3 DEF Serving, Ending, InQueue, InAdd, Users, NetInv
  <1>5. e \notin Served /\ e \notin Ending
    BY <1>2, FdAssumption DEF NetInv, Owned, Owners, Shape
  <1>6. Apart(armed', batch, InQueue, InAdd, Serving \cup Ending)
    BY <1>2, <1>5 DEF NetInv, Places, Apart, Served
  <1>7. Served' = Served \cup {e}
    BY <1>2, <1>4 DEF Served
  <1>8. \A d \in Task : evFd'[d] = IF d = e THEN f ELSE evFd[d]
    BY <1>1 DEF NetInv, Shape
  <1>9. Owners(Served', Ending, open', evFd')
    BY <1>1, <1>5, <1>7, <1>8 DEF NetInv, Owned, Owners
  <1>10. Shape'
    BY <1>1, <1>2 DEF NetInv, Shape
  <1>11. QED
    BY <1>2, <1>3, <1>4, <1>6, <1>9, <1>10 DEF NetInv, Places, Owned

LEMMA StepGoes ==
  ASSUME NEW i \in Slot, NEW from, NEW to, Step(i, from, to)
  PROVE  Goes(i, from, to) /\ UNCHANGED <<Queue, producer, adding>>
  BY DEF Step, Goes, poolVars, queueVars, Queue

LEMMA ReadStep ==
  ASSUME TypeOK, NetInv, NEW i \in Slot, ReadPacket(i) \/ ReadFails(i)
  PROVE  NetInv'
  <1>1. PICK to \in {"handle", "close"} : Step(i, "read", to)
    BY DEF ReadPacket, ReadFails
  <1>2. Goes(i, "read", to) /\ UNCHANGED <<Queue, producer, adding>>
    BY <1>1, StepGoes
  <1>3. UNCHANGED <<open, armed, evFd, batch>> /\ inbox' \in [Fd -> {"none", "half", "packet"}]
    BY DEF ReadPacket, ReadFails, kernel, NetInv, Shape
  <1>4. Users' /\ step' \in [Slot -> Steps] /\ Serving' = Serving \cup {job[i]} /\ Ending' = Ending \ {job[i]}
        /\ job[i] \in Serving
    BY <1>2, Goers DEF NetInv, Steps
  <1>5. Serving' = Serving /\ Ending' = Ending
    BY <1>4, ServingOrEnding DEF NetInv
  <1>6. InQueue' = InQueue /\ InAdd' = InAdd /\ Served' = Served
    BY <1>2, <1>3, <1>5 DEF InQueue, InAdd, Served
  <1>7. QED
    BY <1>2, <1>3, <1>4, <1>5, <1>6 DEF NetInv, Shape, Places, Owned

LEMMA HandledStep ==
  ASSUME TypeOK, NetInv, NEW i \in Slot, Handled(i)
  PROVE  NetInv'
  <1>1. Goes(i, "handle", "out") /\ UNCHANGED <<Queue, producer, adding>>
    BY StepGoes DEF Handled
  <1>2. armed' = armed \cup {job[i]} /\ UNCHANGED <<open, inbox, evFd, batch>>
    BY DEF Handled, Rearmed, Ev
  <1>3. Users' /\ step' \in [Slot -> Steps] /\ Serving' = Serving \ {job[i]} /\ Ending' = Ending \ {job[i]}
        /\ job[i] \in Serving
    BY <1>1, Goers DEF NetInv, Steps
  <1>4. Ending' = Ending
    BY <1>3, ServingOrEnding DEF NetInv
  <1>5. InQueue' = InQueue /\ InAdd' = InAdd
    BY <1>1 DEF InQueue, InAdd
  <1>6. Served' = Served
    BY <1>2, <1>3, <1>5 DEF Served
  <1>7. job[i] \notin Ending
    BY <1>3, ServingOrEnding DEF NetInv
  <1>8. Apart(armed', batch, InQueue, InAdd, Serving' \cup Ending)
    BY <1>2, <1>3, <1>7 DEF NetInv, Places, Apart
  <1>9. QED
    BY <1>1, <1>2, <1>3, <1>4, <1>5, <1>6, <1>8 DEF NetInv, Shape, Places, Owned

LEMMA CloseFdStep ==
  ASSUME TypeOK, NetInv, NEW i \in Slot, CloseFd(i)
  PROVE  NetInv'
  <1>1. Goes(i, "close", "logic") /\ UNCHANGED <<Queue, producer, adding>>
    BY StepGoes DEF CloseFd
  <1>2. armed' = armed \ {job[i]} /\ open' = open \ {evFd[job[i]]} /\ UNCHANGED <<inbox, evFd, batch>>
    BY DEF CloseFd, Ev, FdOf
  <1>3. Users' /\ step' \in [Slot -> Steps] /\ Serving' = Serving \ {job[i]} /\ Ending' = Ending \cup {job[i]}
        /\ job[i] \in Serving
    BY <1>1, Goers DEF NetInv, Steps
  <1>4. job[i] \in Task
    BY <1>3 DEF NetInv, Owned, Owners, Served
  <1>5. job[i] \notin armed \cup batch \cup InQueue \cup InAdd
    BY <1>3, <1>4 DEF NetInv, Places, Apart
  <1>6. InQueue' = InQueue /\ InAdd' = InAdd /\ armed' = armed
    BY <1>1, <1>2, <1>5 DEF InQueue, InAdd
  <1>7. Served' = Served \ {job[i]} /\ job[i] \in Served
    BY <1>2, <1>3, <1>5, <1>6 DEF Served
  <1>8. Serving' \cup Ending' = Serving \cup Ending
    BY <1>3
  <1>9. Owners(Served', Ending', open', evFd)
    <2>1. \A d \in Served : evFd[d] \in open /\ d \in Task
      BY DEF NetInv, Owned, Owners
    <2>2. \A d, e \in Served : evFd[d] = evFd[e] => d = e
      BY DEF NetInv, Owned, Owners
    <2>3. Ending \subseteq Task /\ \A d \in Ending : evFd[d] \in Fd
      BY DEF NetInv, Owned, Owners
    <2>4. open \subseteq Fd
      BY DEF NetInv, Shape
    <2>5. QED
      BY <1>2, <1>3, <1>4, <1>7, <2>1, <2>2, <2>3, <2>4 DEF Owners
  <1>10. QED
    BY <1>1, <1>2, <1>3, <1>6, <1>8, <1>9 DEF NetInv, Shape, Places, Owned

LEMMA LogicStep ==
  ASSUME TypeOK, NetInv, NEW i \in Slot, Logic(i)
  PROVE  NetInv'
  <1>1. Goes(i, "logic", "free") /\ UNCHANGED <<Queue, producer, adding, open, inbox, armed, evFd, batch>>
    BY StepGoes DEF Logic, kernel
  <1>2. Users' /\ step' \in [Slot -> Steps] /\ Serving' = Serving \ {job[i]} /\ Ending' = Ending \cup {job[i]}
        /\ job[i] \in Ending
    BY <1>1, Goers DEF NetInv, Steps
  <1>3. Serving' = Serving /\ Ending' = Ending
    BY <1>2, ServingOrEnding DEF NetInv
  <1>4. InQueue' = InQueue /\ InAdd' = InAdd /\ Served' = Served
    BY <1>1, <1>3 DEF InQueue, InAdd, Served
  <1>5. QED
    BY <1>1, <1>2, <1>3, <1>4 DEF NetInv, Shape, Places, Owned

LEMMA FreeEvStep ==
  ASSUME TypeOK, NetInv, NEW i \in Slot, FreeEv(i)
  PROVE  NetInv'
  <1>1. Goes(i, "free", "out") /\ UNCHANGED <<Queue, producer, adding, open, inbox, armed, batch>>
        /\ evFd' = [evFd EXCEPT ![job[i]] = NoFd]
    BY StepGoes DEF FreeEv, kernel, Ev
  <1>2. Users' /\ step' \in [Slot -> Steps] /\ Serving' = Serving \ {job[i]} /\ Ending' = Ending \ {job[i]}
        /\ job[i] \in Ending
    BY <1>1, Goers DEF NetInv, Steps
  <1>3. Serving' = Serving
    BY <1>2, ServingOrEnding DEF NetInv
  <1>4. InQueue' = InQueue /\ InAdd' = InAdd /\ Served' = Served
    BY <1>1, <1>3 DEF InQueue, InAdd, Served
  <1>5. job[i] \in Task /\ job[i] \notin Served
    BY <1>2, ServingOrEnding DEF NetInv, Owned, Owners, Places, Apart, Served
  <1>6. \A d \in Task : d # job[i] => evFd'[d] = evFd[d]
    BY <1>1 DEF NetInv, Shape
  <1>7. Owners(Served, Ending', open, evFd')
    BY <1>2, <1>5, <1>6 DEF NetInv, Owned, Owners
  <1>8. Apart(armed, batch, InQueue, InAdd, Serving \cup Ending')
    BY <1>2 DEF NetInv, Places, Apart
  <1>9. Shape'
    BY <1>1, <1>2 DEF NetInv, Shape
  <1>10. QED
    BY <1>1, <1>2, <1>3, <1>4, <1>7, <1>8, <1>9 DEF NetInv, Places, Owned

(* The rest of the pool: the manager, and workers that have no event.      *)
LEMMA PoolOnly ==
  ASSUME TypeOK, NetInv, NEW i \in Slot,
         \/ PoolThreads \/ Leave(i) \/ UNCHANGED allVars
         \/ (WaitTask(i) \/ Exit(i)) /\ UNCHANGED netVars
         \/ AddResume /\ producer' = "wait" /\ UNCHANGED netVars
  PROVE  /\ \A j \in Slot : step[j] # "out" => job'[j] = job[j] /\ worker'[j] = "run"
         /\ UNCHANGED <<Queue, open, inbox, armed, evFd, batch, step>> /\ InAdd' = InAdd
  <1>1. UNCHANGED netVars
    BY DEF PoolThreads, Leave, allVars
  <1>2. UNCHANGED queueVars /\ InAdd' = InAdd
    BY DEF PoolThreads, Leave, allVars, poolVars, WaitTask, Exit, Done, AddResume, Put, Manager, Look,
       Create, Shrink, Wake, Spurious, InAdd
  <1>3. \A j \in Slot : step[j] # "out" => worker[j] = "run"
    BY DEF NetInv, Users
  <1>4. \A j \in Slot : step[j] # "out" => job'[j] = job[j] /\ worker'[j] = "run"
    <2>1. CASE Leave(i)
      BY <1>3, <2>1 DEF Leave, Done, TypeOK
    <2>2. CASE WaitTask(i) \/ Exit(i)
      BY <1>3, <2>2 DEF WaitTask, Exit, AtLock, At, TypeOK
    <2>3. CASE PoolThreads
      BY <1>3, <2>3 DEF PoolThreads, Manager, Look, Create, FreeSlot, Shrink, Wake, Signal, Spurious,
         Waiting, At, counters, TypeOK
    <2>4. CASE UNCHANGED allVars \/ (AddResume /\ producer' = "wait")
      BY <1>3, <2>4 DEF allVars, poolVars, AddResume
    <2>5. QED
      BY <2>1, <2>2, <2>3, <2>4
  <1>5. QED
    BY <1>1, <1>2, <1>4 DEF netVars, kernel, queueVars, Queue

LEMMA NetInvNext == TypeOK /\ TypeOK' /\ RingInv /\ NetInv /\ [NetNext]_allVars => NetInv'
  <1> SUFFICES ASSUME TypeOK, TypeOK', RingInv, NetInv, [NetNext]_allVars PROVE NetInv'
    OBVIOUS
  <1>1. ASSUME NEW i \in Slot,
               \/ PoolThreads \/ Leave(i) \/ UNCHANGED allVars
               \/ (WaitTask(i) \/ Exit(i)) /\ UNCHANGED netVars
               \/ AddResume /\ producer' = "wait" /\ UNCHANGED netVars
        PROVE  NetInv'
    BY <1>1, PoolOnly, QuietStep DEF NetInv, Shape
  <1>2. ASSUME NEW f \in Fd, Send(f) \/ CloseByPeer(f) PROVE NetInv'
    <2>1. UNCHANGED <<Queue, producer, adding, worker, job, open, armed, evFd, batch, step>>
          /\ inbox' \in [Fd -> {"none", "half", "packet"}]
      BY <1>2 DEF Send, CloseByPeer, poolVars, queueVars, Queue, NetInv, Shape
    <2>2. InAdd' = InAdd /\ \A i \in Slot : step[i] # "out" => job'[i] = job[i] /\ worker'[i] = "run"
      BY <2>1 DEF InAdd, NetInv, Users
    <2>3. QED
      BY <2>1, <2>2, QuietStep
  <1>3. CASE AddResume /\ UNCHANGED netVars
    <2>1. CASE Put(adding) /\ producer' = "free"
      BY <1>3, <2>1, PutWaiting DEF AddResume
    <2>2. CASE producer' = "wait"
      <3>1. 1 \in Slot
        BY SizesAssumption DEF Slot
      <3>2. QED
        BY <1>1, <1>3, <2>2, <3>1
    <2>3. QED
      BY <1>3, <2>1, <2>2 DEF AddResume
  <1>4. ASSUME NEW i \in Slot, Thread(i) PROVE NetInv'
    BY <1>1, <1>4, StartStep, ReadStep, HandledStep, CloseFdStep, LogicStep, FreeEvStep
       DEF Thread, RecvTask
  <1>5. CASE PoolThreads \/ UNCHANGED allVars
    <2>1. 1 \in Slot
      BY SizesAssumption DEF Slot
    <2>2. QED
      BY <1>1, <1>5, <2>1
  <1>6. QED
    BY <1>2, <1>3, <1>4, <1>5, PollStep, RecvEventStep, AcceptStep DEF NetNext, EventLoop

LEMMA NetInvInit == NetInit => NetInv
  <1> SUFFICES ASSUME NetInit PROVE NetInv
    OBVIOUS
  <1>1. Init /\ producer = "free"
    BY DEF NetInit, Init
  <1>2. Queue = << >>
    BY <1>1, RingInit DEF FIFO!Init
  <1>3. InQueue = {} /\ InAdd = {} /\ NoDup(Queue)
    BY <1>1, <1>2 DEF InQueue, InAdd, Elems, NoDup
  <1>4. Serving = {} /\ Ending = {}
    BY DEF NetInit, Serving, Ending
  <1>5. QED
    BY <1>3, <1>4 DEF NetInit, NetInv, Shape, Steps, Users, Places, Apart, Owned, Owners, Served

LEMMA NetInductive == NetSpec => []NetInd
  <1>1. NetInit => NetInd
    BY NetInvInit, InitInd, RingInit DEF NetInit, NetInd
  <1>2. NetInd /\ [NetNext]_allVars => NetInd'
    BY NetPool, PoolStep, RingNext, NetInvNext DEF NetInd, Ind
  <1>3. QED
    BY <1>1, <1>2, PTL DEF NetSpec
-----------------------------------------------------------------------------
(* The types.                                                              *)

EofOK == eof \in [Fd -> BOOLEAN]

LEMMA EofNext == EofOK /\ [NetNext]_allVars => EofOK'
  <1> SUFFICES ASSUME EofOK, [NetNext]_allVars PROVE EofOK'
    OBVIOUS
  <1>1. \/ eof' = eof
        \/ \E f \in Fd : eof' = [eof EXCEPT ![f] = TRUE] \/ eof' = [eof EXCEPT ![f] = FALSE]
    BY DEF NetNext, EventLoop, Thread, PoolThreads, RecvTask, Send, CloseByPeer, Poll, RecvEvent, AcceptEvent,
       Start, ReadPacket, ReadFails, Handled, CloseFd, Logic, FreeEv, Leave, netVars, kernel, allVars
  <1>2. QED
    BY <1>1, Zenon DEF EofOK

(* The types of the network layer and of its pool: an index of the ring     *)
(* never leaves it, an event in recv_task is an allocated one.              *)
THEOREM NetTypes == NetSpec => []NetTypeOK
  <1>1. NetInit => EofOK
    BY Zenon DEF NetInit, EofOK
  <1>2. NetSpec => []EofOK
    BY <1>1, EofNext, PTL DEF NetSpec
  <1>3. NetInd /\ EofOK => NetTypeOK
    <2> SUFFICES ASSUME NetInd, EofOK PROVE NetTypeOK
      OBVIOUS
    <2>1. TypeOK /\ Shape
      BY DEF NetInd, Ind, NetInv
    <2>2. armed \subseteq Task /\ batch \subseteq Task
      BY DEF NetInd, NetInv, Owned, Owners, Served
    <2>3. QED
      BY <2>1, <2>2 DEF NetTypeOK, Shape, Steps, EofOK
  <1>4. QED
    BY <1>2, <1>3, NetInductive, PTL

-----------------------------------------------------------------------------
(* The contract with the handlers.                                         *)

Handling(f) == \E i \in Slot : step[i] = "handle" /\ evFd[job[i]] = f
Cleaning(f) == {i \in Slot : step[i] = "logic" /\ evFd[job[i]] = f}

Mapped ==
  /\ ConnOf = [f \in Fd |-> IF f \notin open THEN "closed"
                            ELSE IF Handling(f) THEN "handling" ELSE "idle"]
  /\ CleanupOf = [f \in Fd |-> Cardinality(Cleaning(f))]

LEMMA Mapping == Users => Mapped
  <1> SUFFICES ASSUME Users PROVE Mapped
    OBVIOUS
  <1>1. \A i \in Slot : Using(i) <=> step[i] # "out"
    BY DEF Users, Using, At
  <1>2. \A f \in Fd : Cleaners(f) = Cleaning(f)
    BY <1>1 DEF Cleaners, Cleaning, FdOf
  <1>3. \A f \in Fd : (\E i \in Slot : Using(i) /\ FdOf(i) = f /\ step[i] = "handle") <=> Handling(f)
    BY <1>1 DEF Handling, FdOf
  <1>4. QED
    BY <1>2, <1>3 DEF ConnOf, CleanupOf, Mapped

LEMMA MappingNext == Users' => Mapped'
  BY Mapping, PTL

(* The handlers and clean-ups stay as they are.                            *)
SameCalls ==
  /\ \A i \in Slot : (step'[i] = "handle" <=> step[i] = "handle") /\ (step'[i] = "logic" <=> step[i] = "logic")
  /\ \A i \in Slot : step[i] \in {"handle", "logic"} => evFd'[job'[i]] = evFd[job[i]]

LEMMA Same ==
  ASSUME SameCalls
  PROVE  \A f \in Fd : (Handling(f)' <=> Handling(f)) /\ Cleaning(f)' = Cleaning(f)
  BY DEF SameCalls, Handling, Cleaning

LEMMA StillMapped ==
  ASSUME Users, Users', SameCalls, open' = open
  PROVE  UNCHANGED <<ConnOf, CleanupOf>>
  BY Same, Mapping, MappingNext DEF Mapped

(* One handler of a connection at a time.                                  *)
LEMMA OneHandler ==
  ASSUME NetInv, NEW i \in Slot, NEW j \in Slot, step[i] \in {"read", "handle", "close"},
         step[j] \in {"read", "handle", "close"}, evFd[job[i]] = evFd[job[j]]
  PROVE  i = j
  <1>1. job[i] \in Serving /\ job[j] \in Serving
    BY DEF Serving
  <1>2. job[i] = job[j]
    BY <1>1 DEF NetInv, Owned, Owners, Served
  <1>3. QED
    BY <1>2 DEF NetInv, Users

LEMMA ServedOpen ==
  ASSUME NetInv, NEW i \in Slot, step[i] \in {"read", "handle", "close"}
  PROVE  evFd[job[i]] \in open /\ evFd[job[i]] \in Fd
  BY DEF NetInv, Owned, Owners, Served, Serving, Shape

LEMMA CleaningFinite ==
  ASSUME NEW f
  PROVE  IsFiniteSet(Cleaning(f)) /\ Cardinality(Cleaning(f)) \in Nat
  <1>1. Cleaning(f) \in SUBSET Slot
    BY DEF Cleaning
  <1>2. QED
    BY <1>1, SlotFinite, FS_Subset, FS_CardinalityType

LEMMA AcceptMapped ==
  ASSUME NetInv, Users', NEW e \in Task, AcceptEvent(e)
  PROVE  Contract!Next
  <1>1. PICK f \in Fd \ open :
          /\ open' = open \cup {f}
          /\ evFd' = [evFd EXCEPT ![e] = f]
    BY DEF AcceptEvent
  <1>2. evFd[e] = NoFd /\ UNCHANGED <<step, job>>
    BY DEF AcceptEvent, poolVars
  <1>3. \A i \in Slot : step[i] \in {"handle", "logic"} => job[i] \in Task /\ evFd[job[i]] \in Fd
    BY DEF NetInv, Owned, Owners, Shape, Served, Serving, Ending
  <1>4. \A i \in Slot : step[i] \in {"handle", "logic"} => evFd'[job[i]] = evFd[job[i]]
    BY <1>1, <1>2, <1>3, FdAssumption DEF NetInv, Shape
  <1>5. \A g \in Fd : (Handling(g)' <=> Handling(g)) /\ Cleaning(g)' = Cleaning(g)
    BY <1>2, <1>4, Same DEF SameCalls
  <1>6. ~Handling(f)
    BY <1>1, ServedOpen DEF Handling
  <1>7. CleanupOf' = CleanupOf
    BY <1>5, Mapping, MappingNext DEF Mapped, NetInv
  <1>8. ConnOf[f] = "closed" /\ ConnOf' = [ConnOf EXCEPT ![f] = "idle"]
    BY <1>1, <1>5, <1>6, Mapping, MappingNext DEF Mapped, NetInv
  <1>9. Contract!Accept(f)
    BY <1>7, <1>8 DEF Contract!Accept, Contract!Move
  <1>10. QED
    BY <1>1, <1>9 DEF Contract!Next

LEMMA ReadMapped ==
  ASSUME NetInv, Users', NEW i \in Slot, ReadPacket(i)
  PROVE  Contract!Next
  <1>1. Goes(i, "read", "handle") /\ UNCHANGED <<open, evFd>>
    BY StepGoes DEF ReadPacket
  <1>2. PICK f \in Fd : f = evFd[job[i]] /\ f \in open
    BY <1>1, ServedOpen DEF Goes
  <1>3. step[i] = "read" /\ step'[i] = "handle" /\ job' = job /\ \A j \in Slot : j # i => step'[j] = step[j]
    BY <1>1 DEF Goes, NetInv, Shape
  <1>4. ~Handling(f)
    BY <1>2, <1>3, OneHandler DEF Handling
  <1>5. Handling(f)' /\ \A g \in Fd : g # f => (Handling(g)' <=> Handling(g))
    BY <1>1, <1>2, <1>3 DEF Handling
  <1>6. \A g \in Fd : Cleaning(g)' = Cleaning(g)
    BY <1>1, <1>3 DEF Cleaning
  <1>7. ConnOf[f] = "idle" /\ ConnOf' = [ConnOf EXCEPT ![f] = "handling"]
    BY <1>1, <1>2, <1>4, <1>5, Mapping, MappingNext DEF Mapped, NetInv
  <1>8. CleanupOf' = CleanupOf
    BY <1>6, Mapping, MappingNext DEF Mapped, NetInv
  <1>9. Contract!Begin(f)
    BY <1>7, <1>8 DEF Contract!Begin, Contract!Move
  <1>10. QED
    BY <1>9 DEF Contract!Next

LEMMA HandledMapped ==
  ASSUME NetInv, Users', NEW i \in Slot, Handled(i)
  PROVE  Contract!Next
  <1>1. Goes(i, "handle", "out") /\ UNCHANGED <<open, evFd>>
    BY StepGoes DEF Handled
  <1>2. PICK f \in Fd : f = evFd[job[i]] /\ f \in open
    BY <1>1, ServedOpen DEF Goes
  <1>3. step[i] = "handle" /\ step'[i] = "out" /\ job' = job /\ \A j \in Slot : j # i => step'[j] = step[j]
    BY <1>1 DEF Goes, NetInv, Shape
  <1>4. Handling(f)
    BY <1>2, <1>3 DEF Handling
  <1>5. ~Handling(f)'
    BY <1>1, <1>2, <1>3, OneHandler DEF Handling
  <1>6. \A g \in Fd : /\ g # f => (Handling(g)' <=> Handling(g))
                      /\ Cleaning(g)' = Cleaning(g)
    BY <1>1, <1>2, <1>3 DEF Handling, Cleaning
  <1>7. ConnOf[f] = "handling" /\ ConnOf' = [ConnOf EXCEPT ![f] = "idle"]
    BY <1>1, <1>2, <1>4, <1>5, <1>6, Mapping, MappingNext DEF Mapped, NetInv
  <1>8. CleanupOf' = CleanupOf
    BY <1>6, Mapping, MappingNext DEF Mapped, NetInv
  <1>9. Contract!Return(f)
    BY <1>7, <1>8 DEF Contract!Return, Contract!Move
  <1>10. QED
    BY <1>9 DEF Contract!Next

LEMMA CloseMapped ==
  ASSUME NetInv, Users', NEW i \in Slot, CloseFd(i)
  PROVE  Contract!Next
  <1>1. Goes(i, "close", "logic") /\ evFd' = evFd /\ open' = open \ {evFd[job[i]]}
    BY StepGoes DEF CloseFd, FdOf
  <1>2. PICK f \in Fd : f = evFd[job[i]] /\ f \in open
    BY <1>1, ServedOpen DEF Goes
  <1>3. step[i] = "close" /\ step'[i] = "logic" /\ job' = job /\ \A j \in Slot : j # i => step'[j] = step[j]
    BY <1>1 DEF Goes, NetInv, Shape
  <1>4. ~Handling(f)
    BY <1>2, <1>3, OneHandler DEF Handling
  <1>5. \A g \in Fd : Handling(g)' <=> Handling(g)
    BY <1>1, <1>3 DEF Handling
  <1>6. Cleaning(f)' = Cleaning(f) \cup {i} /\ i \notin Cleaning(f)
        /\ \A g \in Fd : g # f => Cleaning(g)' = Cleaning(g)
    BY <1>1, <1>2, <1>3 DEF Cleaning
  <1>7. Cardinality(Cleaning(f)') = Cardinality(Cleaning(f)) + 1
    BY <1>6, CleaningFinite, FS_AddElement
  <1>8. ConnOf[f] = "idle" /\ ConnOf' = [ConnOf EXCEPT ![f] = "closed"]
    BY <1>1, <1>2, <1>4, <1>5, Mapping, MappingNext DEF Mapped, NetInv
  <1>9. CleanupOf' = [CleanupOf EXCEPT ![f] = @ + 1]
    BY <1>6, <1>7, Mapping, MappingNext DEF Mapped, NetInv
  <1>10. Contract!Disconnect(f)
    BY <1>8, <1>9 DEF Contract!Disconnect, Contract!Move
  <1>11. QED
    BY <1>10 DEF Contract!Next

LEMMA LogicMapped ==
  ASSUME NetInv, Users', NEW i \in Slot, Logic(i)
  PROVE  Contract!Next
  <1>1. Goes(i, "logic", "free") /\ UNCHANGED <<open, evFd>>
    BY StepGoes DEF Logic, kernel
  <1>2. step[i] = "logic" /\ step'[i] = "free" /\ job' = job /\ \A j \in Slot : j # i => step'[j] = step[j]
    BY <1>1 DEF Goes, NetInv, Shape
  <1>3. PICK f \in Fd : f = evFd[job[i]]
    BY <1>2 DEF NetInv, Owned, Owners, Ending
  <1>4. \A g \in Fd : Handling(g)' <=> Handling(g)
    BY <1>1, <1>2 DEF Handling
  <1>5. Cleaning(f)' = Cleaning(f) \ {i} /\ i \in Cleaning(f)
        /\ \A g \in Fd : g # f => Cleaning(g)' = Cleaning(g)
    BY <1>1, <1>2, <1>3 DEF Cleaning
  <1>6. Cardinality(Cleaning(f)') = Cardinality(Cleaning(f)) - 1 /\ Cardinality(Cleaning(f)) \in Nat
    BY <1>5, CleaningFinite, FS_RemoveElement
  <1>7. Cardinality(Cleaning(f)) > 0
    BY <1>5, <1>6, CleaningFinite, FS_EmptySet
  <1>8. ConnOf' = ConnOf
    BY <1>1, <1>4, Mapping, MappingNext DEF Mapped, NetInv
  <1>9. CleanupOf[f] > 0 /\ CleanupOf' = [CleanupOf EXCEPT ![f] = @ - 1]
    BY <1>5, <1>6, <1>7, Mapping, MappingNext DEF Mapped, NetInv
  <1>10. Contract!OnClientDisconnect(f)
    BY <1>8, <1>9 DEF Contract!OnClientDisconnect
  <1>11. QED
    BY <1>10 DEF Contract!Next

LEMMA ContractInit == NetInit => Contract!Init
  <1> SUFFICES ASSUME NetInit PROVE Contract!Init
    OBVIOUS
  <1>1. Users /\ open = {} /\ \A f \in Fd : Cleaning(f) = {}
    BY NetInvInit DEF NetInv, NetInit, Cleaning
  <1>2. QED
    BY <1>1, Mapping, FS_EmptySet DEF Mapped, Contract!Init

LEMMA ContractNext == TypeOK /\ TypeOK' /\ NetInv /\ NetInv' /\ [NetNext]_allVars => [Contract!Next]_(Contract!vars)
  <1> SUFFICES ASSUME TypeOK, TypeOK', NetInv, NetInv', [NetNext]_allVars PROVE [Contract!Next]_(Contract!vars)
    OBVIOUS
  <1>1. Users /\ Users'
    BY DEF NetInv
  <1>2. ASSUME SameCalls, open' = open PROVE [Contract!Next]_(Contract!vars)
    BY <1>1, <1>2, StillMapped DEF Contract!vars
  <1>3. ASSUME UNCHANGED <<open, evFd, step>>, \A i \in Slot : step[i] # "out" => job'[i] = job[i]
        PROVE  [Contract!Next]_(Contract!vars)
    BY <1>2, <1>3 DEF SameCalls
  <1>4. ASSUME NEW i \in Slot, ReadFails(i) \/ FreeEv(i) \/ Start(i)
        PROVE  [Contract!Next]_(Contract!vars)
    <2>1. open' = open
      BY <1>4 DEF ReadFails, FreeEv, Start, kernel
    <2>2. CASE ReadFails(i)
      <3>1. Goes(i, "read", "close") /\ UNCHANGED evFd
        BY <2>2, StepGoes DEF ReadFails
      <3>2. SameCalls
        BY <3>1 DEF SameCalls, Goes, NetInv, Shape
      <3>3. QED
        BY <1>2, <2>1, <3>2
    <2>3. CASE FreeEv(i)
      <3>1. Goes(i, "free", "out") /\ evFd' = [evFd EXCEPT ![job[i]] = NoFd]
        BY <2>3, StepGoes DEF FreeEv, Ev
      <3>2. \A j \in Slot : step[j] \in {"handle", "logic"} => job[j] \in Task /\ job[j] # job[i]
        BY <1>1, <3>1 DEF Goes, NetInv, Users, Owned, Owners, Served, Serving, Ending
      <3>3. \A d \in Task : d # job[i] => evFd'[d] = evFd[d]
        BY <3>1 DEF NetInv, Shape
      <3>4. SameCalls
        BY <3>1, <3>2, <3>3 DEF SameCalls, Goes, NetInv, Shape
      <3>5. QED
        BY <1>2, <2>1, <3>4
    <2>4. CASE Start(i)
      <3>1. step'[i] = "read" /\ step[i] = "out" /\ evFd' = evFd
            /\ \A j \in Slot : j # i => step'[j] = step[j] /\ job'[j] = job[j]
        BY <1>1, <2>4 DEF Start, Take, AtLock, At, NetInv, Shape, Users, TypeOK
      <3>2. SameCalls
        BY <3>1 DEF SameCalls
      <3>3. QED
        BY <1>2, <2>1, <3>2
    <2>5. QED
      BY <1>4, <2>2, <2>3, <2>4
  <1>5. ASSUME NEW i \in Slot, Thread(i) PROVE [Contract!Next]_(Contract!vars)
    <2>1. CASE Leave(i) \/ ((WaitTask(i) \/ Exit(i)) /\ UNCHANGED netVars)
      BY <1>3, <2>1, PoolOnly
    <2>2. QED
      BY <1>1, <1>4, <1>5, <2>1, ReadMapped, HandledMapped, CloseMapped, LogicMapped DEF Thread, RecvTask
  <1>6. ASSUME NEW e \in Task, RecvEvent(e) PROVE [Contract!Next]_(Contract!vars)
    <2>1. UNCHANGED <<open, evFd, step, job>>
      BY <1>6 DEF RecvEvent, kernel, Add, AddFull, Put
    <2>2. QED
      BY <1>3, <2>1
  <1>7. CASE \/ Poll \/ (AddResume /\ UNCHANGED netVars) \/ PoolThreads \/ UNCHANGED allVars
             \/ \E f \in Fd : Send(f) \/ CloseByPeer(f)
    <2>1. UNCHANGED <<open, evFd, step, job>>
      BY <1>7 DEF Poll, AddResume, Put, PoolThreads, Manager, Look, Create, Shrink, Wake, Spurious, netVars,
         kernel, allVars, poolVars, Send, CloseByPeer
    <2>2. QED
      BY <1>3, <2>1
  <1>8. QED
    BY <1>1, <1>5, <1>6, <1>7, AcceptMapped DEF NetNext, EventLoop

(* The network layer keeps its contract with the handlers for any number of *)
(* workers, events and descriptors: although an event is armed before its   *)
(* task is over and a descriptor is accepted again before its clean-up has  *)
(* run, a connection has one handler at a time and one clean-up.            *)
THEOREM ContractKept == NetSpec => KeepsContract
  <1>1. NetInd /\ NetInd' /\ [NetNext]_allVars => [Contract!Next]_(Contract!vars)
    BY ContractNext DEF NetInd, Ind
  <1>2. QED
    BY <1>1, ContractInit, NetInductive, PTL DEF NetSpec, KeepsContract, Contract!Spec
=============================================================================
