---------------------------- MODULE ThreadPool ----------------------------
(***************************************************************************)
(* The thread pool of the server (Thread_pool.cpp): a ring of tasks that    *)
(* the event loop fills, worker threads that empty it, and a manager that   *)
(* starts and ends workers.  Everything is read and written under one lock, *)
(* so a step is what a thread does between taking and giving up that lock.  *)
(* A worker is named by its slot in tids: a slot is used once, because      *)
(* if_thread_alive compares the result of pthread_kill with -1, which       *)
(* pthread_kill never returns.                                              *)
(***************************************************************************)
EXTENDS Naturals, Sequences, FiniteSets

CONSTANTS
  Task,        \* what is queued: here, one task per armed descriptor
  NoTask,
  ThreadMax, ThreadMin, QueueMax,   \* 200, 10, 50000 in InitThreadPool
  Count        \* _DEF_COUNT: how many threads one shrinking asks to end

ASSUME SizesAssumption ==
  /\ {ThreadMax, ThreadMin, QueueMax, Count} \subseteq Nat \ {0}
  /\ ThreadMin <= ThreadMax /\ ThreadMax - ThreadMin < QueueMax
ASSUME NoTaskAssumption == NoTask \notin Task

Slot == 1 .. ThreadMax

VARIABLES
  ring, front, rear, cur,      \* queue_task, queue_front, queue_rear, queue_cur
  alive, busy, wait,           \* thread_alive, thread_busy, thread_wait
  worker, job,                 \* per slot: where its thread is, and its task
  producer, adding,            \* the event loop in Producer_add, and its task
  manager, left, shrink        \* the manager, its loop counter, what it decided

queueVars == <<ring, front, rear, cur>>
counters == <<alive, busy, wait>>
managerVars == <<manager, left, shrink>>
vars == <<queueVars, counters, worker, job, producer, adding, managerVars>>

TypeOK ==
  /\ ring \in [0 .. QueueMax - 1 -> Task \cup {NoTask}]
  /\ front \in 0 .. QueueMax - 1 /\ rear \in 0 .. QueueMax - 1 /\ cur \in 0 .. QueueMax
  /\ alive \in Nat /\ busy \in Nat /\ wait \in 0 .. Count
  /\ worker \in [Slot -> {"none", "top", "wait", "woken", "run", "gone"}]
  /\ job \in [Slot -> Task \cup {NoTask}]
  /\ producer \in {"free", "wait", "woken"} /\ adding \in Task \cup {NoTask}
  /\ manager \in {"sleep", "grow", "shrink", "signal"}
  /\ left \in Nat /\ shrink \in BOOLEAN

(* Pool_create: the first ThreadMin workers and the manager are started.   *)
Init ==
  /\ ring = [i \in 0 .. QueueMax - 1 |-> NoTask]
  /\ front = 0 /\ rear = 0 /\ cur = 0
  /\ alive = ThreadMin /\ busy = 0 /\ wait = 0
  /\ worker = [i \in Slot |-> IF i <= ThreadMin THEN "top" ELSE "none"]
  /\ job = [i \in Slot |-> NoTask]
  /\ producer = "free" /\ adding = NoTask
  /\ manager = "sleep" /\ left = 0 /\ shrink = FALSE

At(i, l) == worker[i] = l
Live == {i \in Slot : worker[i] \notin {"none", "gone"}}
Waiting == {i \in Slot : At(i, "wait")}

(* pthread_cond_signal on not_empty: one of the waiting workers, if any.   *)
SignalNone == UNCHANGED worker
Signal ==
  IF Waiting = {} THEN UNCHANGED worker
  ELSE \E i \in Waiting : worker' = [worker EXCEPT ![i] = "woken"]

NextIndexPast(i) == (i + 1) % (QueueMax + 1)
NextIndex(i) == (i + 1) % QueueMax

-----------------------------------------------------------------------------
(* Producer_add, called by the event loop only.                            *)

Put(t) ==
  /\ cur < QueueMax
  /\ ring' = [ring EXCEPT ![front] = t]
  /\ front' = NextIndex(front)
  /\ cur' = cur + 1
  /\ Signal
  /\ UNCHANGED <<rear, counters, job, managerVars>>

(* The tasks the event loop may still add: a descriptor is handed out once  *)
(* until its task has run.                                                  *)
Queued == {ring[(rear + k) % QueueMax] : k \in {k \in 0 .. QueueMax - 1 : k < cur}}
Outside == Task \ (Queued \cup {job[i] : i \in Slot} \cup {adding})

Add(t) ==
  /\ producer = "free"
  /\ Put(t)
  /\ UNCHANGED <<producer, adding>>

AddFull(t) ==
  /\ producer = "free"
  /\ cur = QueueMax
  /\ producer' = "wait"
  /\ adding' = t
  /\ UNCHANGED <<queueVars, counters, worker, job, managerVars>>

(* Back from not_full: the queue is looked at again.                       *)
AddResume ==
  /\ producer = "woken"
  /\ \/ Put(adding) /\ producer' = "free" /\ adding' = NoTask
     \/ /\ cur = QueueMax
        /\ producer' = "wait"
        /\ UNCHANGED <<queueVars, counters, worker, job, adding, managerVars>>

-----------------------------------------------------------------------------
(* Custom, the worker threads.                                             *)

AtLock(i) == At(i, "top") \/ At(i, "woken")

WaitTask(i) ==
  /\ AtLock(i)
  /\ cur = 0
  /\ worker' = [worker EXCEPT ![i] = "wait"]
  /\ UNCHANGED <<queueVars, counters, job, producer, adding, managerVars>>

MustExitAlways == wait > 0
MustExit == wait > 0 /\ alive > ThreadMin

(* A worker that was woken with a task in the queue ends; it wakes nobody  *)
(* in its place.                                                           *)
Exit(i) ==
  /\ AtLock(i)
  /\ cur > 0 /\ MustExit
  /\ wait' = wait - 1
  /\ alive' = alive - 1
  /\ worker' = [worker EXCEPT ![i] = "gone"]
  /\ UNCHANGED <<queueVars, busy, job, producer, adding, managerVars>>

Take(i) ==
  /\ AtLock(i)
  /\ cur > 0 /\ ~MustExit
  /\ job' = [job EXCEPT ![i] = ring[rear]]
  /\ rear' = NextIndex(rear)
  /\ cur' = cur - 1
  /\ busy' = busy + 1
  /\ worker' = [worker EXCEPT ![i] = "run"]
  /\ producer' = IF producer = "wait" THEN "woken" ELSE producer
  /\ UNCHANGED <<ring, front, alive, wait, adding, managerVars>>

Done(i) ==
  /\ At(i, "run")
  /\ job' = [job EXCEPT ![i] = NoTask]
  /\ busy' = busy - 1
  /\ worker' = [worker EXCEPT ![i] = "top"]
  /\ UNCHANGED <<queueVars, alive, wait, producer, adding, managerVars>>

-----------------------------------------------------------------------------
(* Manager.                                                                *)

MustGrow == (cur > alive - busy \/ 100 * busy >= 80 * alive) /\ ThreadMax > alive
MustShrink == busy * 2 < alive - busy /\ alive > ThreadMin

(* One look at the counters decides about growing and shrinking both.      *)
Look ==
  /\ manager = "sleep"
  /\ shrink' = MustShrink
  /\ manager' = IF MustGrow THEN "grow" ELSE "shrink"
  /\ left' = IF MustGrow THEN ThreadMin ELSE 0
  /\ UNCHANGED <<queueVars, counters, worker, job, producer, adding>>

FreeSlot(i) == At(i, "none")

(* One round of the loop: a thread in the first slot that was never used.  *)
Create ==
  /\ manager = "grow"
  /\ \/ \E i \in Slot :
          /\ FreeSlot(i) /\ \A k \in 1 .. i - 1 : ~FreeSlot(k)
          /\ worker' = [worker EXCEPT ![i] = "top"]
          /\ alive' = alive + 1
     \/ (\A i \in Slot : ~FreeSlot(i)) /\ UNCHANGED <<worker, alive>>
  /\ left' = left - 1
  /\ manager' = IF left = 1 THEN "shrink" ELSE "grow"
  /\ UNCHANGED <<queueVars, busy, wait, job, producer, adding, shrink>>

Shrink ==
  /\ manager = "shrink"
  /\ IF shrink THEN wait' = Count /\ manager' = "signal" /\ left' = Count
     ELSE UNCHANGED <<wait, left>> /\ manager' = "sleep"
  /\ UNCHANGED <<queueVars, alive, busy, worker, job, producer, adding, shrink>>

(* The signals are sent after the lock is given up.                        *)
Wake ==
  /\ manager = "signal"
  /\ Signal
  /\ left' = left - 1
  /\ manager' = IF left = 1 THEN "sleep" ELSE "signal"
  /\ UNCHANGED <<queueVars, counters, job, producer, adding, shrink>>

(* A condition variable may wake a thread for no reason.                   *)
Spurious ==
  /\ \/ /\ \E i \in Waiting : worker' = [worker EXCEPT ![i] = "woken"]
        /\ UNCHANGED producer
     \/ producer = "wait" /\ producer' = "woken" /\ UNCHANGED worker
  /\ UNCHANGED <<queueVars, counters, job, adding, managerVars>>

-----------------------------------------------------------------------------
Custom(i) == WaitTask(i) \/ Exit(i) \/ Take(i) \/ Done(i)
Manager == Look \/ Create \/ Shrink \/ Wake
Producer == AddResume \/ \E t \in Outside : Add(t) \/ AddFull(t)

Next == Producer \/ Manager \/ Spurious \/ \E i \in Slot : Custom(i)

Spec == Init /\ [][Next]_vars

-----------------------------------------------------------------------------
(* Properties.                                                             *)

(* The ring is a bounded FIFO queue: the tasks are taken in the order they  *)
(* were added, none twice and none lost, also when the indexes wrap.        *)
Queue == [k \in 1 .. cur |-> ring[(rear + k - 1) % QueueMax]]
FIFO == INSTANCE TaskQueue WITH Capacity <- QueueMax, queue <- Queue
RingIsFifo == FIFO!Spec

(* The counters the manager decides on are those of the threads there are,  *)
(* and the pool stays between its bounds.                                   *)
CountersExact ==
  /\ alive = Cardinality(Live)
  /\ busy = Cardinality({i \in Slot : At(i, "run")})
  /\ ThreadMin <= alive /\ alive <= ThreadMax

(* The event loop never waits for room while every worker waits for a task: *)
(* signals are lost to workers that end, but fewer than fit into the queue. *)
NoStall == producer = "wait" => \E i \in Live : ~At(i, "wait")

(* NoStall is inductive together with: the counters, the loop counter of    *)
(* the manager, and a bound on the lost signals.  While a worker waits, each *)
(* task in the queue has a worker that was woken for it, except as many as   *)
(* workers have ended.                                                       *)
Those(l) == {i \in Slot : At(i, l)}
LostSignals == Waiting # {} => cur <= Cardinality(Those("gone")) + Cardinality(Those("woken"))
PoolInv ==
  /\ CountersExact
  /\ manager \in {"grow", "signal"} => left > 0
  /\ producer = "wait" => cur = QueueMax
  /\ LostSignals

(* The pool grows when it must: a manager that found the pool too small     *)
(* starts a thread, as long as fewer than ThreadMax are alive ("the thread  *)
(* does not exist or has ended", Manager).                                  *)
GrowsUnderLoad ==
  [][manager = "grow" /\ alive < ThreadMax /\ manager' # manager => alive' > alive]_vars

=============================================================================
