------------------------------ MODULE EpollNet ------------------------------
(***************************************************************************)
(* The network layer of the server (block_epoll_net.cpp) on its thread      *)
(* pool: the event loop accepts connections and queues one recv_task per    *)
(* event, the workers read a packet, run its handler and re-arm the         *)
(* descriptor, or tear the connection down.  The tasks of the pool are the  *)
(* myevent_s objects, the argument of recv_task.  m_mapSockfdToEvent is     *)
(* left out: it is written and never read.                                  *)
(***************************************************************************)
EXTENDS ThreadPool

CONSTANTS Fd, NoFd      \* descriptors: numbers, the kernel hands out the least

ASSUME FdAssumption == Fd \subseteq Nat /\ NoFd \notin Fd

VARIABLES
  open,        \* descriptors of accepted connections
  inbox, eof,  \* per descriptor: what can be read, and whether the peer closed
  evFd,        \* per myevent_s its fd, NoFd when it is not allocated
  armed,       \* events epoll may report: EPOLLONESHOT disarms what it reports
  batch,       \* events[] of epoll_wait that were not looked at yet
  step         \* per worker: where it is in recv_task

kernel == <<open, inbox, eof, armed>>
poolVars == <<queueVars, counters, worker, job, producer, adding, managerVars>>
netVars == <<kernel, evFd, batch, step>>
allVars == <<poolVars, netVars>>

NetTypeOK ==
  /\ TypeOK
  /\ open \subseteq Fd
  /\ inbox \in [Fd -> {"none", "half", "packet"}] /\ eof \in [Fd -> BOOLEAN]
  /\ evFd \in [Task -> Fd \cup {NoFd}]
  /\ armed \subseteq Task /\ batch \subseteq Task
  /\ step \in [Slot -> {"out", "read", "handle", "close", "logic", "free"}]

NetInit ==
  /\ Init
  /\ open = {} /\ inbox = [f \in Fd |-> "none"] /\ eof = [f \in Fd |-> FALSE]
  /\ evFd = [e \in Task |-> NoFd] /\ armed = {} /\ batch = {}
  /\ step = [i \in Slot |-> "out"]

-----------------------------------------------------------------------------
(* Peers: they send a packet in two parts, or close at any point.          *)

Send(f) ==
  /\ f \in open /\ ~eof[f] /\ inbox[f] # "packet"
  /\ inbox' = [inbox EXCEPT ![f] = IF @ = "none" THEN "half" ELSE "packet"]
  /\ UNCHANGED <<poolVars, open, eof, armed, evFd, batch, step>>

CloseByPeer(f) ==
  /\ f \in open /\ ~eof[f]
  /\ eof' = [eof EXCEPT ![f] = TRUE]
  /\ UNCHANGED <<poolVars, open, inbox, armed, evFd, batch, step>>

-----------------------------------------------------------------------------
(* EventLoop: one thread; it stands still while Producer_add waits.        *)

Readable(f) == inbox[f] # "none" \/ eof[f]
Ready == {e \in armed : Readable(evFd[e])}

KeptArmed(es) == armed
Disarmed(es) == armed \ es

(* epoll_wait: level triggered, each reported event is disarmed.           *)
Poll ==
  /\ producer = "free" /\ batch = {} /\ Ready # {}
  /\ batch' = Ready
  /\ armed' = Disarmed(Ready)
  /\ UNCHANGED <<poolVars, open, inbox, eof, evFd, step>>

(* accept_event: a new myevent_s, for the least descriptor that is free.   *)
AcceptEvent(e) ==
  /\ producer = "free"
  /\ evFd[e] = NoFd
  /\ \E f \in Fd \ open :
       /\ \A g \in Fd \ open : f <= g
       /\ open' = open \cup {f}
       /\ inbox' = [inbox EXCEPT ![f] = "none"]
       /\ eof' = [eof EXCEPT ![f] = FALSE]
       /\ evFd' = [evFd EXCEPT ![e] = f]
  /\ armed' = armed \cup {e}
  /\ UNCHANGED <<poolVars, batch, step>>

(* recv_event.                                                             *)
RecvEvent(e) ==
  /\ e \in batch
  /\ Add(e) \/ AddFull(e)
  /\ batch' = batch \ {e}
  /\ UNCHANGED <<kernel, evFd, step>>

-----------------------------------------------------------------------------
(* recv_task of worker i.                                                  *)

Ev(i) == job[i]
FdOf(i) == evFd[job[i]]
Step(i, from, to) ==
  /\ At(i, "run") /\ step[i] = from
  /\ step' = [step EXCEPT ![i] = to]
  /\ UNCHANGED poolVars

Start(i) ==
  /\ Take(i)
  /\ step' = [step EXCEPT ![i] = "read"]
  /\ UNCHANGED <<kernel, evFd, batch>>

(* A whole packet; the read blocks on half a packet.                       *)
ReadPacket(i) ==
  /\ Step(i, "read", "handle")
  /\ inbox[FdOf(i)] = "packet"
  /\ inbox' = [inbox EXCEPT ![FdOf(i)] = "none"]
  /\ UNCHANGED <<open, eof, armed, evFd, batch>>

(* An illegal size in the first four bytes, or the end of the stream.      *)
ReadFails(i) ==
  /\ Step(i, "read", "close")
  /\ inbox[FdOf(i)] # "none" \/ eof[FdOf(i)]
  /\ UNCHANGED <<kernel, evFd, batch>>

RearmNever(i) == armed
Rearmed(i) == armed \cup {Ev(i)}

(* Buffer_Deal: the handler of CLogic returns; the event is added again.   *)
Handled(i) ==
  /\ Step(i, "handle", "out")
  /\ armed' = Rearmed(i)
  /\ UNCHANGED <<open, inbox, eof, evFd, batch>>

(* eventdel and close: from here on the descriptor can be accepted again.  *)
CloseFd(i) ==
  /\ Step(i, "close", "logic")
  /\ armed' = armed \ {Ev(i)}
  /\ open' = open \ {FdOf(i)}
  /\ UNCHANGED <<inbox, eof, evFd, batch>>

(* OnClientDisconnect of CLogic (UploadV2 and LiveRegistry).               *)
Logic(i) ==
  /\ Step(i, "logic", "free")
  /\ UNCHANGED <<kernel, evFd, batch>>

FreeEv(i) ==
  /\ Step(i, "free", "out")
  /\ evFd' = [evFd EXCEPT ![Ev(i)] = NoFd]
  /\ UNCHANGED <<kernel, batch>>

Leave(i) ==
  /\ step[i] = "out"
  /\ Done(i)
  /\ UNCHANGED netVars

RecvTask(i) ==
  ReadPacket(i) \/ ReadFails(i) \/ Handled(i) \/ CloseFd(i) \/ Logic(i) \/ FreeEv(i)

-----------------------------------------------------------------------------
Thread(i) ==
  \/ Start(i) \/ RecvTask(i) \/ Leave(i)
  \/ (WaitTask(i) \/ Exit(i)) /\ UNCHANGED netVars
EventLoop ==
  \/ Poll
  \/ \E e \in Task : RecvEvent(e)
  \/ AddResume /\ UNCHANGED netVars
PoolThreads == (Manager \/ Spurious) /\ UNCHANGED netVars

NetNext ==
  \/ \E f \in Fd : Send(f) \/ CloseByPeer(f)
  \/ EventLoop
  \/ \E e \in Task : AcceptEvent(e)
  \/ \E i \in Slot : Thread(i)
  \/ PoolThreads

NetSpec == NetInit /\ [][NetNext]_allVars

(* The loop and the workers run on, and so do peers: what a peer began to   *)
(* send it sends to the end, or the connection ends.                        *)
NetFair ==
  /\ NetSpec
  /\ WF_allVars(EventLoop) /\ WF_allVars(Manager /\ UNCHANGED netVars)
  /\ \A i \in Slot : WF_allVars(Thread(i))
  /\ \A f \in Fd : WF_allVars(inbox[f] = "half" /\ (Send(f) \/ CloseByPeer(f)))

-----------------------------------------------------------------------------
(* Properties.                                                             *)

(* Worker i is inside the part of recv_task that uses its event.           *)
Using(i) == At(i, "run") /\ step[i] # "out"

(* A descriptor as the handlers of CLogic see it, and the calls of          *)
(* OnClientDisconnect for it that have begun.                               *)
ConnOf ==
  [f \in Fd |->
    IF f \notin open THEN "closed"
    ELSE IF \E i \in Slot : Using(i) /\ FdOf(i) = f /\ step[i] = "handle"
         THEN "handling" ELSE "idle"]
Cleaners(f) == {i \in Slot : Using(i) /\ FdOf(i) = f /\ step[i] = "logic"}
CleanupOf == [f \in Fd |-> Cardinality(Cleaners(f))]

(* EPOLLONESHOT keeps the threads apart, although the event is armed again  *)
(* before its handler has returned: one request of a connection is handled  *)
(* at a time, and each connection is cleaned up once.  The contract of the    *)
(* handlers (ConnLife), which UploadV2 rests on.                            *)
Contract == INSTANCE ConnLife WITH conn <- ConnOf, cleanup <- CleanupOf
KeepsContract == Contract!Spec

(* A packet that arrived whole is handled, or its connection is closed.    *)
PacketServed ==
  \A f \in Fd : inbox[f] = "packet" /\ f \in open ~> inbox[f] # "packet" \/ f \notin open

=============================================================================
