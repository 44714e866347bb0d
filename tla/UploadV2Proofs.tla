--------------------------- MODULE UploadV2Proofs ---------------------------
(***************************************************************************)
(* Theorems about UploadV2, for every value of its constants: types, locks,*)
(* lists; and, for uploads that share no path, the published files, what   *)
(* stands on the disk while contents are collected, and the refinement of  *)
(* UploadStore.                                                            *)
(*                                                                         *)
(* For uploads that share no path: every step but the start of an upload,  *)
(* its registration and a restart moves one connection, which keeps its    *)
(* upload (Alone); what the step does to the disk concerns the .part of    *)
(* that connection's path and no other one.                                *)
(***************************************************************************)
EXTENDS UploadV2, SequenceTheorems, TLAPS

-----------------------------------------------------------------------------
(* Operators on files.                                                     *)

(* A write puts its block in place, keeps the others, and never shortens.  *)
LEMMA WriteAtType ==
  ASSUME NEW f \in File, NEW off \in Nat, NEW b \in Content
  PROVE  /\ WriteAt(f, off, b) \in File
         /\ Len(WriteAt(f, off, b)) = IF off < Len(f) THEN Len(f) ELSE off + 1
  <1> DEFINE n == IF off < Len(f) THEN Len(f) ELSE off + 1
             g == [i \in 1 .. n |->
                     IF i = off + 1 THEN b ELSE IF i <= Len(f) THEN f[i] ELSE Hole]
  <1>1. Len(f) \in Nat /\ \A i \in 1 .. Len(f) : f[i] \in Content \cup {Hole}
    BY DEF File
  <1>2. n \in Nat
    BY <1>1
  <1>3. \A i \in 1 .. n : g[i] \in Content \cup {Hole}
    BY <1>1
  <1>4. g \in File /\ Len(g) = n
    <2> HIDE DEF n
    <2>1. g \in [1 .. n -> Content \cup {Hole}]
      BY <1>3
    <2>2. QED
      BY <2>1, <1>2 DEF File
  <1>5. WriteAt(f, off, b) = g
    BY DEF WriteAt
  <1>6. QED
    BY <1>4, <1>5

-----------------------------------------------------------------------------
(* Types.                                                                  *)

LEMMA InitType == Init => TypeOK
  BY SizeAssumption, NullAssumption
     DEF Init, FirstTask, TypeOK, Active, File, Path, Key, Pc, RqPc, TaskPc

(* The steps of clients and of the connections.                            *)
LEMMA ClientType ==
  ASSUME TypeOK, NEW c \in Conn, Client(c)
  PROVE  TypeOK'
  <1> USE DEF TypeOK, Active, Goto, Finish, disk, maps, Pc, RqPc, TaskPc
  <1>1. CASE Accept(c)
    BY <1>1 DEF Accept
  <1>2. ASSUME NEW r \in Upload, Request(c, r) PROVE TypeOK'
    BY <1>2 DEF Request, FileInfo
  <1>3. CASE Cancel(c)
    BY <1>3 DEF Cancel
  <1>4. CASE Disconnect(c)
    BY <1>4 DEF Disconnect
  <1>5. CASE BlkLookup(c)
    BY <1>5 DEF BlkLookup
  <1>6. CASE EndLookup(c)
    BY <1>6 DEF EndLookup
  <1>7. QED
    BY <1>1, <1>2, <1>3, <1>4, <1>5, <1>6 DEF Client

(* Filling in the FileInfo of an active connection.                        *)
LEMMA OpenedType ==
  ASSUME TypeOK, NEW c \in Conn, info[c] \in FileInfo,
         NEW i \in Inode \cup {NoFile}, NEW n \in Nat
  PROVE  /\ Opened(c, i, n) \in [Conn -> FileInfo \cup {NoInfo}]
         /\ Opened(c, i, n)[c] \in FileInfo
         /\ Opened(c, i, n)[c].file = i /\ Opened(c, i, n)[c].received = n
         /\ Opened(c, i, n)[c].rq = info[c].rq /\ Opened(c, i, n)[c].fd = info[c].fd
         /\ \A d \in Conn : d # c => Opened(c, i, n)[d] = info[d]
  BY DEF Opened, TypeOK, FileInfo

LEMMA OpenedKeeps ==
  ASSUME TypeOK, NEW c \in Conn, info[c] \in FileInfo, NEW i, NEW n
  PROVE  /\ Opened(c, i, n)[c].rq = info[c].rq /\ Opened(c, i, n)[c].fd = info[c].fd
         /\ Opened(c, i, n)[c].file = i
         /\ \A d \in Conn : d # c => Opened(c, i, n)[d] = info[d]
  BY DEF Opened, TypeOK, FileInfo

(* A request handler keeps the upload and the descriptor of its FileInfo,   *)
(* and touches no other connection.                                         *)
LEMMA RequestKeeps ==
  ASSUME TypeOK, NEW c \in Conn, RqStep(c)
  PROVE  /\ Active(c) /\ info[c] \in FileInfo /\ pc'[c] # "closed"
         /\ Active(c)' => info'[c].rq = info[c].rq /\ info'[c].fd = info[c].fd
         /\ \A d \in Conn : d # c => pc'[d] = pc[d] /\ info'[d] = info[d] /\ tid'[d] = tid[d]
  <1> USE DEF Goto, Finish
  <1> DEFINE Kept == /\ Active(c) /\ info[c] \in FileInfo /\ pc'[c] # "closed"
                     /\ Active(c)' => info'[c].rq = info[c].rq /\ info'[c].fd = info[c].fd
                     /\ \A d \in Conn : d # c => /\ pc'[d] = pc[d] /\ info'[d] = info[d]
                                                /\ tid'[d] = tid[d]
  <1>1. CASE RqInstant(c) \/ RqBusy(c) \/ RqNoUser(c) \/ RqDropMeta(c) \/ RqDropPart(c)
             \/ RqNewFails(c)
    BY <1>1 DEF RqInstant, RqBusy, RqNoUser, RqDropMeta, RqDropPart, RqNewFails, TypeOK,
                Active
  <1>2. CASE RqMeta(c) \/ RqResume(c) \/ RqNew(c) \/ RqReg(c)
    <2>1. info[c] \in FileInfo
      BY <1>2 DEF RqMeta, RqResume, RqNew, RqReg, TypeOK, Active
    <2>2. UNCHANGED info \/ \E i, n : info' = Opened(c, i, n)
      BY <1>2 DEF RqMeta, RqResume, RqNew, RqReg
    <2>3. /\ info'[c].rq = info[c].rq /\ info'[c].fd = info[c].fd
          /\ \A d \in Conn : d # c => info'[d] = info[d]
      BY <2>1, <2>2, OpenedKeeps
    <2>4. /\ Active(c) /\ pc'[c] # "closed"
          /\ \A d \in Conn : d # c => pc'[d] = pc[d] /\ tid'[d] = tid[d]
      BY <1>2 DEF RqMeta, RqResume, RqNew, RqReg, Active, TypeOK
    <2>5. QED
      BY <2>1, <2>3, <2>4
  <1>3. Kept
    BY <1>1, <1>2 DEF RqStep
  <1>4. QED
    BY <1>3

(* The handler of a request.                                               *)
LEMMA RequestType ==
  ASSUME TypeOK, NEW c \in Conn, RqStep(c)
  PROVE  TypeOK'
  <1> USE DEF TypeOK, Active, Goto, Finish, disk, maps, Pc, RqPc, TaskPc
  <1>a. Active(c) => info[c] \in FileInfo /\ PathAt(c) \in Path /\ KeyOf(info[c].rq) \in Key
    BY DEF FileInfo, Upload, PathAt, PathOf, KeyOf, Path, Key
  <1>1. CASE RqInstant(c)
    BY <1>1 DEF RqInstant
  <1>2. CASE RqBusy(c)
    BY <1>2, <1>a DEF RqBusy
  <1>3. CASE RqNoUser(c)
    BY <1>3 DEF RqNoUser
  <1>4. CASE RqMeta(c)
    <2>1. info[c] \in FileInfo /\ PathAt(c) \in Path
      BY <1>4, <1>a DEF RqMeta
    <2>2. CASE UNCHANGED info
      BY <1>4, <2>1, <2>2 DEF RqMeta
    <2>3. CASE /\ meta[PathAt(c)] # NoMeta
               /\ info' = Opened(c, NoFile, meta[PathAt(c)].received)
      <3>1. meta[PathAt(c)].received \in Nat /\ NoFile \in Inode \cup {NoFile}
        BY <2>1, <2>3 DEF Meta
      <3>2. info' \in [Conn -> FileInfo \cup {NoInfo}] /\ info'[c] \in FileInfo
            /\ \A d \in Conn : d # c => info'[d] = info[d]
        <4> DEFINE n == meta[PathAt(c)].received
        <4> HIDE DEF TypeOK, n
        <4>1. /\ Opened(c, NoFile, n) \in [Conn -> FileInfo \cup {NoInfo}]
              /\ Opened(c, NoFile, n)[c] \in FileInfo
              /\ \A d \in Conn : d # c => Opened(c, NoFile, n)[d] = info[d]
          <5>1. n \in Nat
            BY <3>1 DEF n
          <5>2. QED
            BY <2>1, <3>1, <5>1, OpenedType
        <4>2. QED
          BY <4>1, <2>3 DEF n
      <3>3. QED
        BY <1>4, <3>2 DEF RqMeta
    <2>4. QED
      BY <1>4, <2>2, <2>3 DEF RqMeta, PathAt
  <1>5. CASE RqResume(c)
    <2>1. info[c] \in FileInfo /\ PathAt(c) \in Path /\ info[c].received \in Nat
      BY <1>5, <1>a DEF RqResume, FileInfo
    <2>2. CASE info' = Opened(c, part[PathAt(c)],
                              Least(Len(data[part[PathAt(c)]]), info[c].received))
               /\ part[PathAt(c)] # NoFile /\ pc'[c] = "rqReg" /\ UNCHANGED meta
      <3>1. Least(Len(data[part[PathAt(c)]]), info[c].received) \in Nat
        BY <2>1, <2>2 DEF Least, File
      <3>2. part[PathAt(c)] \in Inode \cup {NoFile}
        BY <2>1
      <3>3. info' \in [Conn -> FileInfo \cup {NoInfo}] /\ info'[c] \in FileInfo
            /\ \A d \in Conn : d # c => info'[d] = info[d]
        BY <2>1, <2>2, <3>1, <3>2, OpenedType
      <3>4. /\ UNCHANGED <<data, part, final, rows, maps, cleanup, tid, crashes>>
            /\ pc' = [pc EXCEPT ![c] = "rqReg"] /\ meta' = meta
        <4> HIDE DEF TypeOK
        <4>1. QED
          BY <1>5, <2>2 DEF RqResume
      <3>5. QED
        BY <3>3, <3>4
    <2>3. CASE UNCHANGED info
      BY <1>5, <2>1, <2>3 DEF RqResume
    <2>4. QED
      BY <1>5, <2>2, <2>3 DEF RqResume
  <1>6. CASE RqDropMeta(c)
    BY <1>6, <1>a DEF RqDropMeta
  <1>7. CASE RqDropPart(c)
    BY <1>7, <1>a DEF RqDropPart
  <1>8. CASE RqNew(c)
    <2>1. info[c] \in FileInfo /\ PathAt(c) \in Path /\ << >> \in File
      BY <1>8, <1>a DEF RqNew, File
    <2>2. QED
      BY <1>8, <2>1, OpenedType DEF RqNew
  <1>9. CASE RqNewFails(c)
    BY <1>9 DEF RqNewFails
  <1>10. CASE RqReg(c)
    <2>1. /\ info[c] \in FileInfo /\ KeyOf(info[c].rq) \in Key
          /\ NoFile \in Inode \cup {NoFile} /\ info' = Opened(c, NoFile, 0)
      BY <1>10, <1>a DEF RqReg
    <2>2. DOMAIN tasks' \subseteq Nat \ {0} /\ \A t \in DOMAIN tasks' : tasks'[t] \in FileInfo
      BY <1>10, <2>1 DEF RqReg
    <2>3. info' \in [Conn -> FileInfo \cup {NoInfo}] /\ info'[c] \in FileInfo
            /\ \A d \in Conn : d # c => info'[d] = info[d]
      <3> HIDE DEF TypeOK
      <3>1. QED
        BY <2>1, OpenedType
    <2>4. QED
      BY <1>10, <2>1, <2>2, <2>3 DEF RqReg
  <1>11. QED
    BY <1>1, <1>2, <1>3, <1>4, <1>5, <1>6, <1>7, <1>8, <1>9, <1>10 DEF RqStep

(* The handlers of a block and of the end of an upload.                    *)
LEMMA TaskType ==
  ASSUME TypeOK, NEW c \in Conn, BlkStep(c) \/ EndStep(c)
  PROVE  TypeOK'
  <1> USE DEF TypeOK, Active, Goto, Finish, disk, maps, Pc, RqPc, TaskPc
  <1>a. tid[c] \in DOMAIN tasks =>
          /\ Task(c) \in FileInfo
          /\ PathOf(Task(c).rq) \in Path /\ KeyOf(Task(c).rq) \in Key
          /\ Task(c).rq.md5 \in Content
    BY DEF FileInfo, Upload, Task, PathOf, KeyOf, Path, Key
  <1>1. ASSUME NEW off \in Offset, BlkWrite(c, off) PROVE TypeOK'
    <2>1. off \in Nat
      BY SizeAssumption DEF Offset
    <2>2. \A i \in Inode : WriteAt(data[i], off, Task(c).rq.md5) \in File
      BY <1>1, <1>a, <2>1, WriteAtType DEF BlkWrite
    <2>3. QED
      <3>1. tid[c] \in DOMAIN tasks /\ Task(c) = tasks[tid[c]]
        BY <1>1 DEF BlkWrite, Task
      <3>2. tasks' = tasks
              \/ \E n \in Nat : tasks' = [tasks EXCEPT ![tid[c]] =
                                          [tasks[tid[c]] EXCEPT !.received = n]]
        BY <1>1, <1>a, <2>1, <3>1 DEF BlkWrite, FileInfo
      <3>3. \A n \in Nat : [tasks[tid[c]] EXCEPT !.received = n] \in FileInfo
        BY <1>a, <3>1 DEF FileInfo
      <3>4. DOMAIN tasks' = DOMAIN tasks /\ \A t \in DOMAIN tasks' : tasks'[t] \in FileInfo
        BY <3>2, <3>3
      <3>5. data' \in [Inode -> File]
        BY <1>1, <2>2 DEF BlkWrite
      <3>6. QED
        BY <1>1, <3>4, <3>5 DEF BlkWrite
  <1>2. CASE BlkWriteFails(c)
    <2>1. \A i \in Inode : Append(data[i], Hole) \in File
      BY DEF File
    <2>2. data' \in [Inode -> File]
      <3>1. \/ UNCHANGED data
            \/ data' = [data EXCEPT ![Task(c).file] = Append(data[Task(c).file], Hole)]
        BY <1>2 DEF BlkWriteFails
      <3>2. QED
        <4>1. data \in [Inode -> File]
          OBVIOUS
        <4> HIDE DEF TypeOK
        <4>2. QED
          BY <2>1, <3>1, <4>1
    <2>3. QED
      BY <1>2, <2>2 DEF BlkWriteFails
  <1>3. CASE BlkMeta(c)
    BY <1>3, <1>a DEF BlkMeta, Meta, FileInfo
  <1>4. CASE BlkBusy(c)
    BY <1>4, <1>a DEF BlkBusy
  <1>5. CASE EndUnknown(c)
    BY <1>5 DEF EndUnknown
  <1>6. CASE EndMd5(c)
    BY <1>6 DEF EndMd5
  <1>7. CASE EndRename(c)
    BY <1>7, <1>a DEF EndRename
  <1>8. CASE EndRenameFails(c)
    BY <1>8 DEF EndRenameFails
  <1>9. CASE EndDropMeta(c)
    BY <1>9, <1>a DEF EndDropMeta
  <1>10. CASE EndRow(c)
    BY <1>10, <1>a DEF EndRow
  <1>11. CASE EndIndex(c)
    BY <1>11, <1>a DEF EndIndex
  <1>12. CASE BadPart(c)
    BY <1>12, <1>a DEF BadPart
  <1>13. CASE BadMeta(c)
    BY <1>13, <1>a DEF BadMeta
  <1>14. CASE CleanupTask(c)
    BY <1>14, <1>a DEF CleanupTask, Unlocked
  <1>15. QED
    BY <1>1, <1>2, <1>3, <1>4, <1>5, <1>6, <1>7, <1>8, <1>9, <1>10, <1>11, <1>12,
       <1>13, <1>14 DEF BlkStep, EndStep

LEMMA NextType == TypeOK /\ [Next]_vars => TypeOK'
  <1> SUFFICES ASSUME TypeOK, [Next]_vars PROVE TypeOK'
    OBVIOUS
  <1>1. ASSUME NEW c \in Conn, OnClientDisconnect(c) PROVE TypeOK'
    BY <1>1 DEF OnClientDisconnect, TasksOf, Unlocked, TypeOK, disk, Active
  <1>2. ASSUME Restart, crashes' \in Nat PROVE TypeOK'
    BY <1>2 DEF Restart, FirstTask, TypeOK, disk, Active, Pc
  <1>3. ASSUME NEW c \in Conn, UseFreed(c) PROVE TypeOK'
    BY <1>2, <1>3 DEF UseFreed, TypeOK
  <1>4. ASSUME NEW k \in Key, Expire(k) PROVE TypeOK'
    BY <1>4 DEF Expire, TypeOK, disk, Active
  <1>5. CASE Crash
    BY <1>2, <1>5 DEF Crash, TypeOK
  <1>6. CASE UNCHANGED vars
    BY <1>6 DEF vars, disk, maps, TypeOK, Active
  <1>7. QED
    BY <1>1, <1>3, <1>4, <1>5, <1>6, ClientType, RequestType, TaskType DEF Next

(* Every variable keeps its type: the .meta, the tasks and the offsets stay *)
(* within their ranges whatever connections, faults and restarts do.        *)
THEOREM TypeCorrect == Spec => []TypeOK
  BY InitType, NextType, PTL DEF Spec

-----------------------------------------------------------------------------
(* Locks.                                                                  *)

LEMMA InitLock == Init => LockInv
  BY DEF Init, LockInv, LockHasOwner, Active

(* Steps that leave the tasks, the locks and the clean-ups alone.          *)
LEMMA LockFrame ==
  ASSUME TypeOK, LockInv, UNCHANGED <<tasks, nextTask, busy, cleanup>>,
         \A c \in Conn : Active(c)' => info'[c].fd = c,
         \A c \in Conn : pc'[c] = "closed" => pc[c] = "closed"
  PROVE  LockInv'
  <1>1. \A t \in DOMAIN tasks : tasks[t].fd \in Conn
    BY DEF TypeOK, FileInfo
  <1>2. QED
    BY <1>1 DEF LockInv, LockHasOwner

LEMMA LockRequest ==
  ASSUME TypeOK, TypeOK', LockInv, NEW c \in Conn, RqStep(c)
  PROVE  LockInv'
  <1> USE DEF Goto, Finish, maps, disk
  <1>1. Active(c) /\ info[c] \in FileInfo /\ info[c].fd = c /\ pc'[c] # "closed"
    BY RequestKeeps DEF LockInv
  <1>4. /\ \A d \in Conn : Active(d)' => info'[d].fd = d
        /\ \A d \in Conn : pc'[d] = "closed" => pc[d] = "closed"
    BY <1>1, RequestKeeps DEF Active, LockInv
  <1>5. CASE RqReg(c)
    <2>1. KeyOf(info[c].rq) \in Key
      BY <1>1 DEF KeyOf, FileInfo, Upload, Key
    <2>2. nextTask \notin DOMAIN tasks
      BY DEF LockInv, TypeOK
    <2>3. /\ DOMAIN tasks' = DOMAIN tasks \cup {nextTask}
          /\ tasks'[nextTask] = info[c]
          /\ \A t \in DOMAIN tasks : tasks'[t] = tasks[t]
      BY <1>5, <2>2 DEF RqReg
    <2>4. \A t \in DOMAIN tasks' : t < nextTask'
      BY <1>5, <2>3 DEF RqReg, LockInv, TypeOK
    <2>5. \A k \in Key : busy'[k] = "held" => \E t \in DOMAIN tasks' : KeyOf(tasks'[t].rq) = k
      BY <1>5, <2>1, <2>3 DEF RqReg, LockInv, LockHasOwner, TypeOK
    <2>6. \A t \in DOMAIN tasks' : pc'[tasks'[t].fd] = "closed" => cleanup'[tasks'[t].fd] > 0
      <3>1. \A t \in DOMAIN tasks : tasks[t].fd \in Conn
        BY DEF TypeOK, FileInfo
      <3>2. QED
        BY <1>1, <1>4, <1>5, <2>3, <3>1 DEF RqReg, LockInv, LockHasOwner
    <2>7. QED
      BY <1>4, <2>4, <2>5, <2>6 DEF LockInv, LockHasOwner
  <1>6. CASE RqBusy(c)
    <2>1. \A t \in DOMAIN tasks : tasks[t].fd \in Conn
      BY DEF TypeOK, FileInfo
    <2>2. /\ UNCHANGED <<tasks, nextTask, cleanup>>
          /\ \A k \in Key : busy'[k] = "held" => busy[k] = "held"
      BY <1>6 DEF RqBusy, TypeOK
    <2>3. QED
      BY <1>4, <2>1, <2>2 DEF LockInv, LockHasOwner
  <1>7. CASE UNCHANGED <<tasks, nextTask, busy, cleanup>>
    BY <1>4, <1>7, LockFrame
  <1>8. QED
    BY <1>5, <1>6, <1>7
       DEF RqStep, RqInstant, RqNoUser, RqMeta, RqResume, RqDropMeta, RqDropPart,
           RqNew, RqNewFails

LEMMA LockTask ==
  ASSUME TypeOK, LockInv, NEW c \in Conn, BlkStep(c) \/ EndStep(c)
  PROVE  LockInv'
  <1> USE DEF Goto, Finish, maps, disk
  <1>1. /\ Active(c) /\ pc'[c] # "closed" /\ (Active(c)' => info'[c] = info[c])
        /\ \A d \in Conn : d # c => pc'[d] = pc[d] /\ info'[d] = info[d]
        /\ nextTask' = nextTask /\ cleanup' = cleanup
    BY DEF BlkStep, EndStep, BlkWrite, BlkWriteFails, BlkMeta, BlkBusy, EndUnknown, EndMd5,
           EndRename, EndRenameFails, EndDropMeta, EndRow, EndIndex, BadPart, BadMeta,
           CleanupTask, Active, TypeOK
  <1>2. /\ \A d \in Conn : Active(d)' => info'[d].fd = d
        /\ \A d \in Conn : pc'[d] = "closed" => pc[d] = "closed"
    BY <1>1 DEF Active, LockInv
  <1>3. \A t \in DOMAIN tasks : tasks[t].fd \in Conn /\ tasks[t] \in FileInfo
    BY DEF TypeOK, FileInfo
  <1>4. ASSUME NEW off \in Offset, BlkWrite(c, off) PROVE LockInv'
    <2>1. /\ DOMAIN tasks' = DOMAIN tasks /\ busy' = busy
          /\ \A t \in DOMAIN tasks : tasks'[t].fd = tasks[t].fd /\ tasks'[t].rq = tasks[t].rq
      BY <1>3, <1>4 DEF BlkWrite, FileInfo
    <2>2. QED
      BY <1>1, <1>2, <1>3, <2>1 DEF LockInv, LockHasOwner
  <1>5. CASE BlkBusy(c)
    BY <1>1, <1>2, <1>3, <1>5 DEF BlkBusy, LockInv, LockHasOwner, Task, TypeOK
  <1>6. CASE CleanupTask(c) /\ tid[c] \in DOMAIN tasks
    <2>1. /\ DOMAIN tasks' = DOMAIN tasks \ {tid[c]}
          /\ \A t \in DOMAIN tasks' : tasks'[t] = tasks[t]
          /\ \A k \in Key : busy'[k] = "held" => busy[k] = "held" /\ KeyOf(tasks[tid[c]].rq) # k
      BY <1>6 DEF CleanupTask, Unlocked
    <2>2. QED
      BY <1>1, <1>2, <1>3, <2>1 DEF LockInv, LockHasOwner
  <1>7. CASE UNCHANGED <<tasks, busy>>
    BY <1>1, <1>2, <1>7, LockFrame
  <1>8. QED
    BY <1>4, <1>5, <1>6, <1>7
       DEF BlkStep, EndStep, BlkWriteFails, BlkMeta, EndUnknown, EndMd5, EndRename,
           EndRenameFails, EndDropMeta, EndRow, EndIndex, BadPart, BadMeta, CleanupTask

LEMMA LockOther ==
  ASSUME TypeOK, LockInv, NEW c \in Conn, Client(c) \/ OnClientDisconnect(c)
  PROVE  LockInv'
  <1> USE DEF Goto, Finish, maps, disk
  <1>1. \A t \in DOMAIN tasks : tasks[t].fd \in Conn
    BY DEF TypeOK, FileInfo
  <1>2. CASE Disconnect(c)
    <2>1. /\ UNCHANGED <<tasks, nextTask, busy>>
          /\ \A d \in Conn : cleanup'[d] = (IF d = c THEN cleanup[d] + 1 ELSE cleanup[d])
          /\ \A d \in Conn : d # c => pc'[d] = pc[d] /\ info'[d] = info[d]
          /\ pc'[c] = "closed"
      BY <1>2 DEF Disconnect, TypeOK
    <2>2. \A d \in Conn : cleanup[d] \in Nat
      BY DEF TypeOK
    <2>3. QED
      BY <1>1, <2>1, <2>2 DEF LockInv, LockHasOwner, Active
  <1>3. CASE OnClientDisconnect(c)
    <2>1. /\ DOMAIN tasks' = DOMAIN tasks \ TasksOf(c)
          /\ \A t \in DOMAIN tasks' : tasks'[t] = tasks[t] /\ tasks[t].fd # c
          /\ \A d \in Conn : d # c => cleanup'[d] = cleanup[d]
          /\ UNCHANGED <<nextTask, pc, info>>
      BY <1>3 DEF OnClientDisconnect, TasksOf, TypeOK
    <2>2. \A k \in Key : busy'[k] = "held" =>
            busy[k] = "held" /\ \A t \in TasksOf(c) : KeyOf(tasks[t].rq) # k
      BY <1>3 DEF OnClientDisconnect, Unlocked
    <2>3. QED
      BY <1>1, <2>1, <2>2 DEF LockInv, LockHasOwner, Active
  <1>4. CASE /\ UNCHANGED <<tasks, nextTask, busy, cleanup>>
             /\ \A d \in Conn : Active(d)' => info'[d].fd = d
             /\ \A d \in Conn : pc'[d] = "closed" => pc[d] = "closed"
    BY <1>4, LockFrame
  <1>5. CASE \E r \in Upload : Request(c, r)
    BY <1>4, <1>5 DEF Request, Active, TypeOK, LockInv
  <1>6. CASE Accept(c) \/ Cancel(c) \/ BlkLookup(c) \/ EndLookup(c)
    BY <1>4, <1>6 DEF Accept, Cancel, BlkLookup, EndLookup, Active, TypeOK, LockInv
  <1>7. QED
    BY <1>2, <1>3, <1>5, <1>6 DEF Client

LEMMA LockRestart == TypeOK /\ Restart => LockInv'
  BY DEF Restart, LockInv, LockHasOwner, Active

(* No lock and no task outlives its connection, however requests, blocks,   *)
(* ends, broken connections, clean-ups and restarts interleave: a lock that *)
(* is held is the lock of a registered task, whose connection is open or    *)
(* about to be cleaned up.                                                  *)
THEOREM LockOwned == Spec => []LockHasOwner
  <1>1. TypeOK /\ TypeOK' /\ LockInv /\ [Next]_vars => LockInv'
    <2> SUFFICES ASSUME TypeOK, TypeOK', LockInv, [Next]_vars PROVE LockInv'
      OBVIOUS
    <2>1. ASSUME NEW k \in Key, Expire(k) PROVE LockInv'
      BY <2>1 DEF Expire, LockInv, LockHasOwner, TypeOK, Active
    <2>2. CASE UNCHANGED vars
      BY <2>2 DEF vars, maps, LockInv, LockHasOwner, Active
    <2>3. QED
      BY <2>1, <2>2, LockRequest, LockTask, LockOther, LockRestart DEF Next, UseFreed, Crash
  <1>2. LockInv => LockHasOwner
    BY DEF LockInv
  <1>3. QED
    BY InitLock, TypeCorrect, <1>1, <1>2, PTL DEF Spec

-----------------------------------------------------------------------------
(* Lists.                                                                  *)

AfterRename == {"endDropMeta", "endRow", "endIndex"}

(* ListedIsPublished is inductive together with: behind the rename of its   *)
(* upload a handler finds the file, and task ids are handed out once.       *)
ListInv ==
  /\ \A t \in DOMAIN tasks : t < nextTask
  /\ \A c \in Conn : tid[c] < nextTask
  /\ \A c \in Conn : pc[c] \in AfterRename /\ tid[c] \in DOMAIN tasks =>
       final[PathOf(Task(c).rq)] # NoFile
  /\ ListedIsPublished

(* No published file is taken away, no task renumbered, no id reused.      *)
ListFrame ==
  /\ \A p \in Path : final[p] # NoFile => final'[p] # NoFile
  /\ \A t \in DOMAIN tasks' : t \in DOMAIN tasks /\ tasks'[t].rq = tasks[t].rq
  /\ nextTask' = nextTask
  /\ \A c \in Conn : tid'[c] = tid[c] \/ tid'[c] = 0

LEMMA ListKept ==
  ASSUME TypeOK, ListInv, ListFrame, UNCHANGED rows,
         \A c \in Conn : pc'[c] \in AfterRename => pc[c] \in AfterRename /\ tid'[c] = tid[c]
  PROVE  ListInv'
  <1>1. \A t \in DOMAIN tasks : PathOf(tasks[t].rq) \in Path
    BY DEF TypeOK, FileInfo, Upload, PathOf, Path
  <1>2. ListedIsPublished'
    BY DEF ListInv, ListedIsPublished, ListFrame, TypeOK
  <1>3. \A c \in Conn : tid'[c] < nextTask'
    BY DEF ListInv, ListFrame, TypeOK
  <1>4. ASSUME NEW c \in Conn, pc'[c] \in AfterRename, tid'[c] \in DOMAIN tasks'
        PROVE  final'[PathOf(tasks'[tid'[c]].rq)] # NoFile
    BY <1>1, <1>4 DEF ListInv, ListFrame, Task
  <1>5. QED
    BY <1>2, <1>3, <1>4 DEF ListInv, ListFrame, Task

LEMMA ListTask ==
  ASSUME TypeOK, ListInv, NEW c \in Conn, EndStep(c)
  PROVE  ListInv'
  <1> USE DEF Goto, Finish, maps, disk
  <1>a. /\ pc \in [Conn -> Pc] /\ tid \in [Conn -> Nat]
        /\ final \in [Path -> Inode \cup {NoFile}] /\ part \in [Path -> Inode \cup {NoFile}]
    BY DEF TypeOK
  <1>b. tid[c] \in DOMAIN tasks => PathOf(Task(c).rq) \in Path
    BY DEF TypeOK, FileInfo, Upload, PathOf, Path, Task
  <1>1. CASE EndRename(c)
    <2>1. /\ UNCHANGED <<rows, tasks, nextTask, tid>> /\ pc'[c] = "endDropMeta"
          /\ \A d \in Conn : d # c => pc'[d] = pc[d]
          /\ \A p \in Path : final[p] # NoFile => final'[p] # NoFile
          /\ final'[PathOf(Task(c).rq)] # NoFile
      BY <1>1, <1>a, <1>b DEF EndRename
    <2>2. \A t \in DOMAIN tasks : PathOf(tasks[t].rq) \in Path
      BY DEF TypeOK, FileInfo, Upload, PathOf, Path
    <2>3. ListedIsPublished'
      BY <2>1 DEF ListInv, ListedIsPublished, TypeOK
    <2>4. \A d \in Conn : pc'[d] \in AfterRename /\ tid[d] \in DOMAIN tasks =>
            final'[PathOf(Task(d).rq)] # NoFile
      BY <2>1, <2>2 DEF ListInv, Task
    <2>5. QED
      BY <2>1, <2>3, <2>4 DEF ListInv, Task
  <1>2. CASE EndRow(c)
    <2>1. /\ UNCHANGED <<final, tasks, nextTask, tid>> /\ pc[c] = "endRow"
          /\ tid[c] \in DOMAIN tasks /\ pc'[c] = "endIndex"
          /\ \A d \in Conn : d # c => pc'[d] = pc[d]
          /\ rows' \subseteq rows \cup {PathOf(Task(c).rq)}
      BY <1>2, <1>a DEF EndRow
    <2>2. final[PathOf(Task(c).rq)] # NoFile
      BY <2>1 DEF ListInv, AfterRename
    <2>3. ListedIsPublished'
      BY <2>1, <2>2 DEF ListInv, ListedIsPublished
    <2>4. QED
      BY <2>1, <2>2, <2>3 DEF ListInv, Task
  <1>3. CASE ~EndRename(c) /\ ~EndRow(c)
    <2>1. /\ UNCHANGED <<final, rows, nextTask>>
          /\ \A d \in Conn : d # c => pc'[d] = pc[d]
          /\ \A d \in Conn : tid'[d] = tid[d] \/ tid'[d] = 0
          /\ pc'[c] \in AfterRename => pc[c] \in AfterRename /\ tid'[c] = tid[c]
          /\ \A d \in Conn : d # c => tid'[d] = tid[d]
      BY <1>3, <1>a DEF EndStep, EndUnknown, EndMd5, EndRenameFails, EndDropMeta, EndIndex,
                        BadPart, BadMeta, CleanupTask, AfterRename
    <2>2. \A t \in DOMAIN tasks' : t \in DOMAIN tasks /\ tasks'[t] = tasks[t]
      BY <1>3 DEF EndStep, EndUnknown, EndMd5, EndRenameFails, EndDropMeta, EndIndex,
                  BadPart, BadMeta, CleanupTask
    <2>3. QED
      BY <2>1, <2>2, ListKept DEF ListFrame
  <1>4. QED
    BY <1>1, <1>2, <1>3

LEMMA ListNext == TypeOK /\ ListInv /\ [Next]_vars => ListInv'
  <1> SUFFICES ASSUME TypeOK, ListInv, [Next]_vars PROVE ListInv'
    OBVIOUS
  <1> USE DEF Goto, Finish, maps, disk
  <1>a. pc \in [Conn -> Pc] /\ tid \in [Conn -> Nat]
    BY DEF TypeOK
  <1>1. ASSUME NEW c \in Conn, Client(c) \/ OnClientDisconnect(c) PROVE ListInv'
    <2>1. /\ UNCHANGED <<final, rows, nextTask>>
          /\ \A d \in Conn : tid'[d] = tid[d] \/ tid'[d] = 0
          /\ \A d \in Conn : pc'[d] \in AfterRename => pc[d] \in AfterRename /\ tid'[d] = tid[d]
          /\ \A t \in DOMAIN tasks' : t \in DOMAIN tasks /\ tasks'[t] = tasks[t]
      BY <1>1, <1>a DEF Client, Accept, Request, Cancel, Disconnect, BlkLookup, EndLookup,
                        OnClientDisconnect, AfterRename
    <2>2. QED
      BY <2>1, ListKept DEF ListFrame
  <1>2. ASSUME NEW c \in Conn, RqStep(c), ~RqReg(c) PROVE ListInv'
    <2>1. /\ UNCHANGED <<final, rows, nextTask, tasks>>
          /\ \A d \in Conn : tid'[d] = tid[d] \/ tid'[d] = 0
          /\ \A d \in Conn : pc'[d] \in AfterRename => pc[d] \in AfterRename /\ tid'[d] = tid[d]
      BY <1>2, <1>a DEF RqStep, RqInstant, RqBusy, RqNoUser, RqMeta, RqResume, RqDropMeta,
                        RqDropPart, RqNew, RqNewFails, AfterRename
    <2>2. QED
      BY <2>1, ListKept DEF ListFrame
  <1>3. ASSUME NEW c \in Conn, RqReg(c) PROVE ListInv'
    <2>1. /\ DOMAIN tasks' = DOMAIN tasks \cup {nextTask} /\ nextTask \in Nat
          /\ \A t \in DOMAIN tasks : tasks'[t] = tasks[t]
          /\ UNCHANGED <<final, rows>> /\ nextTask' = nextTask + 1
          /\ tid'[c] = nextTask /\ pc'[c] = "send"
          /\ \A d \in Conn : d # c => pc'[d] = pc[d] /\ tid'[d] = tid[d]
      BY <1>3, <1>a DEF RqReg, ListInv, TypeOK
    <2>2. \A d \in Conn : tid[d] \in Nat /\ tid[d] < nextTask
      BY <1>a DEF ListInv
    <2>3. DOMAIN tasks \subseteq Nat
      BY DEF TypeOK
    <2>4. QED
      BY <2>1, <2>2, <2>3 DEF ListInv, ListedIsPublished, AfterRename, Task
  <1>4. ASSUME NEW c \in Conn, BlkStep(c) PROVE ListInv'
    <2>1. /\ UNCHANGED <<final, rows, nextTask, tid>>
          /\ \A d \in Conn : pc'[d] \in AfterRename => pc[d] \in AfterRename
      BY <1>4, <1>a DEF BlkStep, BlkWrite, BlkWriteFails, BlkMeta, BlkBusy, AfterRename
    <2>2. \A t \in DOMAIN tasks' : t \in DOMAIN tasks /\ tasks'[t].rq = tasks[t].rq
      <3>1. \A t \in DOMAIN tasks : tasks[t] \in FileInfo
        BY DEF TypeOK
      <3>2. ASSUME NEW off \in Offset, BlkWrite(c, off)
            PROVE  \A t \in DOMAIN tasks' : t \in DOMAIN tasks /\ tasks'[t].rq = tasks[t].rq
        BY <3>1, <3>2 DEF BlkWrite, FileInfo
      <3>3. QED
        BY <1>4, <3>2 DEF BlkStep, BlkWriteFails, BlkMeta, BlkBusy
    <2>3. QED
      BY <2>1, <2>2, ListKept DEF ListFrame
  <1>5. ASSUME NEW c \in Conn, EndStep(c) PROVE ListInv'
    BY <1>5, ListTask
  <1>6. CASE Restart
    BY <1>6 DEF Restart, FirstTask, ListInv, ListedIsPublished, AfterRename
  <1>7. CASE UNCHANGED vars \/ \E k \in Key : Expire(k)
    BY <1>7, ListKept DEF vars, Expire, ListFrame
  <1>8. QED
    BY <1>1, <1>2, <1>3, <1>4, <1>5, <1>6, <1>7 DEF Next, UseFreed, Crash

(* Nothing is listed that is not there: whatever the interleaving, a row    *)
(* of t_VideoInfo is written behind the rename of its file, and no step     *)
(* takes a published file away, also when connections share a path, disk    *)
(* operations fail, or the server restarts in between.                      *)
THEOREM ListedPublished == Spec => []ListedIsPublished
  <1>1. Init => ListInv
    BY DEF Init, FirstTask, ListInv, ListedIsPublished, AfterRename
  <1>2. ListInv => ListedIsPublished
    BY DEF ListInv
  <1>3. QED
    BY TypeCorrect, ListNext, <1>1, <1>2, PTL DEF Spec

-----------------------------------------------------------------------------
(* Published files.                                                        *)

Writing == {"send", "blkWrite", "blkMeta", "blkBusy"}

(* The parts of FinalInv about one connection.                             *)
Own(c) ==
  /\ pc[c] = "rqReg" => info[c].file = part[PathAt(c)]
  /\ pc[c] \in Writing /\ tid[c] \in DOMAIN tasks => Task(c).file = part[PathAt(c)]
  /\ pc[c] = "endRename" /\ tid[c] \in DOMAIN tasks /\ part[PathAt(c)] # NoFile =>
       data[part[PathAt(c)]] = Whole(info[c].rq.md5)

(* Connection c moves, keeps its upload or ends it, and no task is added.  *)
Alone(c) ==
  /\ \A d \in Conn \ {c} : pc'[d] = pc[d] /\ info'[d] = info[d] /\ tid'[d] = tid[d]
  /\ Active(c)' => Active(c) /\ info'[c].rq = info[c].rq
  /\ tid'[c] # 0 => tid'[c] = tid[c] /\ pc'[c] \in TaskPc \cup {"send", "endClean"}
  /\ nextTask' = nextTask
  /\ \A t \in DOMAIN tasks' :
       /\ t \in DOMAIN tasks
       /\ tasks'[t].rq = tasks[t].rq /\ tasks'[t].file = tasks[t].file

Parts ==
  /\ \A t \in DOMAIN tasks : t < nextTask
  /\ PathsDisjoint /\ TaskIsMine /\ OneNamePerFile /\ FinalVerified
  /\ \A c \in Conn : Own(c)

LEMMA FinalInvParts == (FinalInv <=> Parts) /\ (FinalInv' <=> Parts')
  BY DEF Parts, FinalInv, WritesOwnPart, RenamesVerified, Own, Writing

LEMMA InitFinal == Init => FinalInv
  BY DEF Init, FirstTask, FinalInv, PathsDisjoint, TaskIsMine, WritesOwnPart, OneNamePerFile,
         RenamesVerified, FinalVerified, Active

LEMMA PathAtType ==
  ASSUME TypeOK, NEW c \in Conn, Active(c)
  PROVE  info[c] \in FileInfo /\ PathAt(c) \in Path /\ info[c].rq.md5 \in Content
  BY DEF TypeOK, FileInfo, Upload, PathAt, PathOf, Path

LEMMA ZeroIsNoTask == TypeOK => 0 \notin DOMAIN tasks
  BY DEF TypeOK

-----------------------------------------------------------------------------
(* Frames.                                                                 *)

LEMMA AloneKeeps ==
  ASSUME TypeOK, FinalInv, NEW c \in Conn, Alone(c)
  PROVE  (\A t \in DOMAIN tasks : t < nextTask)' /\ PathsDisjoint' /\ TaskIsMine'
  <1>1. \A d \in Conn : Active(d)' => Active(d) /\ info'[d].rq = info[d].rq
    BY DEF Alone, Active
  <1>2. \A d \in Conn : Active(d)' => PathAt(d)' = PathAt(d)
    BY <1>1 DEF PathAt
  <1>3. PathsDisjoint'
    BY <1>1, <1>2 DEF FinalInv, PathsDisjoint
  <1>4. TaskIsMine'
    <2>1. \A d \in Conn : tid'[d] < nextTask'
                          /\ (tid'[d] # 0 => pc'[d] \in TaskPc \cup {"send", "endClean"})
      BY DEF Alone, FinalInv, TaskIsMine, TypeOK
    <2>2. ASSUME NEW d \in Conn, Active(d)', tid'[d] \in DOMAIN tasks'
          PROVE  tasks'[tid'[d]].rq = info'[d].rq
      <3>1. tid'[d] = tid[d]
        BY <2>2, ZeroIsNoTask DEF Alone
      <3>2. QED
        BY <1>1, <2>2, <3>1 DEF Alone, FinalInv, TaskIsMine, Task
    <2>3. QED
      BY <2>1, <2>2 DEF TaskIsMine, Task
  <1>5. QED
    BY <1>3, <1>4 DEF Alone, FinalInv

(* What c does to its own path is nothing to the other connections.        *)
LEMMA OthersKeep ==
  ASSUME TypeOK, FinalInv, NEW c \in Conn, Alone(c), Active(c),
         \A p \in Path : p # PathAt(c) =>
           part'[p] = part[p] /\ (part[p] # NoFile => data'[part[p]] = data[part[p]])
  PROVE  \A d \in Conn \ {c} : Own(d)'
  <1> SUFFICES ASSUME NEW d \in Conn \ {c} PROVE Own(d)'
    OBVIOUS
  <1>1. pc'[d] = pc[d] /\ info'[d] = info[d] /\ tid'[d] = tid[d] /\ PathAt(d)' = PathAt(d)
    BY DEF Alone, PathAt
  <1>2. Own(d)
    BY FinalInvParts DEF Parts
  <1>3. CASE Active(d)
    <2>1. PathAt(d) \in Path /\ PathAt(d) # PathAt(c)
      BY <1>3, PathAtType DEF FinalInv, PathsDisjoint
    <2>2. /\ part'[PathAt(d)] = part[PathAt(d)]
          /\ part[PathAt(d)] # NoFile => data'[part[PathAt(d)]] = data[part[PathAt(d)]]
      BY <2>1
    <2>3. \A t \in DOMAIN tasks' : t \in DOMAIN tasks /\ tasks'[t].file = tasks[t].file
      BY DEF Alone
    <2>4. QED
      BY <1>1, <1>2, <2>2, <2>3 DEF Own, Task
  <1>4. CASE ~Active(d)
    BY <1>1, <1>4 DEF Own, Active, Writing
  <1>5. QED
    BY <1>3, <1>4

(* Steps that leave the files alone.                                       *)
LEMMA QuietStep ==
  ASSUME TypeOK, FinalInv, NEW c \in Conn, Alone(c), UNCHANGED <<data, part, final>>, Own(c)'
  PROVE  FinalInv'
  <1>1. \A d \in Conn \ {c} : Own(d)'
    <2> SUFFICES ASSUME NEW d \in Conn \ {c} PROVE Own(d)'
      OBVIOUS
    <2>1. pc'[d] = pc[d] /\ info'[d] = info[d] /\ tid'[d] = tid[d] /\ PathAt(d)' = PathAt(d)
      BY DEF Alone, PathAt
    <2>2. \A t \in DOMAIN tasks' : t \in DOMAIN tasks /\ tasks'[t].file = tasks[t].file
      BY DEF Alone
    <2>3. QED
      BY <2>1, <2>2, FinalInvParts DEF Parts, Own, Task
  <1>2. OneNamePerFile' /\ FinalVerified'
    BY DEF FinalInv, OneNamePerFile, FinalVerified
  <1>3. Parts'
    BY <1>1, <1>2, AloneKeeps DEF Parts
  <1>4. QED
    BY <1>3, FinalInvParts

(* Steps that write to the own path.                                       *)
LEMMA WriterStep ==
  ASSUME TypeOK, FinalInv, NEW c \in Conn, Alone(c), Active(c),
         \A p \in Path : p # PathAt(c) =>
           part'[p] = part[p] /\ (part[p] # NoFile => data'[part[p]] = data[part[p]]),
         OneNamePerFile', FinalVerified', Own(c)'
  PROVE  FinalInv'
  <1>1. Parts'
    BY AloneKeeps, OthersKeep DEF Parts
  <1>2. QED
    BY <1>1, FinalInvParts

-----------------------------------------------------------------------------
(* Clients, connections, locks, restarts.                                  *)

LEMMA FinalClient ==
  ASSUME Exclusive, TypeOK, FinalInv, NEW c \in Conn, Client(c) \/ OnClientDisconnect(c)
  PROVE  FinalInv'
  <1> USE DEF Goto, Finish, maps, disk
  <1>0. Own(c) /\ tid[c] < nextTask /\ (tid[c] # 0 => pc[c] \in TaskPc \cup {"send", "endClean"})
    BY FinalInvParts DEF Parts, TaskIsMine
  <1>1. CASE Accept(c) \/ Cancel(c) \/ Disconnect(c)
    <2>1. Alone(c)
      BY <1>0, <1>1 DEF Accept, Cancel, Disconnect, Alone, Active, TypeOK, TaskPc
    <2>2. Own(c)' /\ UNCHANGED <<data, part, final>>
      BY <1>1 DEF Accept, Cancel, Disconnect, Own, TypeOK, Writing
    <2>3. QED
      BY <2>1, <2>2, QuietStep
  <1>2. CASE BlkLookup(c) \/ EndLookup(c)
    <2>1. Alone(c)
      BY <1>2 DEF BlkLookup, EndLookup, Alone, Active, TypeOK, TaskPc
    <2>2. Own(c)' /\ UNCHANGED <<data, part, final>>
      BY <1>0, <1>2 DEF BlkLookup, EndLookup, Own, TypeOK, Writing, Task, PathAt
    <2>3. QED
      BY <2>1, <2>2, QuietStep
  <1>3. CASE OnClientDisconnect(c)
    <2>1. Alone(c)
      BY <1>0, <1>3 DEF OnClientDisconnect, Alone, Active, TypeOK, TaskPc
    <2>2. Own(c)' /\ UNCHANGED <<data, part, final>>
      BY <1>0, <1>3 DEF OnClientDisconnect, Own, TypeOK, Task, PathAt
    <2>3. QED
      BY <2>1, <2>2, QuietStep
  <1>4. ASSUME NEW r \in Upload, Request(c, r) PROVE FinalInv'
    <2>1. /\ pc'[c] = "rqInstant" /\ info'[c].rq = r /\ pc[c] = "idle" /\ tid[c] = 0
          /\ \A d \in Conn : d # c => pc'[d] = pc[d] /\ info'[d] = info[d]
          /\ UNCHANGED <<data, part, final, tasks, nextTask, tid>>
      BY <1>0, <1>4 DEF Request, TypeOK, TaskPc
    <2>2. PathsDisjoint'
      BY <1>4, <2>1 DEF Request, FinalInv, PathsDisjoint, Active, PathAt
    <2>3. TaskIsMine'
      BY <2>1, ZeroIsNoTask DEF FinalInv, TaskIsMine, Active, Task
    <2>4. \A d \in Conn : Own(d)'
      BY <2>1, FinalInvParts DEF Parts, Own, Task, PathAt, Writing
    <2>5. Parts'
      BY <2>1, <2>2, <2>3, <2>4 DEF Parts, FinalInv, OneNamePerFile, FinalVerified
    <2>6. QED
      BY <2>5, FinalInvParts
  <1>5. QED
    BY <1>1, <1>2, <1>3, <1>4 DEF Client

LEMMA FinalRestart == TypeOK /\ FinalInv /\ Restart => FinalInv'
  <1> SUFFICES ASSUME TypeOK, FinalInv, Restart PROVE FinalInv'
    OBVIOUS
  <1>1. UNCHANGED <<data, part, final>>
    BY DEF Restart, disk
  <1>2. OneNamePerFile' /\ FinalVerified'
    BY <1>1 DEF FinalInv, OneNamePerFile, FinalVerified
  <1>3. QED
    BY <1>2 DEF Restart, FirstTask, FinalInv, PathsDisjoint, TaskIsMine, WritesOwnPart, RenamesVerified,
                Active

LEMMA FinalFrame ==
  ASSUME FinalInv, UNCHANGED <<data, part, final, tasks, nextTask, pc, info, tid>>
  PROVE  FinalInv'
  BY DEF FinalInv, PathsDisjoint, TaskIsMine, WritesOwnPart, RenamesVerified, OneNamePerFile,
         FinalVerified, Active, PathAt, Task

-----------------------------------------------------------------------------
(* Requests.                                                               *)

(* A request step before the registration moves its connection alone.      *)
LEMMA RequestAlone ==
  ASSUME TypeOK, FinalInv, NEW c \in Conn, RqStep(c), ~RqReg(c)
  PROVE  Alone(c) /\ tid[c] = 0 /\ tid'[c] = 0
  <1> USE DEF Goto, Finish, maps, disk
  <1>1. /\ Active(c) /\ (Active(c)' => info'[c].rq = info[c].rq)
        /\ \A d \in Conn : d # c => pc'[d] = pc[d] /\ info'[d] = info[d] /\ tid'[d] = tid[d]
    BY RequestKeeps
  <1>2. pc[c] \in RqPc
    BY DEF RqStep, RqInstant, RqBusy, RqNoUser, RqMeta, RqResume, RqDropMeta, RqDropPart,
           RqNew, RqNewFails, RqPc
  <1>3. tid[c] = 0
    BY <1>2 DEF FinalInv, TaskIsMine, RqPc, TaskPc
  <1>4. tid'[c] = 0 /\ UNCHANGED <<tasks, nextTask>>
    BY <1>3 DEF RqStep, RqInstant, RqBusy, RqNoUser, RqMeta, RqResume, RqDropMeta, RqDropPart,
           RqNew, RqNewFails, TypeOK
  <1>5. QED
    BY <1>1, <1>3, <1>4 DEF Alone

LEMMA FinalRequest ==
  ASSUME TypeOK, FinalInv, NEW c \in Conn, RqStep(c)
  PROVE  FinalInv'
  <1> USE DEF Goto, Finish, maps, disk
  <1>a. Active(c)
    BY RequestKeeps
  <1>b. info[c] \in FileInfo /\ PathAt(c) \in Path
    BY <1>a, PathAtType
  <1>c. OneNamePerFile /\ FinalVerified
    BY DEF FinalInv
  <1>1. CASE RqInstant(c) \/ RqBusy(c) \/ RqNoUser(c) \/ RqMeta(c) \/ RqDropMeta(c)
             \/ RqNewFails(c)
    <2>1. Alone(c) /\ tid'[c] = 0
      BY <1>1, RequestAlone
           DEF RqStep, RqReg, RqInstant, RqBusy, RqNoUser, RqMeta, RqDropMeta, RqNewFails
    <2>2. UNCHANGED <<data, part, final, tasks>> /\ pc'[c] \notin {"rqReg", "endRename"}
      BY <1>1 DEF RqInstant, RqBusy, RqNoUser, RqMeta, RqDropMeta, RqNewFails, TypeOK
    <2>3. Own(c)'
      BY <2>1, <2>2, ZeroIsNoTask DEF Own
    <2>4. QED
      BY <2>1, <2>2, <2>3, QuietStep
  <1>2. CASE RqResume(c)
    <2>1. Alone(c) /\ tid'[c] = 0
      BY <1>2, RequestAlone DEF RqStep, RqReg, RqResume
    <2>2. UNCHANGED <<data, part, final, tasks>> /\ pc'[c] \notin {"endRename"}
      BY <1>2 DEF RqResume, TypeOK
    <2>3. pc'[c] = "rqReg" => info'[c].rq = info[c].rq /\ info'[c].file = part[PathAt(c)]
      BY <1>2, <1>b, OpenedKeeps DEF RqResume, TypeOK
    <2>4. Own(c)'
      BY <2>1, <2>2, <2>3, ZeroIsNoTask DEF Own, PathAt
    <2>5. QED
      BY <2>1, <2>2, <2>4, QuietStep
  <1>3. CASE RqDropPart(c)
    <2>1. Alone(c) /\ tid'[c] = 0
      BY <1>3, RequestAlone DEF RqStep, RqReg, RqDropPart
    <2>2. /\ UNCHANGED <<data, final, tasks>> /\ pc'[c] = "rqNew"
          /\ \A p \in Path : part'[p] = (IF p = PathAt(c) THEN NoFile ELSE part[p])
      BY <1>3 DEF RqDropPart, TypeOK
    <2>3. Own(c)'
      BY <2>2 DEF Own, Writing
    <2>4. OneNamePerFile' /\ FinalVerified'
      BY <1>c, <2>2 DEF OneNamePerFile, FinalVerified
    <2>5. QED
      BY <1>a, <2>1, <2>2, <2>3, <2>4, WriterStep
  <1>4. CASE RqNew(c)
    <2>1. Alone(c) /\ tid'[c] = 0
      BY <1>4, RequestAlone DEF RqStep, RqReg, RqNew
    <2>2. PICK i \in Inode :
            /\ IF part[PathAt(c)] = NoFile THEN ~InUse(i) ELSE i = part[PathAt(c)]
            /\ part' = [part EXCEPT ![PathAt(c)] = i]
            /\ data' = [data EXCEPT ![i] = << >>]
            /\ info' = Opened(c, i, 0)
      BY <1>4 DEF RqNew
    <2>3. i # NoFile
      BY NullAssumption
    <2>4. /\ UNCHANGED <<final, tasks>> /\ pc'[c] = "rqReg"
          /\ \A p \in Path : part'[p] = (IF p = PathAt(c) THEN i ELSE part[p])
          /\ \A j \in Inode : j # i => data'[j] = data[j]
      BY <1>4, <2>2 DEF RqNew, TypeOK
    <2>5. \A p \in Path : final[p] # i /\ (p # PathAt(c) => part[p] # i)
      BY <1>b, <1>c, <2>2, <2>3 DEF InUse, OneNamePerFile
    <2>6. info'[c].rq = info[c].rq /\ info'[c].file = i
      BY <1>b, <2>2, OpenedKeeps
    <2>7. Own(c)'
      BY <1>b, <2>4, <2>6 DEF Own, PathAt, Writing
    <2>8. \A p \in Path : part[p] \in Inode \cup {NoFile} /\ final[p] \in Inode \cup {NoFile}
      BY DEF TypeOK
    <2>9. OneNamePerFile'
      BY <1>c, <2>3, <2>4, <2>5 DEF OneNamePerFile
    <2>10. FinalVerified'
      BY <1>c, <2>4, <2>5, <2>8 DEF FinalVerified
    <2>11. \A p \in Path : p # PathAt(c) =>
             part'[p] = part[p] /\ (part[p] # NoFile => data'[part[p]] = data[part[p]])
      BY <2>4, <2>5, <2>8
    <2>12. QED
      BY <1>a, <2>1, <2>7, <2>9, <2>10, <2>11, WriterStep
  <1>5. CASE RqReg(c)
    <2>1. /\ DOMAIN tasks' = DOMAIN tasks \cup {nextTask} /\ nextTask \notin DOMAIN tasks
          /\ tasks'[nextTask] = info[c]
          /\ \A t \in DOMAIN tasks : tasks'[t] = tasks[t]
          /\ nextTask' = nextTask + 1 /\ nextTask \in Nat \ {0}
          /\ tid'[c] = nextTask /\ pc'[c] = "send" /\ pc[c] = "rqReg"
          /\ UNCHANGED <<data, part, final>>
      BY <1>5 DEF RqReg, FinalInv, TypeOK
    <2>2. /\ info'[c].rq = info[c].rq
          /\ \A d \in Conn : d # c => pc'[d] = pc[d] /\ info'[d] = info[d] /\ tid'[d] = tid[d]
      <3>1. info' = Opened(c, NoFile, 0)
        BY <1>5 DEF RqReg
      <3>2. QED
        BY <1>b, <3>1, OpenedKeeps, RequestKeeps
    <2>3. \A d \in Conn : /\ PathAt(d)' = PathAt(d)
                          /\ Active(d)' => Active(d)
      BY <1>a, <2>2 DEF PathAt, Active
    <2>4. \A d \in Conn \ {c} : tid[d] # nextTask /\ tid[d] \in Nat
      BY DEF FinalInv, TaskIsMine, TypeOK
    <2>5. PathsDisjoint'
      BY <2>3 DEF FinalInv, PathsDisjoint
    <2>6. TaskIsMine'
      <3>1. \A d \in Conn : tid'[d] < nextTask'
        BY <2>1, <2>2, <2>4 DEF FinalInv, TaskIsMine
      <3>2. \A d \in Conn : tid'[d] # 0 => pc'[d] \in TaskPc \cup {"send", "endClean"}
        BY <2>1, <2>2 DEF FinalInv, TaskIsMine
      <3>3. \A d \in Conn : Active(d)' /\ tid'[d] \in DOMAIN tasks' =>
                              tasks'[tid'[d]].rq = info'[d].rq
        BY <2>1, <2>2, <2>3, <2>4 DEF FinalInv, TaskIsMine, Task
      <3>4. QED
        BY <3>1, <3>2, <3>3 DEF TaskIsMine, Task
    <2>7. Own(c)'
      BY <2>1, <2>2, <2>3, FinalInvParts DEF Parts, Own, Task
    <2>8. \A d \in Conn \ {c} : Own(d)'
      BY <2>1, <2>2, <2>3, <2>4, FinalInvParts DEF Parts, Own, Task
    <2>9. \A t \in DOMAIN tasks' : t < nextTask'
      BY <2>1 DEF FinalInv, TypeOK
    <2>10. Parts'
      BY <1>c, <2>1, <2>5, <2>6, <2>7, <2>8, <2>9 DEF Parts, OneNamePerFile, FinalVerified
    <2>11. QED
      BY <2>10, FinalInvParts
  <1>6. QED
    BY <1>1, <1>2, <1>3, <1>4, <1>5 DEF RqStep

-----------------------------------------------------------------------------
(* Blocks and ends.                                                        *)

LEMMA TaskAlone ==
  ASSUME TypeOK, FinalInv, NEW c \in Conn, BlkStep(c) \/ EndStep(c)
  PROVE  Alone(c) /\ Active(c)
  <1> USE DEF Goto, Finish, maps, disk
  <1>1. /\ Active(c)
        /\ \A d \in Conn : d # c => pc'[d] = pc[d] /\ info'[d] = info[d] /\ tid'[d] = tid[d]
        /\ nextTask' = nextTask
        /\ \/ info'[c] = info[c] /\ tid'[c] = tid[c] /\ pc'[c] \in TaskPc \cup {"send", "endClean"}
           \/ pc'[c] = "idle" /\ tid'[c] = 0
    <2> USE DEF Active, TypeOK, TaskPc
    <2>1. CASE BlkStep(c)
      BY <2>1 DEF BlkStep, BlkWrite, BlkWriteFails, BlkMeta, BlkBusy
    <2>2. CASE EndUnknown(c) \/ EndMd5(c) \/ EndRename(c) \/ EndRenameFails(c) \/ EndDropMeta(c)
      BY <2>2 DEF EndUnknown, EndMd5, EndRename, EndRenameFails, EndDropMeta
    <2>3. CASE EndRow(c) \/ EndIndex(c) \/ BadPart(c) \/ BadMeta(c) \/ CleanupTask(c)
      BY <2>3 DEF EndRow, EndIndex, BadPart, BadMeta, CleanupTask
    <2> HIDE DEF Active, TypeOK, TaskPc
    <2>4. QED
      BY <2>1, <2>2, <2>3 DEF EndStep
  <1>2. \A t \in DOMAIN tasks' : /\ t \in DOMAIN tasks /\ tasks'[t].rq = tasks[t].rq
                                /\ tasks'[t].file = tasks[t].file
    <2>1. \A t \in DOMAIN tasks : tasks[t] \in FileInfo
      BY DEF TypeOK
    <2>2. ASSUME NEW off \in Offset, BlkWrite(c, off)
          PROVE  \A t \in DOMAIN tasks' : /\ t \in DOMAIN tasks /\ tasks'[t].rq = tasks[t].rq
                                         /\ tasks'[t].file = tasks[t].file
      BY <2>1, <2>2 DEF BlkWrite, FileInfo
    <2>3. CASE UNCHANGED tasks \/ tasks' = [t \in DOMAIN tasks \ {tid[c]} |-> tasks[t]]
      BY <2>3
    <2>4. QED
      BY <2>2, <2>3
         DEF BlkStep, EndStep, BlkWriteFails, BlkMeta, BlkBusy, EndUnknown, EndMd5, EndRename,
             EndRenameFails, EndDropMeta, EndRow, EndIndex, BadPart, BadMeta, CleanupTask
  <1>3. QED
    BY <1>1, <1>2 DEF Alone, Active

(* A block is written into the .part of the own path: into no published     *)
(* file and into nobody else's.                                             *)
LEMMA FinalBlock ==
  ASSUME TypeOK, FinalInv, NEW c \in Conn, Alone(c), Active(c), NEW f,
         pc[c] = "blkWrite", pc'[c] \in Writing, tid[c] \in DOMAIN tasks,
         info'[c] = info[c], tid'[c] = tid[c],
         data' = [data EXCEPT ![Task(c).file] = f], UNCHANGED <<part, final>>
  PROVE  FinalInv'
  <1> DEFINE i == Task(c).file
  <1>1. i = part[PathAt(c)] /\ PathAt(c) \in Path
    BY PathAtType DEF FinalInv, WritesOwnPart
  <1>2. \A p \in Path : part[p] \in Inode \cup {NoFile} /\ final[p] \in Inode \cup {NoFile}
    BY DEF TypeOK
  <1>3. \A j \in Inode : j # i => data'[j] = data[j]
    BY DEF TypeOK
  <1>4. OneNamePerFile /\ FinalVerified
    BY DEF FinalInv
  <1>5. OneNamePerFile'
    BY <1>4 DEF OneNamePerFile
  <1>6. \A p \in Path : final[p] # NoFile => final[p] # i
    BY <1>1, <1>4 DEF OneNamePerFile
  <1>7. FinalVerified'
    BY <1>2, <1>3, <1>4, <1>6 DEF FinalVerified
  <1>8. \A p \in Path : p # PathAt(c) =>
          part'[p] = part[p] /\ (part[p] # NoFile => data'[part[p]] = data[part[p]])
    BY <1>1, <1>2, <1>3, <1>4 DEF OneNamePerFile
  <1>9. Own(c)'
    <2>1. tid'[c] \in DOMAIN tasks' => Task(c)'.file = Task(c).file
      BY DEF Alone, Task
    <2>2. QED
      BY <1>1, <2>1 DEF Own, PathAt, Writing
  <1>10. QED
    BY <1>5, <1>7, <1>8, <1>9, WriterStep

LEMMA FinalTask ==
  ASSUME TypeOK, FinalInv, NEW c \in Conn, BlkStep(c) \/ EndStep(c)
  PROVE  FinalInv'
  <1> USE DEF Goto, Finish, maps, disk
  <1>a. Alone(c) /\ Active(c)
    BY TaskAlone
  <1>b. info[c] \in FileInfo /\ PathAt(c) \in Path /\ info[c].rq.md5 \in Content
    BY <1>a, PathAtType
  <1>c. OneNamePerFile /\ FinalVerified /\ Own(c)
    BY FinalInvParts DEF Parts
  <1>d. tid[c] \in DOMAIN tasks => Task(c).rq = info[c].rq /\ PathOf(Task(c).rq) = PathAt(c)
    BY <1>a DEF FinalInv, TaskIsMine, PathAt
  <1>1. CASE (\E off \in Offset : BlkWrite(c, off)) \/ BlkWriteFails(c)
    <2>1. /\ pc[c] = "blkWrite" /\ pc'[c] \in Writing /\ tid[c] \in DOMAIN tasks
          /\ info'[c] = info[c] /\ tid'[c] = tid[c] /\ UNCHANGED <<part, final>>
      BY <1>1 DEF BlkWrite, BlkWriteFails, Writing, TypeOK
    <2>2. CASE UNCHANGED data
      <3>1. tid'[c] \in DOMAIN tasks' => Task(c)'.file = Task(c).file
        BY <1>a, <2>1 DEF Alone, Task
      <3>2. Own(c)'
        BY <1>c, <2>1, <2>2, <3>1 DEF Own, PathAt, Writing
      <3>3. QED
        BY <1>a, <2>1, <2>2, <3>2, QuietStep
    <2>3. ASSUME NEW f, data' = [data EXCEPT ![Task(c).file] = f] PROVE FinalInv'
      BY <1>a, <2>1, <2>3, FinalBlock
    <2>4. QED
      BY <1>1, <2>2, <2>3 DEF BlkWrite, BlkWriteFails
  <1>2. CASE EndRename(c)
    <2>1. /\ tid[c] \in DOMAIN tasks /\ pc[c] = "endRename" /\ pc'[c] = "endDropMeta"
          /\ part[PathAt(c)] # NoFile /\ UNCHANGED data
          /\ \A p \in Path : final'[p] = (IF p = PathAt(c) THEN part[p] ELSE final[p])
          /\ \A p \in Path : part'[p] = (IF p = PathAt(c) THEN NoFile ELSE part[p])
      BY <1>2, <1>d DEF EndRename, TypeOK
    <2>2. data[part[PathAt(c)]] = Whole(info[c].rq.md5)
      BY <1>c, <2>1 DEF Own
    <2>3. FinalVerified'
      <3>1. ASSUME NEW p \in Path, final'[p] # NoFile
            PROVE  \E m \in Content : data'[final'[p]] = Whole(m)
        <4>1. CASE p = PathAt(c)
          BY <1>b, <2>1, <2>2, <4>1
        <4>2. CASE p # PathAt(c)
          BY <1>c, <2>1, <3>1, <4>2 DEF FinalVerified
        <4>3. QED
          BY <4>1, <4>2
      <3>2. QED
        BY <3>1 DEF FinalVerified
    <2>4. OneNamePerFile'
      BY <1>b, <1>c, <2>1 DEF OneNamePerFile
    <2>5. Own(c)'
      BY <2>1 DEF Own, Writing
    <2>6. QED
      BY <1>a, <2>1, <2>3, <2>4, <2>5, WriterStep
  <1>3. CASE BadPart(c)
    <2>1. /\ pc'[c] = "badMeta" /\ UNCHANGED <<data, final>>
          /\ \A p \in Path : part'[p] = (IF p = PathAt(c) THEN NoFile ELSE part[p])
      BY <1>3, <1>d DEF BadPart, TypeOK
    <2>2. Own(c)'
      BY <2>1 DEF Own, Writing
    <2>3. OneNamePerFile' /\ FinalVerified'
      BY <1>c, <2>1 DEF OneNamePerFile, FinalVerified
    <2>4. QED
      BY <1>a, <2>1, <2>2, <2>3, WriterStep
  <1>4. CASE EndMd5(c)
    <2>1. UNCHANGED <<data, part, final, tasks, info, tid>> /\ pc'[c] \in {"endRename", "badPart"}
      BY <1>4 DEF EndMd5, TypeOK
    <2>2. pc'[c] = "endRename" => data[part[PathAt(c)]] = Whole(info[c].rq.md5)
      BY <1>4, <1>d DEF EndMd5, Verified, TypeOK
    <2>3. Own(c)'
      BY <2>1, <2>2 DEF Own, PathAt, Writing
    <2>4. QED
      BY <1>a, <2>1, <2>3, QuietStep
  <1>5. CASE BlkMeta(c) \/ BlkBusy(c)
    <2>1. UNCHANGED <<data, part, final, tasks, info, tid>> /\ pc'[c] \in Writing /\ pc[c] \in Writing
      BY <1>5 DEF BlkMeta, BlkBusy, TypeOK, Writing
    <2>2. Own(c)'
      BY <1>c, <2>1 DEF Own, PathAt, Writing, Task
    <2>3. QED
      BY <1>a, <2>1, <2>2, QuietStep
  <1>6. CASE EndUnknown(c) \/ EndRenameFails(c) \/ EndDropMeta(c) \/ EndRow(c) \/ EndIndex(c)
             \/ BadMeta(c) \/ CleanupTask(c)
    <2>1. UNCHANGED <<data, part, final>> /\ pc'[c] \notin Writing \cup {"rqReg", "endRename"}
      BY <1>6 DEF EndUnknown, EndRenameFails, EndDropMeta, EndRow, EndIndex, BadMeta,
                  CleanupTask, TypeOK, Writing
    <2>2. Own(c)'
      BY <2>1 DEF Own
    <2>3. QED
      BY <1>a, <2>1, <2>2, QuietStep
  <1>7. QED
    BY <1>1, <1>2, <1>3, <1>4, <1>5, <1>6 DEF BlkStep, EndStep

LEMMA FinalNext ==
  ASSUME Exclusive PROVE TypeOK /\ FinalInv /\ [Next]_vars => FinalInv'
  <1> SUFFICES ASSUME TypeOK, FinalInv, [Next]_vars PROVE FinalInv'
    OBVIOUS
  <1>1. ASSUME NEW k \in Key, Expire(k) PROVE FinalInv'
    BY <1>1, FinalFrame DEF Expire, disk
  <1>2. CASE UNCHANGED vars
    BY <1>2, FinalFrame DEF vars, disk, maps
  <1>3. QED
    BY <1>1, <1>2, FinalClient, FinalRequest, FinalTask, FinalRestart
       DEF Next, UseFreed, Crash

(* When no two connections upload to one path at the same time, a file      *)
(* under its final name is a complete, verified content at every moment:    *)
(* the md5 of FinalizeUpload is still right when the rename comes, and no   *)
(* block, restarted upload or truncation reaches a published file, under    *)
(* any number of connections, failing disk operations and restarts.         *)
THEOREM FinalSafe == ASSUME Exclusive PROVE Spec => []FinalVerified
  <1>1. TypeOK /\ FinalInv /\ [Next]_vars => FinalInv'
    BY FinalNext
  <1>2. FinalInv => FinalVerified
    BY DEF FinalInv
  <1>3. QED
    BY InitFinal, TypeCorrect, <1>1, <1>2, PTL DEF Spec


-----------------------------------------------------------------------------
(* What stands on the disk while contents are collected (StoreInv), for    *)
(* uploads that share no path: every .part is a run of one content, every  *)
(* .meta promises what its .part holds, every task counts what is there.   *)
(* From it follow the counts, the promise of a success, the progress that  *)
(* is never taken back, and that the upload implements UploadStore.        *)

(* A file is m from its start, but for a torn block at its end.            *)
Run(f, m) == \A i \in 1 .. Len(f) : f[i] = m \/ (i = Len(f) /\ f[i] = Hole)

(* What x, a FileInfo of c, counts is in the .part of c's path, which has   *)
(* no block of another content; and the .meta beside it promises no more.   *)
Collects(c, x) ==
  LET p == PathAt(c)  m == info[c].rq.md5 IN
  /\ part[p] # NoFile /\ Run(data[part[p]], m)
  /\ HasPrefix(data[part[p]], x.received, m) /\ x.received <= Size[m]
  /\ meta[p] # NoMeta => \/ meta[p].md5 = Hole
                         \/ meta[p].md5 = m /\ meta[p].received <= x.received

(* The upload of c stands under its final name and nothing of it is left.  *)
Published(c) ==
  LET p == PathAt(c) IN
  /\ final[p] # NoFile /\ data[final[p]] = Whole(info[c].rq.md5) /\ part[p] = NoFile
  /\ pc[c] # "endDropMeta" => meta[p] = NoMeta

PathGood(p) ==
  /\ part[p] # NoFile => \E m \in Content : Run(data[part[p]], m)
  /\ meta[p] # NoMeta /\ meta[p].md5 # Hole =>
       /\ meta[p].received \in 1 .. Size[meta[p].md5]
       /\ part[p] # NoFile => HasPrefix(data[part[p]], meta[p].received, meta[p].md5)

ResumesMeta(c) ==
  LET x == meta[PathAt(c)] IN
  x # NoMeta /\ x.md5 = info[c].rq.md5 /\ x.received = info[c].received

ConnGood(c) ==
  /\ pc[c] \in {"rqDropPart", "rqNew"} => meta[PathAt(c)] = NoMeta
  /\ pc[c] = "rqResume" => ResumesMeta(c)
  /\ pc[c] = "rqDropMeta" => meta[PathAt(c)] # NoMeta /\ meta[PathAt(c)].md5 # info[c].rq.md5
  /\ pc[c] = "rqReg" => Collects(c, info[c])
  /\ tid[c] \in DOMAIN tasks =>
       /\ pc[c] \in Writing => Collects(c, Task(c))
       /\ pc[c] = "blkMeta" => Task(c).received > 0
       /\ pc[c] \in {"endDropMeta", "endRow", "endIndex"} => Published(c)

StoreInv == (\A p \in Path : PathGood(p)) /\ (\A c \in Conn : ConnGood(c))

-----------------------------------------------------------------------------
(* Runs.                                                                   *)

LEMMA EmptyRun == ASSUME NEW m PROVE Run(<< >>, m) /\ HasPrefix(<< >>, 0, m)
  BY DEF Run, HasPrefix

LEMMA PrefixOfPrefix ==
  ASSUME NEW f \in File, NEW n \in Nat, NEW k \in Nat, NEW m, HasPrefix(f, n, m), k <= n
  PROVE  HasPrefix(f, k, m)
  <1>1. Len(f) \in Nat
    BY DEF File
  <1>2. QED
    BY <1>1 DEF HasPrefix

(* A block written inside or at the end of the run keeps it a run.         *)
LEMMA WriteKeepsRun ==
  ASSUME NEW f \in File, NEW m \in Content, NEW off \in Nat, NEW n \in Nat,
         Run(f, m), HasPrefix(f, n, m), off <= n
  PROVE  /\ Run(WriteAt(f, off, m), m)
         /\ HasPrefix(WriteAt(f, off, m), IF off + 1 > n THEN off + 1 ELSE n, m)
  <1> DEFINE g == WriteAt(f, off, m)
             l == IF off < Len(f) THEN Len(f) ELSE off + 1
  <1>1. Len(f) \in Nat /\ n <= Len(f)
    BY DEF File, HasPrefix
  <1>2. Len(g) = l /\ l \in Nat
    BY <1>1, WriteAtType
  <1>3. \A i \in 1 .. l : g[i] = IF i = off + 1 THEN m ELSE IF i <= Len(f) THEN f[i] ELSE Hole
    BY DEF WriteAt
  <1>4. \A i \in 1 .. l : i = off + 1 \/ (i <= Len(f) /\ g[i] = f[i])
    BY <1>1, <1>3
  <1>5. \A i \in 1 .. l : g[i] = m \/ (i = l /\ g[i] = Hole)
    <2>1. SUFFICES ASSUME NEW i \in 1 .. l, i # off + 1
                   PROVE  g[i] = m \/ (i = l /\ g[i] = Hole)
      BY <1>3
    <2>2. i <= Len(f) /\ g[i] = f[i]
      BY <1>4, <2>1
    <2>3. f[i] = m \/ (i = Len(f) /\ f[i] = Hole)
      BY <1>1, <2>1, <2>2 DEF Run
    <2>4. i = Len(f) => l = Len(f) \/ f[i] = m
      BY <1>1, <2>1, <2>2 DEF HasPrefix
    <2>5. QED
      BY <2>2, <2>3, <2>4
  <1>6. \A i \in 1 .. (IF off + 1 > n THEN off + 1 ELSE n) : i \in 1 .. l /\ g[i] = m
    BY <1>1, <1>3 DEF HasPrefix
  <1>7. (IF off + 1 > n THEN off + 1 ELSE n) <= l
    BY <1>1
  <1> HIDE DEF g, l
  <1>8. QED
    BY <1>2, <1>5, <1>6, <1>7 DEF Run, HasPrefix, g

(* A torn block behind a run that is complete so far.                      *)
LEMMA TornKeepsRun ==
  ASSUME NEW f \in File, NEW m \in Content, HasPrefix(f, Len(f), m)
  PROVE  Run(Append(f, Hole), m) /\ HasPrefix(Append(f, Hole), Len(f), m)
  BY DEF Run, HasPrefix, File

(* The content of a run with a block in place is known.                    *)
LEMMA RunIsOf ==
  ASSUME NEW f \in File, NEW m \in Content, NEW k \in Content, NEW n \in Nat \ {0},
         Run(f, k), HasPrefix(f, n, m)
  PROVE  k = m
  <1>1. Len(f) \in Nat /\ 1 \in 1 .. n /\ 1 \in 1 .. Len(f)
    BY DEF File, HasPrefix
  <1>2. f[1] = m /\ (f[1] = k \/ f[1] = Hole)
    BY <1>1 DEF HasPrefix, Run
  <1>3. QED
    BY <1>2, NullAssumption

-----------------------------------------------------------------------------
(* Frames.                                                                 *)

(* What stands under path p is left alone.                                 *)
Same(p) ==
  /\ part'[p] = part[p] /\ meta'[p] = meta[p] /\ final'[p] = final[p]
  /\ part[p] # NoFile => data'[part[p]] = data[part[p]]
  /\ final[p] # NoFile => data'[final[p]] = data[final[p]]

LEMMA PathFrame ==
  ASSUME NEW p \in Path, PathGood(p), Same(p)
  PROVE  PathGood(p)'
  BY DEF PathGood, Same

LEMMA ConnFrame ==
  ASSUME NEW c \in Conn, ConnGood(c), Same(PathAt(c)),
         pc'[c] = pc[c], info'[c] = info[c], tid'[c] = tid[c],
         tid[c] \in DOMAIN tasks' => tid[c] \in DOMAIN tasks /\ tasks'[tid[c]] = tasks[tid[c]]
  PROVE  ConnGood(c)'
  <1>1. PathAt(c)' = PathAt(c)
    BY DEF PathAt
  <1>2. \A x : Collects(c, x) => Collects(c, x)'
    BY <1>1 DEF Collects, Same
  <1>3. Published(c) => Published(c)'
    BY <1>1 DEF Published, Same
  <1>4. ResumesMeta(c) => ResumesMeta(c)'
    BY <1>1 DEF ResumesMeta, Same
  <1>5. tid'[c] \in DOMAIN tasks' => Task(c)' = Task(c)
    BY DEF Task
  <1>6. pc[c] \in Writing /\ tid'[c] \in DOMAIN tasks' => Collects(c, Task(c))'
    BY <1>2, <1>5 DEF ConnGood
  <1>7. QED
    BY <1>1, <1>2, <1>3, <1>4, <1>5, <1>6 DEF ConnGood, Same

(* A step of c alone, which disturbs at most what stands under its path.   *)
LEMMA StoreStep ==
  ASSUME TypeOK, FinalInv, StoreInv, NEW c \in Conn, Alone(c),
         \A t \in DOMAIN tasks' : tasks'[t] = tasks[t] \/ (Active(c) /\ t = tid[c]),
         \A p \in Path : Same(p) \/ (Active(c) /\ p = PathAt(c) /\ PathGood(p)'),
         ConnGood(c)'
  PROVE  StoreInv'
  <1>1. \A p \in Path : PathGood(p)'
    BY PathFrame DEF StoreInv
  <1>2. ASSUME NEW d \in Conn, d # c PROVE ConnGood(d)'
    <2>1. pc'[d] = pc[d] /\ info'[d] = info[d] /\ tid'[d] = tid[d] /\ ConnGood(d)
      BY <1>2 DEF Alone, StoreInv
    <2>2. CASE Active(d)
      <3>1. PathAt(d) \in Path /\ (Active(c) => PathAt(d) # PathAt(c))
        BY <1>2, <2>2, PathAtType DEF FinalInv, PathsDisjoint
      <3>2. tid[d] \in DOMAIN tasks' => tid[d] \in DOMAIN tasks /\ tasks'[tid[d]] = tasks[tid[d]]
        <4>1. SUFFICES ASSUME tid[d] \in DOMAIN tasks', Active(c), tid[d] = tid[c] PROVE FALSE
          BY DEF Alone
        <4>2. Task(d).rq = info[d].rq /\ Task(c).rq = info[c].rq
          BY <2>2, <4>1 DEF FinalInv, TaskIsMine, Alone
        <4>3. QED
          BY <3>1, <4>1, <4>2 DEF PathAt, Task
      <3>3. QED
        BY <2>1, <3>1, <3>2, ConnFrame
    <2>3. CASE ~Active(d)
      BY <2>1, <2>3 DEF ConnGood, Active, Writing
    <2>4. QED
      BY <2>2, <2>3
  <1>3. QED
    BY <1>1, <1>2 DEF StoreInv

LEMMA DiskSame == UNCHANGED disk => \A p \in Path : Same(p)
  BY DEF disk, Same

(* A step to a place of which ConnGood says nothing.                       *)
Plain(c) ==
  /\ pc'[c] \notin {"rqDropPart", "rqNew", "rqResume", "rqDropMeta", "rqReg",
                    "endDropMeta", "endRow", "endIndex"}
  /\ pc'[c] \in Writing => tid'[c] \notin DOMAIN tasks'

LEMMA PlainGood == ASSUME NEW c \in Conn, Plain(c) PROVE ConnGood(c)'
  BY DEF Plain, ConnGood, Writing

-----------------------------------------------------------------------------
(* Clients, connections, locks, restarts.                                  *)

LEMMA InitStore == Init => StoreInv
  BY DEF Init, StoreInv, PathGood, ConnGood, Writing

LEMMA StoreClient ==
  ASSUME TypeOK, FinalInv, StoreInv, NEW c \in Conn, Client(c) \/ OnClientDisconnect(c)
  PROVE  StoreInv'
  <1> USE DEF Goto, Finish, maps
  <1>0. tid[c] < nextTask /\ (tid[c] # 0 => pc[c] \in TaskPc \cup {"send", "endClean"})
    BY FinalInvParts DEF Parts, TaskIsMine
  <1>1. UNCHANGED disk /\ \A p \in Path : Same(p)
    BY DiskSame DEF Client, Accept, Request, Cancel, Disconnect, BlkLookup, EndLookup,
                    OnClientDisconnect, disk
  <1>a. ConnGood(c)
    BY DEF StoreInv
  <1>2. CASE Accept(c) \/ Cancel(c) \/ Disconnect(c) \/ BlkLookup(c) \/ EndLookup(c)
    <2>1. Alone(c) /\ UNCHANGED tasks
      BY <1>0, <1>2 DEF Accept, Cancel, Disconnect, BlkLookup, EndLookup, Alone, Active,
                        TypeOK, TaskPc
    <2>2. ConnGood(c)'
      <3>1. CASE BlkLookup(c)
        <4>1. /\ pc[c] = "send" /\ pc'[c] = "blkWrite" /\ tid'[c] = tid[c] /\ info' = info
              /\ tid[c] \in DOMAIN tasks
          BY <3>1 DEF BlkLookup, TypeOK
        <4>2. Collects(c, Task(c)) /\ Task(c)' = Task(c)
          BY <1>a, <2>1, <4>1 DEF ConnGood, Writing, Task
        <4>3. Collects(c, Task(c))'
          BY <1>1, <4>1, <4>2 DEF Collects, PathAt, disk
        <4>4. QED
          BY <4>1, <4>3 DEF ConnGood
      <3>2. CASE ~BlkLookup(c)
        <4>1. Plain(c)
          BY <1>2, <3>2 DEF Accept, Cancel, Disconnect, EndLookup, Plain, TypeOK, Writing
        <4>2. QED
          BY <4>1, PlainGood
      <3>3. QED
        BY <3>1, <3>2
    <2>3. QED
      BY <1>1, <2>1, <2>2, StoreStep
  <1>3. CASE OnClientDisconnect(c)
    <2>1. /\ Alone(c) /\ UNCHANGED <<pc, info, tid>>
          /\ \A t \in DOMAIN tasks' : t \in DOMAIN tasks /\ tasks'[t] = tasks[t]
      BY <1>0, <1>3 DEF OnClientDisconnect, Alone, Active, TypeOK, TaskPc
    <2>2. Active(c) => PathAt(c) \in Path
      BY PathAtType
    <2>3. ConnGood(c)'
      <3>1. CASE Active(c)
        BY <1>1, <1>a, <2>1, <2>2, <3>1, ConnFrame
      <3>2. CASE ~Active(c)
        BY <2>1, <3>2 DEF ConnGood, Active, Writing
      <3>3. QED
        BY <3>1, <3>2
    <2>4. QED
      BY <1>1, <2>1, <2>3, StoreStep
  <1>4. ASSUME NEW r \in Upload, Request(c, r) PROVE StoreInv'
    <2>1. /\ pc'[c] = "rqInstant"
          /\ \A d \in Conn : d # c => pc'[d] = pc[d] /\ info'[d] = info[d]
          /\ UNCHANGED <<tasks, tid>>
      BY <1>4 DEF Request, TypeOK
    <2>2. \A p \in Path : PathGood(p)'
      BY <1>1, PathFrame DEF StoreInv
    <2>3. ASSUME NEW d \in Conn, d # c PROVE ConnGood(d)'
      <3>1. CASE Active(d)
        <4>1. PathAt(d) \in Path /\ ConnGood(d)
          BY <3>1, PathAtType DEF StoreInv
        <4>2. QED
          BY <1>1, <2>1, <2>3, <4>1, ConnFrame
      <3>2. CASE ~Active(d)
        BY <2>1, <2>3, <3>2 DEF ConnGood, Active, Writing
      <3>3. QED
        BY <3>1, <3>2
    <2>4. ConnGood(c)'
      BY <2>1 DEF ConnGood, Writing
    <2>5. QED
      BY <2>2, <2>3, <2>4 DEF StoreInv
  <1>5. QED
    BY <1>2, <1>3, <1>4 DEF Client

LEMMA StoreRestart == StoreInv /\ Restart => StoreInv'
  <1> SUFFICES ASSUME StoreInv, Restart PROVE StoreInv'
    OBVIOUS
  <1>1. \A p \in Path : PathGood(p)'
    BY DiskSame, PathFrame DEF Restart, StoreInv
  <1>2. QED
    BY <1>1 DEF Restart, StoreInv, ConnGood, Writing

LEMMA StoreFrame ==
  StoreInv /\ UNCHANGED <<disk, tasks, pc, info, tid>> => StoreInv'
  BY DEF StoreInv, PathGood, ConnGood, Collects, Published, ResumesMeta, PathAt, Task, disk

-----------------------------------------------------------------------------
(* Requests.                                                               *)

LEMMA StoreRequest ==
  ASSUME TypeOK, FinalInv, StoreInv, NEW c \in Conn, RqStep(c), ~RqReg(c)
  PROVE  StoreInv'
  <1> USE DEF Goto, Finish, maps
  <1> DEFINE p == PathAt(c)  m == info[c].rq.md5
  <1>a. Alone(c) /\ tid[c] = 0 /\ tid'[c] = 0 /\ Active(c)
    BY RequestAlone, RequestKeeps
  <1>b. info[c] \in FileInfo /\ p \in Path /\ m \in Content /\ m # Hole
    BY <1>a, PathAtType, NullAssumption
  <1>c. ConnGood(c) /\ \A q \in Path : PathGood(q)
    BY DEF StoreInv
  <1>d. UNCHANGED tasks /\ 0 \notin DOMAIN tasks
    BY ZeroIsNoTask
       DEF RqStep, RqInstant, RqBusy, RqNoUser, RqMeta, RqResume, RqDropMeta, RqDropPart,
           RqNew, RqNewFails
  <1>e. Active(c)' => PathAt(c)' = p /\ info'[c].rq.md5 = m
    BY <1>a DEF Alone, PathAt
  <1>f. data \in [Inode -> File] /\ part[p] \in Inode \cup {NoFile} /\ meta[p] \in Meta \cup {NoMeta}
    BY <1>b DEF TypeOK
  <1>1. CASE RqInstant(c) \/ RqBusy(c) \/ RqNoUser(c) \/ RqNewFails(c)
    <2>1. Plain(c)
      BY <1>1, <1>a, <1>d DEF RqInstant, RqBusy, RqNoUser, RqNewFails, Plain, TypeOK, Writing
    <2>2. UNCHANGED disk
      BY <1>1 DEF RqInstant, RqBusy, RqNoUser, RqNewFails
    <2>3. QED
      BY <1>a, <1>d, <2>1, <2>2, PlainGood, DiskSame, StoreStep
  <1>2. CASE RqMeta(c)
    <2>1. UNCHANGED disk /\ pc'[c] \in {"rqNew", "rqResume", "rqDropMeta"}
      BY <1>2 DEF RqMeta, TypeOK
    <2>2. p = PathOf(info[c].rq) /\ Active(c)'
      BY <2>1 DEF PathAt, Active
    <2>3. ConnGood(c)'
      <3>1. CASE pc'[c] = "rqNew"
        <4>1. meta[p] = NoMeta
          BY <1>2, <2>2, <3>1 DEF RqMeta, TypeOK
        <4>2. QED
          BY <1>e, <2>1, <2>2, <3>1, <4>1 DEF ConnGood, disk, Writing
      <3>2. CASE pc'[c] = "rqDropMeta"
        <4>1. meta[p] # NoMeta /\ ~Resumable(info[c].rq)
          BY <1>2, <2>2, <3>2 DEF RqMeta, TypeOK
        <4>2. meta[p].md5 # m
          <5>1. meta[p].md5 # Hole => meta[p].received <= Size[meta[p].md5]
            BY <1>b, <1>c, <4>1 DEF PathGood
          <5>2. QED
            BY <1>b, <2>2, <4>1, <5>1 DEF Resumable
        <4>3. QED
          BY <1>e, <2>1, <2>2, <3>2, <4>1, <4>2 DEF ConnGood, disk, Writing
      <3>3. CASE pc'[c] = "rqResume"
        <4>1. /\ meta[p] # NoMeta /\ Resumable(info[c].rq)
              /\ info' = Opened(c, NoFile, meta[p].received)
          BY <1>2, <2>2, <3>3 DEF RqMeta, TypeOK
        <4>2. info'[c].received = meta[p].received
          BY <1>b, <4>1 DEF Opened, TypeOK, FileInfo
        <4>3. ResumesMeta(c)'
          BY <1>e, <2>1, <2>2, <4>1, <4>2 DEF ResumesMeta, Resumable, disk
        <4>4. QED
          BY <2>1, <3>3, <4>3 DEF ConnGood, Writing
      <3>4. QED
        BY <2>1, <3>1, <3>2, <3>3
    <2>4. QED
      BY <1>a, <1>d, <2>1, <2>3, DiskSame, StoreStep
  <1>3. CASE RqResume(c)
    <2>1. UNCHANGED <<data, part, final>> /\ ResumesMeta(c) /\ pc'[c] \in {"rqReg", "rqNew"}
          /\ Active(c)'
      BY <1>3, <1>c DEF RqResume, ConnGood, TypeOK, Active
    <2>2. CASE pc'[c] = "rqReg"
      <3>1. /\ part[p] # NoFile /\ UNCHANGED meta
            /\ info' = Opened(c, part[p], Least(Len(data[part[p]]), info[c].received))
        BY <1>3, <2>2 DEF RqResume, TypeOK
      <3>2. UNCHANGED disk
        BY <1>3, <2>1, <3>1 DEF RqResume, disk
      <3>3. /\ meta[p] # NoMeta /\ meta[p].md5 = m /\ meta[p].received = info[c].received
            /\ meta[p].received \in 1 .. Size[m] /\ HasPrefix(data[part[p]], meta[p].received, m)
        BY <1>b, <1>c, <2>1, <3>1 DEF ResumesMeta, PathGood
      <3>4. Run(data[part[p]], m)
        <4>1. PICK k \in Content : Run(data[part[p]], k)
          BY <1>b, <1>c, <3>1 DEF PathGood
        <4>2. data[part[p]] \in File /\ meta[p].received \in Nat \ {0}
          BY <1>f, <3>1, <3>3 DEF Meta
        <4>3. QED
          BY <1>b, <3>3, <4>1, <4>2, RunIsOf
      <3>5. Least(Len(data[part[p]]), info[c].received) = meta[p].received
        <4>1. Len(data[part[p]]) \in Nat
          BY <1>f, <3>1 DEF File
        <4>2. QED
          BY <3>3, <4>1 DEF Least, HasPrefix
      <3>6. info'[c].received = meta[p].received
        BY <1>b, <3>1, <3>5 DEF Opened, TypeOK, FileInfo
      <3>7. Size[m] \in Nat /\ meta[p].received \in Nat /\ meta[p].received <= Size[m]
        BY <1>b, <3>3, SizeAssumption
      <3>8. Collects(c, info[c])'
        BY <1>e, <2>1, <3>1, <3>2, <3>3, <3>4, <3>6, <3>7 DEF Collects, disk
      <3>9. ConnGood(c)'
        BY <2>2, <3>8 DEF ConnGood, Writing
      <3>10. QED
        BY <1>a, <1>d, <3>2, <3>9, DiskSame, StoreStep
    <2>3. CASE pc'[c] = "rqNew"
      <3>1. \A q \in Path : meta'[q] = IF q = p THEN NoMeta ELSE meta[q]
        BY <1>3, <2>3 DEF RqResume, TypeOK
      <3>2. \A q \in Path : Same(q) \/ (q = p /\ PathGood(q)')
        BY <1>c, <2>1, <3>1 DEF Same, PathGood
      <3>3. ConnGood(c)'
        BY <1>b, <1>e, <2>1, <2>3, <3>1 DEF ConnGood, Writing
      <3>4. QED
        BY <1>a, <1>d, <3>2, <3>3, StoreStep
    <2>4. QED
      BY <2>1, <2>2, <2>3
  <1>4. CASE RqDropMeta(c)
    <2>1. /\ \A q \in Path : meta'[q] = IF q = p THEN NoMeta ELSE meta[q]
          /\ UNCHANGED <<data, part, final>> /\ pc'[c] = "rqDropPart" /\ Active(c)'
      BY <1>4 DEF RqDropMeta, TypeOK, Active
    <2>2. \A q \in Path : Same(q) \/ (q = p /\ PathGood(q)')
      BY <1>c, <2>1 DEF Same, PathGood
    <2>3. ConnGood(c)'
      BY <1>b, <1>e, <2>1 DEF ConnGood, Writing
    <2>4. QED
      BY <1>a, <1>d, <2>2, <2>3, StoreStep
  <1>5. CASE RqDropPart(c)
    <2>1. /\ \A q \in Path : part'[q] = IF q = p THEN NoFile ELSE part[q]
          /\ UNCHANGED <<data, meta, final>> /\ pc[c] = "rqDropPart" /\ pc'[c] = "rqNew" /\ Active(c)'
      BY <1>5 DEF RqDropPart, TypeOK, Active
    <2>2. \A q \in Path : Same(q) \/ (q = p /\ PathGood(q)')
      BY <1>c, <2>1 DEF Same, PathGood
    <2>3. ConnGood(c)'
      BY <1>c, <1>e, <2>1 DEF ConnGood, Writing
    <2>4. QED
      BY <1>a, <1>d, <2>2, <2>3, StoreStep
  <1>6. CASE RqNew(c)
    <2>1. PICK i \in Inode :
            /\ IF part[p] = NoFile THEN ~InUse(i) ELSE i = part[p]
            /\ part' = [part EXCEPT ![p] = i]
            /\ data' = [data EXCEPT ![i] = << >>]
            /\ info' = Opened(c, i, 0)
      BY <1>6 DEF RqNew
    <2>2. i # NoFile
      BY NullAssumption
    <2>3. /\ UNCHANGED <<meta, final>> /\ pc[c] = "rqNew" /\ pc'[c] = "rqReg" /\ Active(c)'
          /\ \A q \in Path : part'[q] = (IF q = p THEN i ELSE part[q])
          /\ data'[i] = << >>
          /\ \A j \in Inode : j # i => data'[j] = data[j]
      BY <1>6, <2>1 DEF RqNew, TypeOK, Active
    <2>4. \A q \in Path : final[q] # i /\ (q # p => part[q] # i)
      BY <1>b, <2>1, <2>2 DEF InUse, FinalInv, OneNamePerFile
    <2>5. \A q \in Path : part[q] \in Inode \cup {NoFile} /\ final[q] \in Inode \cup {NoFile}
      BY DEF TypeOK
    <2>6. meta[p] = NoMeta
      BY <1>c, <2>3 DEF ConnGood
    <2>7. \A q \in Path : q # p => Same(q)
      BY <2>3, <2>4, <2>5 DEF Same
    <2>8. \A q \in Path : q = p => PathGood(q)'
      BY <1>b, <2>3, <2>6, EmptyRun DEF PathGood
    <2>9. info'[c].received = 0 /\ Size[m] \in Nat
      BY <1>b, <2>1, SizeAssumption DEF Opened, TypeOK, FileInfo
    <2>10. Collects(c, info[c])'
      BY <1>b, <1>e, <2>2, <2>3, <2>6, <2>9, EmptyRun DEF Collects
    <2>11. ConnGood(c)'
      BY <2>3, <2>10 DEF ConnGood, Writing
    <2>12. QED
      BY <1>a, <1>d, <2>7, <2>8, <2>11, StoreStep
  <1>7. QED
    BY <1>1, <1>2, <1>3, <1>4, <1>5, <1>6 DEF RqStep

LEMMA StoreReg ==
  ASSUME TypeOK, FinalInv, StoreInv, NEW c \in Conn, RqReg(c)
  PROVE  StoreInv'
  <1> USE DEF Goto, maps
  <1>1. /\ DOMAIN tasks' = DOMAIN tasks \cup {nextTask} /\ nextTask \notin DOMAIN tasks
        /\ tasks'[nextTask] = info[c]
        /\ \A t \in DOMAIN tasks : tasks'[t] = tasks[t]
        /\ nextTask \in Nat \ {0}
        /\ tid'[c] = nextTask /\ pc'[c] = "send" /\ pc[c] = "rqReg"
        /\ UNCHANGED disk
    BY DEF RqReg, FinalInv, TypeOK
  <1>2. /\ info[c] \in FileInfo /\ info'[c].rq = info[c].rq
        /\ \A d \in Conn : d # c => pc'[d] = pc[d] /\ info'[d] = info[d] /\ tid'[d] = tid[d]
    BY <1>1, RequestKeeps DEF RqStep, Active
  <1>3. \A p \in Path : PathGood(p)'
    BY <1>1, DiskSame, PathFrame DEF StoreInv
  <1>4. Collects(c, info[c])
    BY <1>1 DEF StoreInv, ConnGood
  <1>5. Collects(c, Task(c))'
    <2>1. PathAt(c)' = PathAt(c) /\ Task(c)' = info[c]
      BY <1>1, <1>2 DEF PathAt, Task
    <2>2. QED
      BY <1>1, <1>2, <1>4, <2>1 DEF Collects, disk
  <1>6. ConnGood(c)'
    BY <1>1, <1>5 DEF ConnGood
  <1>7. ASSUME NEW d \in Conn, d # c PROVE ConnGood(d)'
    <2>1. CASE Active(d)
      <3>1. PathAt(d) \in Path /\ ConnGood(d) /\ tid[d] # nextTask
        BY <2>1, PathAtType DEF StoreInv, FinalInv, TaskIsMine, TypeOK
      <3>2. Same(PathAt(d))
        BY <1>1, <3>1, DiskSame
      <3>3. QED
        BY <1>1, <1>2, <1>7, <3>1, <3>2, ConnFrame
    <2>2. CASE ~Active(d)
      BY <1>2, <1>7, <2>2 DEF ConnGood, Active, Writing
    <2>3. QED
      BY <2>1, <2>2
  <1>8. QED
    BY <1>3, <1>6, <1>7 DEF StoreInv

-----------------------------------------------------------------------------
(* Blocks and ends.                                                        *)

(* The file of a task that is written to gets longer, or a block again.    *)
LEMMA StoreBlock ==
  ASSUME TypeOK, FinalInv, StoreInv, NEW c \in Conn, Alone(c), Active(c),
         pc[c] \in Writing, tid[c] \in DOMAIN tasks, pc'[c] \in {"blkMeta", "send"},
         info'[c] = info[c], tid'[c] = tid[c], UNCHANGED <<part, meta, final>>,
         \A t \in DOMAIN tasks' : t # tid[c] => tasks'[t] = tasks[t],
         NEW g, data' = [data EXCEPT ![Task(c).file] = g],
         Run(g, info[c].rq.md5), NEW n \in Nat, HasPrefix(g, n, info[c].rq.md5),
         n >= Task(c).received, n <= Size[info[c].rq.md5], g \in File,
         tid[c] \in DOMAIN tasks' => tasks'[tid[c]].received = n,
         pc'[c] = "blkMeta" => n > 0
  PROVE  StoreInv'
  <1> DEFINE p == PathAt(c)  m == info[c].rq.md5  i == Task(c).file
  <1>1. p \in Path /\ m \in Content /\ m # Hole /\ PathAt(c)' = p
    BY PathAtType, NullAssumption DEF PathAt
  <1>2. i = part[p] /\ Collects(c, Task(c)) /\ Task(c).received \in Nat
    BY DEF FinalInv, WritesOwnPart, StoreInv, ConnGood, Writing, TypeOK, FileInfo, Task
  <1>3. i \in Inode /\ part[p] # NoFile
    BY <1>1, <1>2 DEF Collects, TypeOK
  <1>4. data'[i] = g /\ \A j \in Inode : j # i => data'[j] = data[j]
    BY <1>3 DEF TypeOK
  <1>5. \A q \in Path : /\ part[q] \in Inode \cup {NoFile} /\ final[q] \in Inode \cup {NoFile}
                        /\ final[q] # i /\ (q # p => part[q] # i)
    BY <1>1, <1>2, <1>3 DEF TypeOK, FinalInv, OneNamePerFile
  <1>6. \A q \in Path : q # p => Same(q)
    BY <1>4, <1>5 DEF Same
  <1>7. meta[p] # NoMeta /\ meta[p].md5 # Hole =>
          meta[p].md5 = m /\ meta[p].received \in 1 .. Size[m] /\ meta[p].received <= n
    BY <1>1, <1>2, SizeAssumption DEF Collects, StoreInv, PathGood
  <1>8. ASSUME NEW q \in Path, q = p PROVE PathGood(q)'
    <2>1. meta[p] # NoMeta /\ meta[p].md5 # Hole => HasPrefix(g, meta[p].received, m)
      BY <1>1, <1>7, PrefixOfPrefix, SizeAssumption
    <2>2. part'[q] = i /\ data'[i] = g /\ meta'[q] = meta[p]
      BY <1>2, <1>4, <1>8
    <2>3. QED
      BY <1>1, <1>7, <2>1, <2>2 DEF PathGood
  <1>9. ConnGood(c)'
    <2>1. tid[c] \in DOMAIN tasks' => Task(c)'.received = n
      BY DEF Task
    <2>2. part'[p] = i /\ meta'[p] = meta[p]
      BY <1>2
    <2>3. meta[p] # NoMeta => meta[p].md5 = Hole \/ (meta[p].md5 = m /\ meta[p].received <= n)
      BY <1>7
    <2>4. tid[c] \in DOMAIN tasks' => Collects(c, Task(c))'
      BY <1>1, <1>2, <1>3, <1>4, <2>1, <2>2, <2>3 DEF Collects
    <2>5. QED
      BY <2>1, <2>4 DEF ConnGood, Writing
  <1>10. QED
    BY <1>6, <1>8, <1>9, StoreStep

LEMMA StoreTask ==
  ASSUME TypeOK, FinalInv, StoreInv, NEW c \in Conn, BlkStep(c) \/ EndStep(c)
  PROVE  StoreInv'
  <1> USE DEF Goto, Finish, maps
  <1> DEFINE p == PathAt(c)  m == info[c].rq.md5
  <1>a. Alone(c) /\ Active(c)
    BY TaskAlone
  <1>b. info[c] \in FileInfo /\ p \in Path /\ m \in Content /\ m # Hole /\ Size[m] \in Nat \ {0}
    BY <1>a, PathAtType, NullAssumption, SizeAssumption
  <1>c. ConnGood(c) /\ \A q \in Path : PathGood(q)
    BY DEF StoreInv
  <1>d. tid[c] \in DOMAIN tasks => /\ Task(c).rq = info[c].rq /\ PathOf(Task(c).rq) = p
                                   /\ Task(c).received \in Nat
    BY <1>a DEF FinalInv, TaskIsMine, PathAt, TypeOK, FileInfo, Task
  <1>e. ASSUME pc[c] \in Writing, tid[c] \in DOMAIN tasks
        PROVE  /\ Task(c).file = part[p] /\ part[p] \in Inode /\ data[part[p]] \in File
               /\ Collects(c, Task(c))
    BY <1>b, <1>c, <1>e DEF FinalInv, WritesOwnPart, ConnGood, Writing, Collects, TypeOK
  <1>1. ASSUME NEW off \in Offset, BlkWrite(c, off) PROVE StoreInv'
    <2> DEFINE n == IF off + 1 > Task(c).received THEN off + 1 ELSE Task(c).received
               g == WriteAt(data[part[p]], off, m)
    <2>1. /\ pc[c] = "blkWrite" /\ tid[c] \in DOMAIN tasks /\ pc[c] \in Writing
          /\ off \in 0 .. Size[m] - 1
          /\ info'[c] = info[c] /\ tid'[c] = tid[c] /\ UNCHANGED <<part, meta, final>>
      BY <1>1, <1>d DEF BlkWrite, Writing
    <2>2. off \in Nat /\ off + 1 <= Size[m]
      BY <1>b, <2>1
    <2>3. CASE BlockAccepted(c, off)
      <3>1. /\ data' = [data EXCEPT ![Task(c).file] = g] /\ pc'[c] = "blkMeta"
            /\ \A t \in DOMAIN tasks' : t # tid[c] => tasks'[t] = tasks[t]
            /\ tasks'[tid[c]].received = n
        BY <1>1, <1>d, <1>e, <2>1, <2>3 DEF BlkWrite, TypeOK, FileInfo, Task
      <3>2. /\ Run(data[part[p]], m) /\ HasPrefix(data[part[p]], Task(c).received, m)
            /\ Task(c).received <= Size[m]
        BY <1>e, <2>1 DEF Collects
      <3>3. Run(g, m) /\ HasPrefix(g, n, m)
        BY <1>b, <1>d, <1>e, <2>1, <2>2, <2>3, <3>2, WriteKeepsRun DEF BlockAccepted
      <3>4. g \in File
        BY <1>b, <1>e, <2>1, <2>2, WriteAtType
      <3>5. n \in Nat /\ n > 0 /\ n >= Task(c).received /\ n <= Size[m]
        BY <1>b, <1>d, <2>1, <2>2, <3>2
      <3> HIDE DEF n, g
      <3>6. QED
        BY <1>a, <2>1, <3>1, <3>3, <3>4, <3>5, StoreBlock
    <2>4. CASE ~BlockAccepted(c, off)
      <3>1. UNCHANGED <<disk, tasks>> /\ pc'[c] = "send"
        BY <1>1, <2>1, <2>4 DEF BlkWrite, TypeOK, disk
      <3>2. Collects(c, Task(c))'
        BY <1>e, <2>1, <3>1 DEF Collects, PathAt, Task, disk
      <3>3. ConnGood(c)'
        BY <3>1, <3>2 DEF ConnGood
      <3>4. QED
        BY <1>a, <3>1, <3>3, DiskSame, StoreStep
    <2>5. QED
      BY <2>3, <2>4
  <1>2. CASE BlkWriteFails(c)
    <2>1. /\ pc[c] = "blkWrite" /\ tid[c] \in DOMAIN tasks /\ pc[c] \in Writing
          /\ info'[c] = info[c] /\ tid'[c] = tid[c] /\ pc'[c] = "send"
          /\ UNCHANGED <<part, meta, final, tasks>>
      BY <1>2 DEF BlkWriteFails, Writing, TypeOK
    <2>2. CASE UNCHANGED data
      <3>1. Collects(c, Task(c))'
        BY <1>e, <2>1, <2>2 DEF Collects, PathAt, Task
      <3>2. ConnGood(c)'
        BY <2>1, <3>1 DEF ConnGood
      <3>3. UNCHANGED disk
        BY <1>2, <2>2 DEF BlkWriteFails, disk
      <3>4. QED
        BY <1>a, <2>1, <3>2, <3>3, DiskSame, StoreStep
    <2>3. CASE /\ Task(c).received = Len(data[Task(c).file])
               /\ data' = [data EXCEPT ![Task(c).file] = Append(@, Hole)]
      <3> DEFINE f == data[part[p]]  g == Append(f, Hole)
      <3>1. f \in File /\ HasPrefix(f, Len(f), m) /\ Task(c).received = Len(f)
            /\ Task(c).received <= Size[m]
        BY <1>e, <2>1, <2>3 DEF Collects
      <3>2. Run(g, m) /\ HasPrefix(g, Task(c).received, m) /\ g \in File
        BY <1>b, <3>1, TornKeepsRun DEF File
      <3>3. data' = [data EXCEPT ![Task(c).file] = g]
        BY <1>e, <2>1, <2>3
      <3>4. /\ tasks'[tid[c]].received = Task(c).received /\ Task(c).received >= Task(c).received
            /\ \A t \in DOMAIN tasks' : t # tid[c] => tasks'[t] = tasks[t]
        BY <1>d, <2>1 DEF Task
      <3> HIDE DEF f, g
      <3>5. QED
        BY <1>a, <1>d, <2>1, <3>1, <3>2, <3>3, <3>4, StoreBlock
    <2>4. QED
      BY <1>2, <2>2, <2>3 DEF BlkWriteFails
  <1>3. CASE BlkMeta(c)
    <2> DEFINE n == Task(c).received
    <2>1. /\ pc[c] = "blkMeta" /\ tid[c] \in DOMAIN tasks /\ pc[c] \in Writing
          /\ info'[c] = info[c] /\ tid'[c] = tid[c] /\ pc'[c] = "blkBusy"
          /\ UNCHANGED <<part, data, final, tasks>>
      BY <1>3 DEF BlkMeta, Writing, TypeOK
    <2>2. /\ \A q \in Path : q # p => meta'[q] = meta[q]
          /\ \/ meta'[p] = [md5 |-> m, received |-> n]
             \/ meta'[p] = [md5 |-> Hole, received |-> 0]
             \/ meta'[p] = meta[p]
      BY <1>3, <1>b, <1>d DEF BlkMeta, TypeOK
    <2>3. /\ Collects(c, Task(c)) /\ Task(c)' = Task(c) /\ PathAt(c)' = p
          /\ n \in 1 .. Size[m]
      BY <1>b, <1>c, <1>d, <1>e, <2>1 DEF ConnGood, PathAt, Task, Collects
    <2>4. \A q \in Path : q # p => Same(q)
      BY <2>1, <2>2 DEF Same
    <2>5. ASSUME NEW q \in Path, q = p PROVE PathGood(q)'
      <3>1. part'[q] = part[p] /\ data' = data /\ meta'[q] = meta'[p] /\ PathGood(q)
        BY <1>c, <2>1, <2>5
      <3>2. CASE meta'[p] = [md5 |-> m, received |-> n]
        BY <1>b, <2>3, <3>1, <3>2 DEF PathGood, Collects
      <3>3. CASE meta'[p] = [md5 |-> Hole, received |-> 0]
        BY <2>5, <3>1, <3>3 DEF PathGood
      <3>4. CASE meta'[p] = meta[p]
        BY <2>5, <3>1, <3>4 DEF PathGood
      <3>5. QED
        BY <2>2, <3>2, <3>3, <3>4
    <2>6. Collects(c, Task(c))'
      BY <1>b, <2>1, <2>2, <2>3 DEF Collects
    <2>7. ConnGood(c)'
      BY <2>1, <2>6 DEF ConnGood
    <2>8. QED
      BY <1>a, <2>1, <2>4, <2>5, <2>7, StoreStep
  <1>4. CASE BlkBusy(c)
    <2>1. /\ UNCHANGED <<disk, tasks, info, tid>> /\ pc[c] \in Writing /\ pc'[c] = "send"
          /\ tid[c] \in DOMAIN tasks
      BY <1>4 DEF BlkBusy, TypeOK, Writing
    <2>2. Collects(c, Task(c))'
      BY <1>e, <2>1 DEF Collects, PathAt, Task, disk
    <2>3. ConnGood(c)'
      BY <2>1, <2>2 DEF ConnGood
    <2>4. QED
      BY <1>a, <2>1, <2>3, DiskSame, StoreStep
  <1>5. CASE EndRename(c)
    <2>1. /\ tid[c] \in DOMAIN tasks /\ pc[c] = "endRename" /\ pc'[c] = "endDropMeta"
          /\ part[p] # NoFile /\ UNCHANGED <<data, meta, tasks>> /\ info'[c] = info[c]
          /\ \A q \in Path : final'[q] = (IF q = p THEN part[p] ELSE final[q])
          /\ \A q \in Path : part'[q] = (IF q = p THEN NoFile ELSE part[q])
      BY <1>5, <1>d DEF EndRename, TypeOK
    <2>2. data[part[p]] = Whole(m) /\ PathAt(c)' = p
      BY <2>1 DEF FinalInv, RenamesVerified, PathAt
    <2>3. Published(c)'
      BY <1>b, <2>1, <2>2 DEF Published
    <2>4. ConnGood(c)'
      BY <2>1, <2>3 DEF ConnGood, Writing
    <2>5. \A q \in Path : Same(q) \/ (q = p /\ PathGood(q)')
      BY <1>c, <2>1 DEF Same, PathGood
    <2>6. QED
      BY <1>a, <2>1, <2>4, <2>5, StoreStep
  <1>6. CASE BadPart(c)
    <2>1. /\ UNCHANGED <<data, meta, final, tasks>>
          /\ \A q \in Path : part'[q] = (IF q = p THEN NoFile ELSE part[q])
      BY <1>6, <1>d DEF BadPart, TypeOK
    <2>2. Plain(c)
      BY <1>6 DEF BadPart, Plain, TypeOK, Writing
    <2>3. \A q \in Path : Same(q) \/ (q = p /\ PathGood(q)')
      BY <1>c, <2>1 DEF Same, PathGood
    <2>4. QED
      BY <1>a, <2>1, <2>2, <2>3, PlainGood, StoreStep
  <1>7. CASE EndDropMeta(c) \/ BadMeta(c)
    <2>1. /\ UNCHANGED <<data, part, final, tasks, info, tid>> /\ tid[c] \in DOMAIN tasks
          /\ \A q \in Path : meta'[q] = (IF q = p THEN NoMeta ELSE meta[q])
      BY <1>7, <1>d DEF EndDropMeta, BadMeta, TypeOK
    <2>2. \A q \in Path : Same(q) \/ (q = p /\ PathGood(q)')
      BY <1>c, <2>1 DEF Same, PathGood
    <2>3. ConnGood(c)'
      <3>1. CASE BadMeta(c)
        <4>1. Plain(c)
          BY <3>1 DEF BadMeta, Plain, TypeOK, Writing
        <4>2. QED
          BY <4>1, PlainGood
      <3>2. CASE EndDropMeta(c)
        <4>1. pc[c] = "endDropMeta" /\ pc'[c] = "endRow" /\ Published(c)
          BY <1>c, <2>1, <3>2 DEF EndDropMeta, TypeOK, ConnGood
        <4>2. Published(c)'
          BY <1>b, <2>1, <4>1 DEF Published, PathAt
        <4>3. QED
          BY <4>1, <4>2 DEF ConnGood, Writing
      <3>3. QED
        BY <1>7, <3>1, <3>2
    <2>4. QED
      BY <1>a, <2>1, <2>2, <2>3, StoreStep
  <1>8. CASE EndRow(c)
    <2>1. /\ UNCHANGED <<data, part, meta, final, tasks, info, tid>>
          /\ pc[c] = "endRow" /\ pc'[c] = "endIndex" /\ tid[c] \in DOMAIN tasks
      BY <1>8 DEF EndRow, TypeOK
    <2>2. \A q \in Path : Same(q)
      BY <2>1 DEF Same
    <2>3. Published(c)
      BY <1>c, <2>1 DEF ConnGood
    <2>4. Published(c)'
      BY <2>1, <2>3 DEF Published, PathAt
    <2>5. ConnGood(c)'
      BY <2>1, <2>4 DEF ConnGood, Writing
    <2>6. QED
      BY <1>a, <2>1, <2>2, <2>5, StoreStep
  <1>9. CASE EndUnknown(c) \/ EndMd5(c) \/ EndRenameFails(c) \/ EndIndex(c) \/ CleanupTask(c)
    <2>1. UNCHANGED disk /\ Plain(c)
      BY <1>9 DEF EndUnknown, EndMd5, EndRenameFails, EndIndex, CleanupTask, Plain, TypeOK, Writing
    <2>2. \A t \in DOMAIN tasks' : tasks'[t] = tasks[t]
      BY <1>9 DEF EndUnknown, EndMd5, EndRenameFails, EndIndex, CleanupTask
    <2>3. QED
      BY <1>a, <2>1, <2>2, PlainGood, DiskSame, StoreStep
  <1>10. QED
    BY <1>1, <1>2, <1>3, <1>4, <1>5, <1>6, <1>7, <1>8, <1>9 DEF BlkStep, EndStep

LEMMA StoreNext == TypeOK /\ FinalInv /\ StoreInv /\ [Next]_vars => StoreInv'
  <1> SUFFICES ASSUME TypeOK, FinalInv, StoreInv, [Next]_vars PROVE StoreInv'
    OBVIOUS
  <1>1. ASSUME NEW k \in Key, Expire(k) PROVE StoreInv'
    BY <1>1, StoreFrame DEF Expire
  <1>2. CASE UNCHANGED vars
    BY <1>2, StoreFrame DEF vars, maps
  <1>3. QED
    BY <1>1, <1>2, StoreClient, StoreRequest, StoreReg, StoreTask, StoreRestart
       DEF Next, UseFreed, Crash

Good == TypeOK /\ FinalInv /\ StoreInv

LEMMA StoreAlways == ASSUME Exclusive PROVE Spec => []Good
  <1>1. TypeOK /\ FinalInv /\ [Next]_vars => FinalInv'
    BY FinalNext
  <1>2. QED
    BY InitFinal, InitStore, TypeCorrect, StoreNext, <1>1, PTL DEF Spec, Good

-----------------------------------------------------------------------------
(* The counts.                                                             *)

(* A .meta with a .part beside it is believed in full.                     *)
MetaBelieved ==
  \A p \in Path, m \in Content :
    /\ Progress(p, m) = IF meta[p] # NoMeta /\ meta[p].md5 = m /\ part[p] # NoFile
                        THEN meta[p].received ELSE 0
    /\ Progress(p, m) \in Nat
    /\ Progress(p, m) > 0 => HasPrefix(data[part[p]], Progress(p, m), m)

LEMMA ProgressIs == TypeOK /\ StoreInv => MetaBelieved
  <1> SUFFICES ASSUME TypeOK, StoreInv, NEW p \in Path, NEW m \in Content
               PROVE  /\ Progress(p, m) = IF meta[p] # NoMeta /\ meta[p].md5 = m /\ part[p] # NoFile
                                          THEN meta[p].received ELSE 0
                      /\ Progress(p, m) \in Nat
                      /\ Progress(p, m) > 0 => HasPrefix(data[part[p]], Progress(p, m), m)
    BY DEF MetaBelieved
  <1>1. CASE meta[p] # NoMeta /\ meta[p].md5 = m /\ part[p] # NoFile
    <2>1. HasPrefix(data[part[p]], meta[p].received, m) /\ meta[p].received \in Nat
      BY <1>1, NullAssumption DEF StoreInv, PathGood, TypeOK, Meta
    <2>2. Len(data[part[p]]) \in Nat
      BY <1>1 DEF TypeOK, File
    <2>3. QED
      BY <1>1, <2>1, <2>2 DEF Progress, Least, HasPrefix
  <1>2. CASE ~(meta[p] # NoMeta /\ meta[p].md5 = m /\ part[p] # NoFile)
    BY <1>2 DEF Progress
  <1>3. QED
    BY <1>1, <1>2

(* Both counts of progress are true at every moment, for any number of      *)
(* connections, contents, torn writes, unreadable .meta files and restarts, *)
(* while uploads share no path: the bytes a task counts, and the bytes a    *)
(* .meta promises to a resume, are in the .part, without a gap.             *)
THEOREM CountsTrue == ASSUME Exclusive PROVE Spec => []CountsAreTrue
  <1>1. Good => CountsAreTrue
    <2> SUFFICES ASSUME TypeOK, FinalInv, StoreInv PROVE CountsAreTrue
      BY DEF Good
    <2>1. ASSUME NEW c \in Conn, pc[c] \in Writing, tid[c] \in DOMAIN tasks
          PROVE  /\ part[PathAt(c)] = Task(c).file
                 /\ HasPrefix(data[Task(c).file], Task(c).received, Task(c).rq.md5)
      <3>1. Task(c).rq = info[c].rq /\ part[PathAt(c)] = Task(c).file
        BY <2>1 DEF FinalInv, TaskIsMine, WritesOwnPart, Writing, Active
      <3>2. Collects(c, Task(c))
        BY <2>1 DEF StoreInv, ConnGood
      <3>3. QED
        BY <3>1, <3>2 DEF Collects
    <2>2. QED
      BY <2>1, ProgressIs DEF MetaBelieved, CountsAreTrue, Writing
  <1>2. QED
    BY StoreAlways, <1>1, PTL

-----------------------------------------------------------------------------
(* Which connection a step moves.                                          *)

LEMMA OneMoves ==
  ASSUME TypeOK, Next, NEW c \in Conn, pc'[c] # pc[c], ~Restart
  PROVE  Client(c) \/ RqStep(c) \/ BlkStep(c) \/ EndStep(c)
  <1> USE DEF Goto, Finish
  <1>0. pc \in [Conn -> Pc]
    BY DEF TypeOK
  <1>1. ASSUME NEW d \in Conn, d # c, Client(d) PROVE pc'[c] = pc[c]
    BY <1>0, <1>1 DEF Client, Accept, Request, Cancel, Disconnect, BlkLookup, EndLookup
  <1>2. ASSUME NEW d \in Conn, d # c, RqStep(d) PROVE pc'[c] = pc[c]
    BY <1>2, RequestKeeps
  <1>3. ASSUME NEW d \in Conn, d # c, BlkStep(d) PROVE pc'[c] = pc[c]
    BY <1>0, <1>3 DEF BlkStep, BlkWrite, BlkWriteFails, BlkMeta, BlkBusy
  <1>4. ASSUME NEW d \in Conn, d # c, EndStep(d) PROVE pc'[c] = pc[c]
    BY <1>0, <1>4 DEF EndStep, EndUnknown, EndMd5, EndRename, EndRenameFails, EndDropMeta, EndRow,
                EndIndex, BadPart, BadMeta, CleanupTask
  <1>5. QED
    BY <1>1, <1>2, <1>3, <1>4 DEF Next, OnClientDisconnect, UseFreed, Expire, Crash

(* The upload that is answered as complete stands on the disk, whole, under *)
(* its final name, and no .part or .meta of it is left: nothing that other  *)
(* connections, clean-ups or restarts do between the md5 comparison and the *)
(* answer undoes it, while uploads share no path.                           *)
THEOREM SuccessIsPublished == ASSUME Exclusive PROVE Spec => SuccessPublishes
  <1> DEFINE Done(c) ==
        pc[c] = "endIndex" /\ pc'[c] = "endClean" =>
          LET p == PathAt(c) IN
          /\ final[p] # NoFile /\ data[final[p]] = Whole(info[c].rq.md5)
          /\ part[p] = NoFile /\ meta[p] = NoMeta
  <1>1. Good /\ [Next]_vars => [\A c \in Conn : Done(c)]_vars
    <2> SUFFICES ASSUME TypeOK, StoreInv, Next, NEW c \in Conn,
                        pc[c] = "endIndex", pc'[c] = "endClean"
                 PROVE  LET p == PathAt(c) IN
                        /\ final[p] # NoFile /\ data[final[p]] = Whole(info[c].rq.md5)
                        /\ part[p] = NoFile /\ meta[p] = NoMeta
      BY DEF Good
    <2>1. ~Restart
      BY DEF Restart
    <2>2. EndIndex(c)
      BY <2>1, OneMoves
         DEF Client, Accept, Request, Cancel, Disconnect, BlkLookup, EndLookup,
             RqStep, RqInstant, RqBusy, RqNoUser, RqMeta, RqResume, RqDropMeta, RqDropPart,
             RqNew, RqNewFails, RqReg, BlkStep, BlkWrite, BlkWriteFails, BlkMeta, BlkBusy,
             EndStep, EndUnknown, EndMd5, EndRename, EndRenameFails, EndDropMeta, EndRow,
             BadPart, BadMeta, CleanupTask
    <2>3. Published(c)
      BY <2>2 DEF EndIndex, StoreInv, ConnGood
    <2>4. QED
      BY <2>3 DEF Published
  <1>2. QED
    BY StoreAlways, <1>1, PTL DEF Spec, SuccessPublishes

-----------------------------------------------------------------------------
(* Progress.                                                               *)

(* The steps that take a .meta or a .part away, or replace it.             *)
LEMMA MetaOrPartBy ==
  ASSUME TypeOK, FinalInv, Next, NEW p \in Path, ~(meta'[p] = meta[p] /\ part'[p] = part[p])
  PROVE  \E c \in Conn :
           /\ Active(c) /\ PathAt(c) = p
           /\ \/ RqResume(c) \/ RqDropMeta(c) \/ RqDropPart(c) \/ RqNew(c)
              \/ BlkMeta(c) \/ EndRename(c) \/ EndDropMeta(c) \/ BadPart(c) \/ BadMeta(c)
  <1> DEFINE Dropping(c) == RqResume(c) \/ RqDropMeta(c) \/ RqDropPart(c) \/ RqNew(c)
             Ending(c) == BlkMeta(c) \/ EndRename(c) \/ EndDropMeta(c) \/ BadPart(c) \/ BadMeta(c)
  <1> USE DEF Goto, Finish, maps, disk
  <1>0. /\ meta \in [Path -> Meta \cup {NoMeta}] /\ part \in [Path -> Inode \cup {NoFile}]
    BY DEF TypeOK
  <1>1. PICK c \in Conn : Dropping(c) \/ Ending(c)
    <2>1. ASSUME NEW c \in Conn, RqStep(c), ~Dropping(c) PROVE FALSE
      BY <2>1 DEF RqStep, RqInstant, RqBusy, RqNoUser, RqMeta, RqNewFails, RqReg
    <2>2. ASSUME NEW c \in Conn, Client(c) \/ OnClientDisconnect(c) PROVE FALSE
      BY <2>2 DEF Client, Accept, Request, Cancel, Disconnect, BlkLookup, EndLookup,
                  OnClientDisconnect
    <2>3. ASSUME NEW c \in Conn, BlkStep(c) \/ EndStep(c), ~Ending(c) PROVE FALSE
      BY <2>3 DEF BlkStep, EndStep, BlkWrite, BlkWriteFails, BlkBusy, EndUnknown, EndMd5,
                  EndRenameFails, EndRow, EndIndex, CleanupTask
    <2>4. ASSUME Restart \/ \E k \in Key : Expire(k) PROVE FALSE
      BY <2>4 DEF Restart, Expire
    <2>5. QED
      BY <2>1, <2>2, <2>3, <2>4 DEF Next, UseFreed, Crash
  <1>2. CASE Dropping(c)
    BY <1>0, <1>2 DEF RqResume, RqDropMeta, RqDropPart, RqNew, Active
  <1>3. CASE Ending(c)
    <2>1. Active(c) /\ tid[c] \in DOMAIN tasks
      BY <1>3 DEF BlkMeta, EndRename, EndDropMeta, BadPart, BadMeta, Active
    <2>2. PathOf(Task(c).rq) = PathAt(c)
      BY <2>1 DEF FinalInv, TaskIsMine, PathAt
    <2>3. QED
      BY <1>0, <1>3, <2>1, <2>2 DEF BlkMeta, EndRename, EndDropMeta, BadPart, BadMeta
  <1>4. QED
    BY <1>1, <1>2, <1>3

(* On a disk that does not fail, nothing but the end of an upload and a     *)
(* request for another content takes back a block that could be resumed     *)
(* from: no cancel, broken connection, clean-up, restart, lock, or repeated *)
(* or reordered block.  (A .part that cannot be opened is given up, so the  *)
(* assumption on the disk is needed.)                                       *)
THEOREM ProgressIsKept == ASSUME Exclusive, ~DiskFaults PROVE Spec => ProgressKept
  <1> DEFINE Kept ==
        \A p \in Path, m \in Content :
          Progress(p, m)' < Progress(p, m) =>
            \E c \in Conn :
              /\ Active(c) /\ PathAt(c) = p
              /\ \/ pc[c] \in {"endRename", "badPart", "badMeta"}
                 \/ pc[c] = "rqDropMeta" /\ info[c].rq.md5 # m
  <1>1. Good /\ Good' /\ [Next]_vars => [Kept]_vars
    <2> SUFFICES ASSUME Good, Good', Next, NEW p \in Path, NEW m \in Content,
                        Progress(p, m)' < Progress(p, m)
                 PROVE  \E c \in Conn :
                          /\ Active(c) /\ PathAt(c) = p
                          /\ \/ pc[c] \in {"endRename", "badPart", "badMeta"}
                             \/ pc[c] = "rqDropMeta" /\ info[c].rq.md5 # m
      OBVIOUS
    <2>1. MetaBelieved /\ TypeOK /\ FinalInv /\ StoreInv
      BY ProgressIs DEF Good
    <2>2. MetaBelieved'
      <3>1. Good' => MetaBelieved'
        BY ProgressIs, PTL DEF Good
      <3>2. QED
        BY <3>1
    <2>3. /\ meta[p] # NoMeta /\ meta[p].md5 = m /\ part[p] # NoFile
          /\ ~(meta'[p] = meta[p] /\ part'[p] = part[p])
          /\ ~(part'[p] # NoFile /\ meta'[p] # NoMeta /\ meta'[p].md5 = m
               /\ meta'[p].received >= meta[p].received)
      BY <2>1, <2>2 DEF MetaBelieved
    <2>4. PICK c \in Conn :
           /\ Active(c) /\ PathAt(c) = p
           /\ \/ RqResume(c) \/ RqDropMeta(c) \/ RqDropPart(c) \/ RqNew(c)
              \/ BlkMeta(c) \/ EndRename(c) \/ EndDropMeta(c) \/ BadPart(c) \/ BadMeta(c)
      BY <2>1, <2>3, MetaOrPartBy
    <2>5. ConnGood(c) /\ meta[p] \in Meta
      BY <2>1, <2>3 DEF StoreInv, TypeOK
    <2>6. CASE RqResume(c)
      BY <2>3, <2>4, <2>6 DEF RqResume
    <2>7. CASE RqDropMeta(c)
      BY <2>3, <2>4, <2>5, <2>7 DEF RqDropMeta, ConnGood
    <2>8. CASE RqDropPart(c) \/ RqNew(c)
      BY <2>3, <2>4, <2>5, <2>8 DEF RqDropPart, RqNew, ConnGood
    <2>9. CASE BlkMeta(c)
      <3>1. /\ pc[c] \in Writing /\ tid[c] \in DOMAIN tasks /\ part' = part
            /\ meta' = [meta EXCEPT ![PathOf(Task(c).rq)] =
                          [md5 |-> Task(c).rq.md5, received |-> Task(c).received]]
               \/ meta' = meta
        BY <2>9 DEF BlkMeta, Writing
      <3>2. Task(c).rq = info[c].rq /\ PathOf(Task(c).rq) = p
        BY <2>1, <2>4, <3>1 DEF FinalInv, TaskIsMine, PathAt
      <3>3. /\ meta'[p] = [md5 |-> info[c].rq.md5, received |-> Task(c).received]
            /\ part'[p] = part[p]
        BY <2>1, <2>3, <3>1, <3>2 DEF TypeOK
      <3>4. Collects(c, Task(c))
        BY <2>5, <3>1 DEF ConnGood
      <3>5. meta[p].md5 # Hole /\ Task(c).received \in Nat /\ meta[p].received \in Nat
        BY <2>1, <2>3, <2>5, <3>1, NullAssumption DEF Meta, TypeOK, FileInfo, Task
      <3>6. meta'[p] # NoMeta
        BY <3>3, <3>5, <2>1, <2>4, PathAtType, MetaAssumption DEF Meta
      <3>7. QED
        BY <2>3, <2>4, <3>3, <3>4, <3>5, <3>6 DEF Collects
    <2>10. CASE EndDropMeta(c)
      BY <2>3, <2>4, <2>5, <2>10 DEF EndDropMeta, ConnGood, Published
    <2>11. CASE EndRename(c) \/ BadPart(c) \/ BadMeta(c)
      BY <2>4, <2>11 DEF EndRename, BadPart, BadMeta
    <2>12. QED
      BY <2>4, <2>6, <2>7, <2>8, <2>9, <2>10, <2>11
  <1>2. QED
    BY StoreAlways, <1>1, PTL DEF Spec, ProgressKept

-----------------------------------------------------------------------------
(* The store.                                                              *)

(* f is m for n blocks, and nothing but a torn block is behind them.       *)
IsKept(f, m, n) ==
  HasPrefix(f, n, m) /\ (n = Len(f) \/ (n + 1 = Len(f) /\ f[n + 1] = Hole))

LEMMA RunIsKept ==
  ASSUME NEW f \in File, NEW m \in Content, Run(f, m)
  PROVE  \E n \in Nat : IsKept(f, m, n)
  <1>1. Len(f) \in Nat
    BY DEF File
  <1>2. CASE Len(f) = 0 \/ f[Len(f)] = m
    <2>1. HasPrefix(f, Len(f), m)
      BY <1>1, <1>2 DEF Run, HasPrefix
    <2>2. QED
      BY <1>1, <2>1 DEF IsKept
  <1>3. CASE Len(f) # 0 /\ f[Len(f)] # m
    <2>1. Len(f) - 1 \in Nat /\ Len(f) - 1 <= Len(f) /\ Len(f) - 1 + 1 = Len(f)
      BY <1>1, <1>3
    <2>2. Len(f) \in 1 .. Len(f)
      BY <1>1, <1>3
    <2>3. f[Len(f)] = Hole
      BY <1>3, <2>2 DEF Run
    <2>4. \A i \in 1 .. Len(f) - 1 : f[i] = m
      BY <1>1, <1>3 DEF Run
    <2>5. IsKept(f, m, Len(f) - 1)
      BY <2>1, <2>3, <2>4 DEF IsKept, HasPrefix
    <2>6. QED
      BY <2>1, <2>5
  <1>4. QED
    BY <1>2, <1>3

(* A block that is accepted is the next one kept, or one that is there.    *)
LEMMA WriteIsKept ==
  ASSUME NEW f \in File, NEW m \in Content, NEW n \in Nat, IsKept(f, m, n),
         NEW off \in 0 .. n
  PROVE  IsKept(WriteAt(f, off, m), m, IF off = n THEN n + 1 ELSE n)
  <1> DEFINE g == WriteAt(f, off, m)
             l == IF off < Len(f) THEN Len(f) ELSE off + 1
             k == IF off = n THEN n + 1 ELSE n
  <1>1. Len(f) \in Nat /\ off \in Nat /\ n <= Len(f)
    BY DEF File, IsKept, HasPrefix
  <1>2. Len(g) = l
    BY <1>1, WriteAtType
  <1>3. \A i \in 1 .. l : g[i] = IF i = off + 1 THEN m ELSE IF i <= Len(f) THEN f[i] ELSE Hole
    BY DEF WriteAt
  <1>4. k \in Nat /\ k <= l
    BY <1>1
  <1>5. \A i \in 1 .. k : i \in 1 .. l /\ g[i] = m
    BY <1>1, <1>3 DEF IsKept, HasPrefix
  <1>6. k = l \/ (k + 1 = l /\ g[k + 1] = Hole)
    <2>1. CASE off = n
      BY <1>1, <2>1 DEF IsKept
    <2>2. CASE off # n /\ n = Len(f)
      BY <1>1, <2>2
    <2>3. CASE off # n /\ n + 1 = Len(f) /\ f[n + 1] = Hole
      BY <1>1, <1>3, <2>3
    <2>4. QED
      BY <2>1, <2>2, <2>3 DEF IsKept
  <1> HIDE DEF g, l, k
  <1>7. IsKept(g, m, k)
    BY <1>2, <1>4, <1>5, <1>6 DEF IsKept, HasPrefix
  <1>8. QED
    BY <1>7 DEF g, k

LEMMA TornIsKept ==
  ASSUME NEW f \in File, NEW m \in Content, HasPrefix(f, Len(f), m)
  PROVE  IsKept(f, m, Len(f)) /\ IsKept(Append(f, Hole), m, Len(f))
  BY DEF IsKept, HasPrefix, File

Blocks(m, n) == IF n = 0 THEN [md5 |-> Hole, n |-> 0] ELSE [md5 |-> m, n |-> n]
KeptOf(f) ==
  IF f = << >> \/ f[1] = Hole THEN [md5 |-> Hole, n |-> 0]
  ELSE [md5 |-> f[1],
        n |-> CHOOSE n \in 0 .. Len(f) :
                HasPrefix(f, n, f[1]) /\ (n = Len(f) \/ f[n + 1] # f[1])]

(* What the store keeps of a run: its blocks.                              *)
LEMMA KeptIs ==
  ASSUME NEW f \in File, NEW m \in Content, NEW n \in Nat, IsKept(f, m, n)
  PROVE  KeptOf(f) = Blocks(m, n)
  <1> USE DEF Blocks
  <1> DEFINE Upto(j) == HasPrefix(f, j, f[1]) /\ (j = Len(f) \/ f[j + 1] # f[1])
  <1>1. Len(f) \in Nat /\ n <= Len(f) /\ (f = << >> <=> Len(f) = 0)
    BY DEF File, IsKept, HasPrefix
  <1>2. CASE n = 0
    <2>1. f = << >> \/ f[1] = Hole
      BY <1>1, <1>2 DEF IsKept
    <2>2. QED
      BY <1>2, <2>1 DEF KeptOf
  <1>3. CASE n # 0
    <2>1. f[1] = m /\ f # << >> /\ m # Hole
      BY <1>1, <1>3, NullAssumption DEF IsKept, HasPrefix
    <2>2. n \in 0 .. Len(f) /\ Upto(n)
      BY <1>1, <2>1 DEF IsKept
    <2>3. ASSUME NEW j \in 0 .. Len(f), Upto(j) PROVE j = n
      <3>1. CASE j < n
        BY <1>1, <2>1, <2>3, <3>1 DEF IsKept, HasPrefix
      <3>2. CASE j > n
        BY <1>1, <2>1, <2>3, <3>2 DEF IsKept, HasPrefix
      <3>3. QED
        BY <3>1, <3>2
    <2>4. (CHOOSE j \in 0 .. Len(f) : Upto(j)) = n
      BY <2>2, <2>3
    <2>5. KeptOf(f) = [md5 |-> f[1], n |-> CHOOSE j \in 0 .. Len(f) : Upto(j)]
      BY <1>3, <2>1 DEF KeptOf
    <2>6. QED
      BY <1>3, <2>1, <2>4, <2>5
  <1>4. QED
    BY <1>2, <1>3

LEMMA KeptAtOf == ASSUME NEW p, part[p] # NoFile PROVE KeptAt(p) = KeptOf(data[part[p]])
  BY DEF KeptAt, KeptOf

-----------------------------------------------------------------------------
(* The steps of the store.                                                 *)

StoredAt(p) == IF final[p] = NoFile THEN << >> ELSE data[final[p]]

LEMMA SameKept == ASSUME NEW p, Same(p) PROVE KeptAt(p)' = KeptAt(p) /\ StoredAt(p)' = StoredAt(p)
  BY DEF Same, KeptAt, StoredAt

(* Nothing seen, or the kept blocks of one path are.                       *)
LEMMA StoreStays ==
  ASSUME \A q \in Path : KeptAt(q)' = KeptAt(q) /\ StoredAt(q)' = StoredAt(q)
  PROVE  UNCHANGED Store!vars
  BY DEF Store!vars, StoredAt

LEMMA StoreGivesUp ==
  ASSUME NEW p \in Path,
         \A q \in Path : StoredAt(q)' = StoredAt(q) /\ (q # p => KeptAt(q)' = KeptAt(q)),
         \A q \in Path : q = p => KeptAt(q)' = [md5 |-> Hole, n |-> 0]
  PROVE  Store!Next
  <1>1. [q \in Path |-> StoredAt(q)]' = [q \in Path |-> StoredAt(q)]
    OBVIOUS
  <1>2. [q \in Path |-> KeptAt(q)]' = [[q \in Path |-> KeptAt(q)] EXCEPT ![p] = Store!None]
    BY DEF Store!None
  <1>3. Store!GiveUp(p)
    BY <1>1, <1>2 DEF Store!GiveUp, StoredAt
  <1>4. QED
    BY <1>3 DEF Store!Next

LEMMA StoreKeeps ==
  ASSUME NEW p \in Path, NEW m \in Content, NEW n \in Nat, n < Size[m],
         KeptAt(p) = Blocks(m, n),
         \A q \in Path : StoredAt(q)' = StoredAt(q) /\ (q # p => KeptAt(q)' = KeptAt(q)),
         \A q \in Path : q = p => KeptAt(q)' = Blocks(m, n + 1)
  PROVE  Store!Next
  <1>1. [q \in Path |-> StoredAt(q)]' = [q \in Path |-> StoredAt(q)]
    OBVIOUS
  <1>2. /\ KeptAt(p).n = n /\ (KeptAt(p) = Store!None \/ KeptAt(p).md5 = m)
        /\ Blocks(m, n + 1) = [md5 |-> m, n |-> n + 1]
    BY DEF Store!None, Blocks
  <1>3. [q \in Path |-> KeptAt(q)]' =
          [[q \in Path |-> KeptAt(q)] EXCEPT ![p] = [md5 |-> m, n |-> KeptAt(p).n + 1]]
    BY <1>2
  <1>4. Store!Keep(p, m)
    BY <1>1, <1>2, <1>3 DEF Store!Keep, StoredAt
  <1>5. QED
    BY <1>4 DEF Store!Next

LEMMA StorePublishes ==
  ASSUME NEW p \in Path, NEW m \in Content,
         KeptAt(p) = [md5 |-> m, n |-> Size[m]],
         \A q \in Path : q # p => StoredAt(q)' = StoredAt(q) /\ KeptAt(q)' = KeptAt(q),
         \A q \in Path : q = p => /\ KeptAt(q)' = [md5 |-> Hole, n |-> 0]
                                  /\ StoredAt(q)' = Whole(m)
  PROVE  Store!Next
  <1>1. [q \in Path |-> StoredAt(q)]' = [[q \in Path |-> StoredAt(q)] EXCEPT ![p] = Whole(m)]
    OBVIOUS
  <1>2. [q \in Path |-> KeptAt(q)]' = [[q \in Path |-> KeptAt(q)] EXCEPT ![p] = Store!None]
    BY DEF Store!None
  <1>3. Store!Publish(p, m)
    BY <1>1, <1>2 DEF Store!Publish, StoredAt, Whole
  <1>4. QED
    BY <1>3 DEF Store!Next

(* The steps that write to files or names.                                 *)
LEMMA FilesBy ==
  ASSUME Next, ~UNCHANGED <<data, part, final>>
  PROVE  \E c \in Conn :
           \/ RqDropPart(c) \/ RqNew(c) \/ EndRename(c) \/ BadPart(c)
           \/ BlkWriteFails(c) \/ \E off \in Offset : BlkWrite(c, off)
  <1> DEFINE Files(c) ==
               \/ RqDropPart(c) \/ RqNew(c) \/ EndRename(c) \/ BadPart(c)
               \/ BlkWriteFails(c) \/ \E off \in Offset : BlkWrite(c, off)
  <1> USE DEF disk
  <1>1. ASSUME NEW c \in Conn, RqStep(c), ~Files(c) PROVE FALSE
    BY <1>1 DEF RqStep, RqInstant, RqBusy, RqNoUser, RqMeta, RqResume, RqDropMeta, RqNewFails,
                RqReg
  <1>2. ASSUME NEW c \in Conn, Client(c) \/ OnClientDisconnect(c) PROVE FALSE
    BY <1>2 DEF Client, Accept, Request, Cancel, Disconnect, BlkLookup, EndLookup,
                OnClientDisconnect
  <1>3. ASSUME NEW c \in Conn, BlkStep(c) \/ EndStep(c), ~Files(c) PROVE FALSE
    BY <1>3 DEF BlkStep, EndStep, BlkMeta, BlkBusy, EndUnknown, EndMd5, EndRenameFails,
                EndDropMeta, EndRow, EndIndex, BadMeta, CleanupTask
  <1>4. ASSUME Restart \/ \E k \in Key : Expire(k) PROVE FALSE
    BY <1>4 DEF Restart, Expire
  <1>5. QED
    BY <1>1, <1>2, <1>3, <1>4 DEF Next, UseFreed, Crash

(* A block that is accepted is kept, or was.                               *)
LEMMA WriteRefines ==
  ASSUME Good, NEW c \in Conn, NEW off \in Offset, BlkWrite(c, off)
  PROVE  [Store!Next]_(Store!vars)
  <1> DEFINE p == PathAt(c)  m == info[c].rq.md5  f == data[part[p]]  r == Task(c).received
  <1>1. /\ pc[c] \in Writing /\ tid[c] \in DOMAIN tasks /\ Active(c)
        /\ off \in 0 .. Size[Task(c).rq.md5] - 1 /\ UNCHANGED <<part, final>>
    BY DEF BlkWrite, Writing, Active
  <1>2. /\ p \in Path /\ m \in Content /\ Task(c).rq = info[c].rq /\ r \in Nat
        /\ Task(c).file = part[p] /\ Collects(c, Task(c)) /\ Size[m] \in Nat
    BY <1>1, PathAtType, SizeAssumption
       DEF Good, FinalInv, TaskIsMine, WritesOwnPart, StoreInv, ConnGood, Writing, TypeOK,
           FileInfo, Task
  <1>3. part[p] \in Inode /\ part[p] # NoFile /\ f \in File /\ Run(f, m) /\ HasPrefix(f, r, m)
    BY <1>2 DEF Collects, Good, TypeOK
  <1>4. CASE ~BlockAccepted(c, off)
    <2>1. \A q \in Path : KeptAt(q)' = KeptAt(q) /\ StoredAt(q)' = StoredAt(q)
      BY <1>1, <1>4 DEF BlkWrite, KeptAt, StoredAt
    <2>2. QED
      BY <2>1, StoreStays
  <1>5. CASE BlockAccepted(c, off)
    <2>1. off \in Nat /\ off <= r /\ off < Size[m]
      BY <1>1, <1>2, <1>5 DEF BlockAccepted
    <2>2. PICK n \in Nat : IsKept(f, m, n)
      BY <1>2, <1>3, RunIsKept
    <2>3. r <= n
      <3>1. Len(f) \in Nat
        BY <1>3 DEF File
      <3>2. QED
        BY <1>2, <1>3, <2>2, <3>1, NullAssumption DEF IsKept, HasPrefix
    <2>4. /\ data'[part[p]] = WriteAt(f, off, m)
          /\ \A j \in Inode : j # part[p] => data'[j] = data[j]
      BY <1>2, <1>3, <1>5 DEF BlkWrite, Good, TypeOK
    <2>5. \A q \in Path : StoredAt(q)' = StoredAt(q) /\ (q # p => KeptAt(q)' = KeptAt(q))
      <3>1. \A q \in Path : /\ part[q] \in Inode \cup {NoFile} /\ final[q] \in Inode \cup {NoFile}
                            /\ final[q] # part[p] /\ (q # p => part[q] # part[p])
        BY <1>2, <1>3 DEF Good, TypeOK, FinalInv, OneNamePerFile
      <3>2. QED
        <4>1. \A q \in Path : q # p => Same(q)
          BY <1>1, <2>4, <3>1 DEF Same, BlkWrite
        <4>2. \A q \in Path : StoredAt(q)' = StoredAt(q)
          BY <1>1, <2>4, <3>1 DEF StoredAt
        <4>3. QED
          BY <4>1, <4>2, SameKept
    <2>6. KeptAt(p) = Blocks(m, n)
      BY <1>2, <1>3, <2>2, KeptIs, KeptAtOf
    <2>7. ASSUME NEW q \in Path, q = p
          PROVE  KeptAt(q)' = Blocks(m, IF off = n THEN n + 1 ELSE n)
      <3> DEFINE k == IF off = n THEN n + 1 ELSE n
      <3>1. IsKept(data'[part[p]], m, k) /\ data'[part[p]] \in File /\ k \in Nat
        <4>1. off \in 0 .. n
          BY <1>2, <2>1, <2>3
        <4> HIDE DEF f, m
        <4>2. IsKept(WriteAt(f, off, m), m, k)
          BY <1>2, <1>3, <2>2, <4>1, WriteIsKept
        <4>3. WriteAt(f, off, m) \in File
          BY <1>2, <1>3, <2>1, WriteAtType
        <4>4. QED
          BY <2>1, <2>4, <4>2, <4>3 DEF f
      <3>2. part'[q] = part[p] /\ KeptOf(data'[part[p]]) = Blocks(m, k)
        BY <1>1, <1>2, <2>7, <3>1, KeptIs
      <3> HIDE DEF k
      <3>3. KeptAt(q)' = KeptOf(data'[part[p]])
        BY <1>3, <3>2 DEF KeptAt, KeptOf
      <3>4. QED
        BY <3>2, <3>3 DEF k
    <2>8. CASE off = n
      BY <1>2, <2>1, <2>5, <2>6, <2>7, <2>8, StoreKeeps
    <2>9. CASE off # n
      BY <2>5, <2>6, <2>7, <2>9, StoreStays
    <2>10. QED
      BY <2>8, <2>9
  <1>6. QED
    BY <1>4, <1>5

(* A torn block is not kept.                                               *)
LEMMA TornRefines ==
  ASSUME Good, NEW c \in Conn, BlkWriteFails(c)
  PROVE  UNCHANGED Store!vars
  <1> DEFINE p == PathAt(c)  m == info[c].rq.md5  f == data[part[p]]
  <1>1. /\ pc[c] \in Writing /\ tid[c] \in DOMAIN tasks /\ Active(c)
        /\ UNCHANGED <<part, final, meta>>
    BY DEF BlkWriteFails, Writing, Active
  <1>2. /\ p \in Path /\ m \in Content /\ Task(c).file = part[p] /\ Collects(c, Task(c))
    BY <1>1, PathAtType
       DEF Good, FinalInv, WritesOwnPart, StoreInv, ConnGood, Writing
  <1>3. part[p] \in Inode /\ part[p] # NoFile /\ f \in File /\ HasPrefix(f, Task(c).received, m)
    BY <1>2 DEF Collects, Good, TypeOK
  <1>4. CASE UNCHANGED data
    <2>1. \A q \in Path : KeptAt(q)' = KeptAt(q) /\ StoredAt(q)' = StoredAt(q)
      BY <1>1, <1>4 DEF KeptAt, StoredAt
    <2>2. QED
      BY <2>1, StoreStays
  <1>5. CASE /\ Task(c).received = Len(data[Task(c).file])
             /\ data' = [data EXCEPT ![Task(c).file] = Append(@, Hole)]
    <2>1. HasPrefix(f, Len(f), m) /\ Len(f) \in Nat /\ Append(f, Hole) \in File
      BY <1>2, <1>3, <1>5 DEF File
    <2>2. IsKept(f, m, Len(f)) /\ IsKept(Append(f, Hole), m, Len(f))
      BY <1>2, <1>3, <2>1, TornIsKept
    <2>3. KeptOf(f) = KeptOf(Append(f, Hole))
      BY <1>2, <1>3, <2>1, <2>2, KeptIs
    <2>4. /\ data'[part[p]] = Append(f, Hole)
          /\ \A j \in Inode : j # part[p] => data'[j] = data[j]
      BY <1>2, <1>3, <1>5 DEF Good, TypeOK
    <2>5. \A q \in Path : /\ part[q] \in Inode \cup {NoFile} /\ final[q] \in Inode \cup {NoFile}
                          /\ final[q] # part[p] /\ (q # p => part[q] # part[p])
      BY <1>2, <1>3 DEF Good, TypeOK, FinalInv, OneNamePerFile
    <2>6. \A q \in Path : q # p => Same(q)
      BY <1>1, <2>4, <2>5 DEF Same
    <2>7. \A q \in Path : StoredAt(q)' = StoredAt(q)
      BY <1>1, <2>4, <2>5 DEF StoredAt
    <2>8. ASSUME NEW q \in Path, q = p PROVE KeptAt(q)' = KeptAt(q)
      <3>1. part'[q] = part[p] /\ part[q] = part[p]
        BY <1>1, <2>8
      <3>2. KeptAt(q)' = KeptOf(data'[part[p]])
        BY <1>3, <3>1 DEF KeptAt, KeptOf
      <3>3. KeptAt(q) = KeptOf(f)
        BY <1>3, <3>1, KeptAtOf
      <3>4. QED
        BY <2>3, <2>4, <3>2, <3>3
    <2>9. QED
      BY <2>6, <2>7, <2>8, SameKept, StoreStays
  <1>6. QED
    BY <1>4, <1>5 DEF BlkWriteFails

(* The .part is published, given up or cut to nothing.                     *)
LEMMA EndRefines ==
  ASSUME Good, NEW c \in Conn, EndRename(c) \/ BadPart(c) \/ RqDropPart(c) \/ RqNew(c)
  PROVE  Store!Next
  <1> DEFINE p == PathAt(c)  m == info[c].rq.md5
  <1>1. Active(c) /\ p \in Path /\ m \in Content /\ Size[m] \in Nat \ {0} /\ info[c] \in FileInfo
    BY PathAtType, SizeAssumption
       DEF EndRename, BadPart, RqDropPart, RqNew, Active, Good
  <1>2. tid[c] \in DOMAIN tasks => PathOf(Task(c).rq) = p
    BY <1>1 DEF Good, FinalInv, TaskIsMine, PathAt
  <1>3. CASE EndRename(c)
    <2>1. /\ part[p] # NoFile /\ UNCHANGED <<data, meta>>
          /\ \A q \in Path : final'[q] = (IF q = p THEN part[p] ELSE final[q])
          /\ \A q \in Path : part'[q] = (IF q = p THEN NoFile ELSE part[q])
          /\ pc[c] = "endRename" /\ tid[c] \in DOMAIN tasks
      BY <1>2, <1>3 DEF EndRename, Good, TypeOK
    <2>2. data[part[p]] = Whole(m)
      BY <2>1 DEF Good, FinalInv, RenamesVerified
    <2>3. Whole(m) \in File /\ IsKept(Whole(m), m, Size[m])
      BY <1>1 DEF Whole, File, IsKept, HasPrefix
    <2>4. KeptAt(p) = [md5 |-> m, n |-> Size[m]]
      BY <1>1, <2>1, <2>2, <2>3, KeptIs, KeptAtOf DEF Blocks
    <2>5. \A q \in Path : q # p => Same(q)
      BY <2>1 DEF Same
    <2>6. ASSUME NEW q \in Path, q = p
          PROVE  KeptAt(q)' = [md5 |-> Hole, n |-> 0] /\ StoredAt(q)' = Whole(m)
      BY <2>1, <2>2, <2>6 DEF KeptAt, StoredAt
    <2>7. QED
      BY <1>1, <2>4, <2>5, <2>6, SameKept, StorePublishes
  <1>4. CASE BadPart(c) \/ RqDropPart(c)
    <2>1. /\ UNCHANGED <<data, meta, final>>
          /\ \A q \in Path : part'[q] = (IF q = p THEN NoFile ELSE part[q])
      BY <1>2, <1>4 DEF BadPart, RqDropPart, Good, TypeOK
    <2>2. \A q \in Path : q # p => Same(q)
      BY <2>1 DEF Same
    <2>3. \A q \in Path : StoredAt(q)' = StoredAt(q)
      BY <2>1 DEF StoredAt
    <2>4. \A q \in Path : q = p => KeptAt(q)' = [md5 |-> Hole, n |-> 0]
      BY <2>1 DEF KeptAt
    <2>5. QED
      BY <1>1, <2>2, <2>3, <2>4, SameKept, StoreGivesUp
  <1>5. CASE RqNew(c)
    <2>1. PICK i \in Inode :
            /\ IF part[p] = NoFile THEN ~InUse(i) ELSE i = part[p]
            /\ part' = [part EXCEPT ![p] = i]
            /\ data' = [data EXCEPT ![i] = << >>]
      BY <1>5 DEF RqNew
    <2>2. /\ UNCHANGED <<meta, final>>
          /\ \A q \in Path : part'[q] = (IF q = p THEN i ELSE part[q])
          /\ data'[i] = << >> /\ \A j \in Inode : j # i => data'[j] = data[j]
      BY <1>5, <2>1 DEF RqNew, Good, TypeOK
    <2>3. \A q \in Path : /\ part[q] \in Inode \cup {NoFile} /\ final[q] \in Inode \cup {NoFile}
                          /\ final[q] # i /\ (q # p => part[q] # i)
      BY <1>1, <2>1, NullAssumption DEF InUse, Good, TypeOK, FinalInv, OneNamePerFile
    <2>4. \A q \in Path : q # p => Same(q)
      BY <2>2, <2>3 DEF Same
    <2>5. \A q \in Path : StoredAt(q)' = StoredAt(q)
      BY <2>2, <2>3 DEF StoredAt
    <2>6. \A q \in Path : q = p => KeptAt(q)' = [md5 |-> Hole, n |-> 0]
      BY <2>2 DEF KeptAt
    <2>7. QED
      BY <1>1, <2>4, <2>5, <2>6, SameKept, StoreGivesUp
  <1>6. QED
    BY <1>3, <1>4, <1>5

(* The upload implements the store it promises: whatever requests, blocks   *)
(* in any order, cancels, broken connections, failing writes and restarts   *)
(* do, what can be seen under a path is a content collected block by block  *)
(* and published as a whole, while uploads share no path.                   *)
THEOREM StoreIsRefined == ASSUME Exclusive PROVE Spec => RefinesStore
  <1>1. Init => Store!Init
    BY DEF Init, Store!Init, Store!None, KeptAt
  <1>2. Good /\ [Next]_vars => [Store!Next]_(Store!vars)
    <2> SUFFICES ASSUME Good, [Next]_vars PROVE [Store!Next]_(Store!vars)
      OBVIOUS
    <2>1. CASE UNCHANGED <<data, part, final>>
      <3>1. \A q \in Path : KeptAt(q)' = KeptAt(q) /\ StoredAt(q)' = StoredAt(q)
        BY <2>1 DEF KeptAt, StoredAt
      <3>2. QED
        BY <3>1, StoreStays
    <2>2. CASE ~UNCHANGED <<data, part, final>>
      <3>1. Next
        BY <2>2 DEF vars, disk
      <3>2. QED
        BY <2>2, <3>1, FilesBy, WriteRefines, TornRefines, EndRefines
    <2>3. QED
      BY <2>1, <2>2
  <1>3. QED
    BY StoreAlways, <1>1, <1>2, PTL DEF Spec, RefinesStore, Store!Spec
=============================================================================
