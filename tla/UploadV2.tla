------------------------------ MODULE UploadV2 ------------------------------
(***************************************************************************)
(* The resumable upload of the media server (clogic.cpp): the handlers     *)
(* UploadV2Rq, UploadBlockRqV2 and UploadEndRqV2 with FinalizeUpload and   *)
(* CleanupTask, the clean-up OnClientDisconnect, and the worker that calls *)
(* them (block_epoll_net.cpp).  A worker runs one handler of a connection  *)
(* at a time (EPOLLONESHOT, re-armed after the handler returned), handlers *)
(* of different connections interleave at every lock region and file       *)
(* operation.                                                              *)
(*                                                                         *)
(* A file is the sequence of its blocks; the block at position i is named  *)
(* by the content (the md5) it belongs to, or Hole when no peer wrote it   *)
(* there: Size[m] blocks of m in place are the content m.                  *)
(***************************************************************************)
EXTENDS Naturals, Sequences, FiniteSets

CONSTANTS
  Conn,        \* socket descriptors, one connection each
  User, Name,  \* user ids and the file names they upload under
  Content,     \* md5 values
  Inode,       \* files on the disk, with or without a name
  Size,        \* m_nFileSize of a content, in blocks
  NoFile, NoMeta, NoPath, NoInfo, Hole,
  MaxTask,     \* bound: requests are sent while m_nNextTaskId <= MaxTask
  MaxCrash,    \* bound: restarts of the server
  Exclusive,   \* a path is used by one connection at a time (see Request)
  StaleCleanups, \* bound: clean-ups still to come for a descriptor that is
                 \* accepted again; 0 when close and clean-up are never split
  DiskFaults,  \* fopen, fwrite, rename and the INSERT may fail
  Gif          \* the names uploaded as gif, which get no row in t_VideoInfo

ASSUME SizeAssumption == Size \in [Content -> Nat \ {0}]
ASSUME FlagAssumption == {Exclusive, DiskFaults} \subseteq BOOLEAN
ASSUME BoundAssumption == {MaxTask, MaxCrash, StaleCleanups} \subseteq Nat
ASSUME NullAssumption == /\ NoFile \notin Inode /\ NoPath \notin User \X Name
                         /\ Hole \notin Content

Upload == [user : User, name : Name, md5 : Content]
Path == User \X Name
Key == User \X Content
PathOf(r) == <<r.user, r.name>>
KeyOf(r) == <<r.user, r.md5>>
File == Seq(Content \cup {Hole})
Whole(m) == [i \in 1 .. Size[m] |-> m]

Meta == [md5 : Content \cup {Hole}, received : Nat]   \* md5 = Hole: unreadable
ASSUME MetaAssumption == NoMeta \notin Meta
FileInfo == [fd : Conn, rq : Upload, file : Inode \cup {NoFile}, received : Nat]

VARIABLES
  data, part, meta, final, rows,    \* the disk, and the rows of t_VideoInfo
  tasks, nextTask, busy, index,     \* m_mapTaskIdToFileInfo .. m_mapMd5ToFinalPath
  cleanup,                          \* per descriptor: OnClientDisconnect calls to come
  pc, info, tid,                    \* per connection: step, FileInfo built, task id told
  crashes

disk == <<data, part, meta, final, rows>>
maps == <<tasks, nextTask, busy, index>>
vars == <<disk, maps, cleanup, pc, info, tid, crashes>>

RqPc == {"rqInstant", "rqBusy", "rqMeta", "rqResume", "rqDropMeta", "rqDropPart",
         "rqNew", "rqReg"}
TaskPc == {"blkWrite", "blkMeta", "blkBusy", "endMd5", "endRename", "endDropMeta",
           "endRow", "endIndex", "badPart", "badMeta"}
Pc == {"closed", "idle", "send", "endClean"} \cup RqPc \cup TaskPc

(* The upload a connection is busy with, and the path it writes.           *)
Active(c) == pc[c] \notin {"closed", "idle"}
PathAt(c) == PathOf(info[c].rq)
Task(c) == tasks[tid[c]]

TypeOK ==
  /\ data \in [Inode -> File]
  /\ part \in [Path -> Inode \cup {NoFile}]
  /\ meta \in [Path -> Meta \cup {NoMeta}]
  /\ final \in [Path -> Inode \cup {NoFile}]
  /\ rows \in SUBSET Path
  /\ DOMAIN tasks \subseteq Nat \ {0}
  /\ \A t \in DOMAIN tasks : tasks[t] \in FileInfo
  /\ nextTask \in Nat \ {0}
  /\ busy \in [Key -> {"free", "held", "stale"}]
  /\ index \in [Content -> Path \cup {NoPath}]
  /\ cleanup \in [Conn -> Nat]
  /\ pc \in [Conn -> Pc]
  /\ info \in [Conn -> FileInfo \cup {NoInfo}]
  /\ \A c \in Conn : Active(c) => info[c] \in FileInfo
  /\ tid \in [Conn -> Nat]
  /\ crashes \in Nat

FirstTaskZero == 0
FirstTask == 1      \* 0 is "no task" on the wire

Init ==
  /\ data = [i \in Inode |-> << >>]
  /\ part = [p \in Path |-> NoFile]
  /\ meta = [p \in Path |-> NoMeta]
  /\ final = [p \in Path |-> NoFile]
  /\ rows = {}
  /\ tasks = [t \in {} |-> NoInfo]
  /\ nextTask = FirstTask
  /\ busy = [k \in Key |-> "free"]
  /\ index = [m \in Content |-> NoPath]
  /\ cleanup = [c \in Conn |-> 0]
  /\ pc = [c \in Conn |-> "closed"]
  /\ info = [c \in Conn |-> NoInfo]
  /\ tid = [c \in Conn |-> 0]
  /\ crashes = 0

Goto(c, l) == pc' = [pc EXCEPT ![c] = l]

(* The handler returned and the client is through with this upload.        *)
Finish(c) ==
  /\ Goto(c, "idle")
  /\ info' = [info EXCEPT ![c] = NoInfo]
  /\ tid' = [tid EXCEPT ![c] = 0]

-----------------------------------------------------------------------------
(* Connections and clients.                                                *)

Accept(c) ==
  /\ pc[c] = "closed"
  /\ cleanup[c] <= StaleCleanups
  /\ Goto(c, "idle")
  /\ UNCHANGED <<disk, maps, cleanup, info, tid, crashes>>

(* A client asks to upload r.  Exclusive is the discipline of one client    *)
(* that sends one upload after the other: no request for a path that        *)
(* another connection is uploading to.                                      *)
Request(c, r) ==
  /\ pc[c] = "idle"
  /\ nextTask <= MaxTask
  /\ Exclusive => \A d \in Conn : Active(d) => PathAt(d) # PathOf(r)
  /\ Goto(c, "rqInstant")
  /\ info' = [info EXCEPT ![c] = [fd |-> c, rq |-> r, file |-> NoFile, received |-> 0]]
  /\ UNCHANGED <<disk, maps, cleanup, tid, crashes>>

(* CancelUpload: the client stops sending, the server is not told.         *)
Cancel(c) ==
  /\ pc[c] = "send"
  /\ Finish(c)
  /\ UNCHANGED <<disk, maps, cleanup, crashes>>

(* recv_task reads an end of file: the descriptor is closed first.         *)
Disconnect(c) ==
  /\ pc[c] \in {"idle", "send"}
  /\ pc' = [pc EXCEPT ![c] = "closed"]
  /\ info' = [info EXCEPT ![c] = NoInfo]
  /\ tid' = [tid EXCEPT ![c] = 0]
  /\ cleanup' = [cleanup EXCEPT ![c] = @ + 1]
  /\ UNCHANGED <<disk, maps, crashes>>

TasksOf(c) == {t \in DOMAIN tasks : tasks[t].fd = c}

UnlockedNone(ts) == busy
(* The locks, without those of the tasks ts.                               *)
Unlocked(ts) ==
  [k \in Key |-> IF \E t \in ts : KeyOf(tasks[t].rq) = k THEN "free" ELSE busy[k]]

(* ... and then every task registered under the descriptor is dropped,      *)
(* with its lock; .part and .meta stay.                                     *)
OnClientDisconnect(c) ==
  /\ cleanup[c] > 0
  /\ tasks' = [t \in DOMAIN tasks \ TasksOf(c) |-> tasks[t]]
  /\ busy' = Unlocked(TasksOf(c))
  /\ cleanup' = [cleanup EXCEPT ![c] = @ - 1]
  /\ UNCHANGED <<disk, nextTask, index, pc, info, tid, crashes>>

(* 30 minutes went by since the lock was taken or refreshed.               *)
Expire(k) ==
  /\ busy[k] = "held"
  /\ busy' = [busy EXCEPT ![k] = "stale"]
  /\ UNCHANGED <<disk, tasks, nextTask, index, cleanup, pc, info, tid, crashes>>

(* The process dies; the disk and the database are what it left behind.    *)
Restart ==
  /\ tasks' = [t \in {} |-> NoInfo]
  /\ nextTask' = FirstTask
  /\ busy' = [k \in Key |-> "free"]
  /\ index' = [m \in Content |-> NoPath]
  /\ cleanup' = [c \in Conn |-> 0]
  /\ pc' = [c \in Conn |-> "closed"]
  /\ info' = [c \in Conn |-> NoInfo]
  /\ tid' = [c \in Conn |-> 0]
  /\ UNCHANGED disk

Crash ==
  /\ crashes < MaxCrash
  /\ crashes' = crashes + 1
  /\ Restart

(* A handler goes on with a FileInfo another worker deleted: its pFile was  *)
(* set to NULL before the delete, and fseek on it ends the process.         *)
UseFreed(c) ==
  /\ pc[c] \in TaskPc
  /\ tid[c] \notin DOMAIN tasks
  /\ Restart
  /\ UNCHANGED crashes

-----------------------------------------------------------------------------
(* UploadV2Rq.                                                             *)

(* pFile and m_nReceived of the FileInfo being built.                      *)
Opened(c, i, n) == [info EXCEPT ![c] = [@ EXCEPT !.file = i, !.received = n]]

InstantHit(m) == index[m] # NoPath /\ final[index[m]] # NoFile

(* Step 1: a content uploaded in this session is answered "instant".       *)
RqInstant(c) ==
  /\ pc[c] = "rqInstant"
  /\ IF InstantHit(info[c].rq.md5)
     THEN Finish(c)
     ELSE Goto(c, "rqBusy") /\ UNCHANGED <<info, tid>>
  /\ UNCHANGED <<disk, maps, cleanup, crashes>>

(* Step 2: a lock younger than 30 minutes is answered "busy"; an older one  *)
(* is released.                                                             *)
RqBusy(c) ==
  /\ pc[c] = "rqBusy"
  /\ LET k == KeyOf(info[c].rq) IN
       IF busy[k] = "held"
       THEN Finish(c) /\ UNCHANGED busy
       ELSE /\ Goto(c, "rqMeta")
            /\ busy' = [busy EXCEPT ![k] = "free"]
            /\ UNCHANGED <<info, tid>>
  /\ UNCHANGED <<disk, tasks, nextTask, index, cleanup, crashes>>

(* Step 3: the user is not found, or the query fails: answered "fail".     *)
RqNoUser(c) ==
  /\ pc[c] = "rqMeta"
  /\ Finish(c)
  /\ UNCHANGED <<disk, maps, cleanup, crashes>>

ResumableAnyContent(r) == meta[PathOf(r)].received <= Size[r.md5]
ResumableIfShort(r) ==
  LET x == meta[PathOf(r)] IN x.md5 = r.md5 /\ x.received < Size[r.md5]

(* The .meta names this content and no more of it than there is.           *)
Resumable(r) ==
  LET x == meta[PathOf(r)] IN x.md5 = r.md5 /\ x.received <= Size[r.md5]

(* Step 4: read the .meta, and with it decide between resuming, starting    *)
(* over on a foreign or unreadable .meta, and a new upload.                 *)
RqMeta(c) ==
  LET r == info[c].rq IN
  /\ pc[c] = "rqMeta"
  /\ \/ /\ meta[PathOf(r)] = NoMeta
        /\ Goto(c, "rqNew")
        /\ UNCHANGED info
     \/ /\ meta[PathOf(r)] # NoMeta /\ Resumable(r)
        /\ Goto(c, "rqResume")
        /\ info' = Opened(c, NoFile, meta[PathOf(r)].received)
     \/ /\ meta[PathOf(r)] # NoMeta /\ ~Resumable(r)
        /\ Goto(c, "rqDropMeta")
        /\ UNCHANGED info
  /\ UNCHANGED <<disk, maps, cleanup, tid, crashes>>

Least(a, b) == IF a < b THEN a ELSE b

RqResume(c) ==
  LET p == PathAt(c) IN
  /\ pc[c] = "rqResume"
  /\ \/ /\ part[p] # NoFile
        /\ Goto(c, "rqReg")
        /\ info' = Opened(c, part[p], Least(Len(data[part[p]]), info[c].received))
        /\ UNCHANGED meta
     \/ /\ part[p] = NoFile \/ DiskFaults
        /\ meta' = [meta EXCEPT ![p] = NoMeta]
        /\ Goto(c, "rqNew")
        /\ UNCHANGED info
  /\ UNCHANGED <<data, part, final, rows, maps, cleanup, tid, crashes>>

RqDropMeta(c) ==
  /\ pc[c] = "rqDropMeta"
  /\ meta' = [meta EXCEPT ![PathAt(c)] = NoMeta]
  /\ Goto(c, "rqDropPart")
  /\ UNCHANGED <<data, part, final, rows, maps, cleanup, info, tid, crashes>>

RqDropPart(c) ==
  /\ pc[c] = "rqDropPart"
  /\ part' = [part EXCEPT ![PathAt(c)] = NoFile]
  /\ Goto(c, "rqNew")
  /\ UNCHANGED <<data, meta, final, rows, maps, cleanup, info, tid, crashes>>

InUse(i) ==
  \/ \E p \in Path : i \in {part[p], final[p]}
  \/ \E t \in DOMAIN tasks : tasks[t].file = i
  \/ \E c \in Conn : info[c] # NoInfo /\ info[c].file = i

(* fopen "wb": the .part that is there is cut to nothing, or a new file is  *)
(* made.                                                                    *)
RqNew(c) ==
  LET p == PathAt(c) IN
  /\ pc[c] = "rqNew"
  /\ \E i \in Inode :
       /\ IF part[p] = NoFile THEN ~InUse(i) ELSE i = part[p]
       /\ part' = [part EXCEPT ![p] = i]
       /\ data' = [data EXCEPT ![i] = << >>]
       /\ info' = Opened(c, i, 0)
  /\ Goto(c, "rqReg")
  /\ UNCHANGED <<meta, final, rows, maps, cleanup, tid, crashes>>

(* fopen failed: the reply still says upload_v2_new, with task id 0.       *)
RqNewFails(c) ==
  /\ pc[c] = "rqNew"
  /\ DiskFaults
  /\ Goto(c, "send")
  /\ UNCHANGED <<disk, maps, cleanup, info, tid, crashes>>

(* Step 5: number the task, register it, take the lock.                    *)
RqReg(c) ==
  /\ pc[c] = "rqReg"
  /\ tasks' = [t \in DOMAIN tasks \cup {nextTask} |->
                 IF t = nextTask THEN info[c] ELSE tasks[t]]
  /\ nextTask' = nextTask + 1
  /\ busy' = [busy EXCEPT ![KeyOf(info[c].rq)] = "held"]
  /\ tid' = [tid EXCEPT ![c] = nextTask]
  /\ info' = Opened(c, NoFile, 0)
  /\ Goto(c, "send")
  /\ UNCHANGED <<disk, index, cleanup, crashes>>

-----------------------------------------------------------------------------
(* UploadBlockRqV2.  A block of a task that is not registered is dropped    *)
(* without a trace: no step.                                                *)

BlkLookup(c) ==
  /\ pc[c] = "send"
  /\ tid[c] \in DOMAIN tasks
  /\ Goto(c, "blkWrite")
  /\ UNCHANGED <<disk, maps, cleanup, info, tid, crashes>>

(* fwrite at position off, behind the end included.                        *)
WriteAt(f, off, b) ==
  [i \in 1 .. (IF off < Len(f) THEN Len(f) ELSE off + 1) |->
     IF i = off + 1 THEN b ELSE IF i <= Len(f) THEN f[i] ELSE Hole]

BlockAlwaysAccepted(c, off) == TRUE
BlockAccepted(c, off) == off <= Task(c).received

(* The peer sends any block of the file, again or out of order; a block     *)
(* that would leave a gap is dropped.                                       *)
BlkWrite(c, off) ==
  LET t == Task(c) IN
  /\ pc[c] = "blkWrite"
  /\ tid[c] \in DOMAIN tasks
  /\ off \in 0 .. Size[t.rq.md5] - 1
  /\ IF BlockAccepted(c, off)
     THEN /\ data' = [data EXCEPT ![t.file] = WriteAt(@, off, t.rq.md5)]
          /\ tasks' = [tasks EXCEPT ![tid[c]].received =
                         IF off + 1 > @ THEN off + 1 ELSE @]
          /\ Goto(c, "blkMeta")
     ELSE Goto(c, "send") /\ UNCHANGED <<data, tasks>>
  /\ UNCHANGED <<part, meta, final, rows, nextTask, busy, index, cleanup, info, tid,
                 crashes>>

(* fwrite came up short: nothing of the block, or a torn end, is there.    *)
BlkWriteFails(c) ==
  LET t == Task(c) IN
  /\ pc[c] = "blkWrite"
  /\ tid[c] \in DOMAIN tasks
  /\ DiskFaults
  /\ \/ UNCHANGED data
     \/ /\ t.received = Len(data[t.file]) /\ t.received < Size[t.rq.md5]
        /\ data' = [data EXCEPT ![t.file] = Append(@, Hole)]
  /\ Goto(c, "send")
  /\ UNCHANGED <<part, meta, final, rows, maps, cleanup, info, tid, crashes>>

(* WriteMeta: .tmp and rename.  Its failures are ignored; a short .tmp is   *)
(* renamed all the same and will not be readable.                           *)
BlkMeta(c) ==
  LET t == Task(c)  p == PathOf(t.rq) IN
  /\ pc[c] = "blkMeta"
  /\ tid[c] \in DOMAIN tasks
  /\ \/ meta' = [meta EXCEPT ![p] = [md5 |-> t.rq.md5, received |-> t.received]]
     \/ DiskFaults /\ meta' = [meta EXCEPT ![p] = [md5 |-> Hole, received |-> 0]]
     \/ DiskFaults /\ UNCHANGED meta
  /\ Goto(c, "blkBusy")
  /\ UNCHANGED <<data, part, final, rows, maps, cleanup, info, tid, crashes>>

BlkBusy(c) ==
  /\ pc[c] = "blkBusy"
  /\ tid[c] \in DOMAIN tasks
  /\ busy' = [busy EXCEPT ![KeyOf(Task(c).rq)] = "held"]
  /\ Goto(c, "send")
  /\ UNCHANGED <<disk, tasks, nextTask, index, cleanup, info, tid, crashes>>

-----------------------------------------------------------------------------
(* UploadEndRqV2 and FinalizeUpload.                                       *)

EndLookup(c) ==
  /\ pc[c] = "send"
  /\ tid[c] \in DOMAIN tasks
  /\ Goto(c, "endMd5")
  /\ UNCHANGED <<disk, maps, cleanup, info, tid, crashes>>

(* No such task: no answer, and the client gives up after its 30 seconds.  *)
EndUnknown(c) ==
  /\ pc[c] = "send"
  /\ tid[c] \notin DOMAIN tasks
  /\ Finish(c)
  /\ UNCHANGED <<disk, maps, cleanup, crashes>>

VerifiedNever(c) == part[PathOf(Task(c).rq)] # NoFile
VerifiedByLength(c) ==
  LET t == Task(c)  p == PathOf(t.rq) IN
  part[p] # NoFile /\ Len(data[part[p]]) = Size[t.rq.md5]
Verified(c) ==
  LET t == Task(c)  p == PathOf(t.rq) IN
  part[p] # NoFile /\ data[part[p]] = Whole(t.rq.md5)

EndMd5(c) ==
  /\ pc[c] = "endMd5"
  /\ tid[c] \in DOMAIN tasks
  /\ IF Verified(c) THEN Goto(c, "endRename") ELSE Goto(c, "badPart")
  /\ UNCHANGED <<disk, maps, cleanup, info, tid, crashes>>

EndRename(c) ==
  LET p == PathOf(Task(c).rq) IN
  /\ pc[c] = "endRename"
  /\ tid[c] \in DOMAIN tasks
  /\ part[p] # NoFile
  /\ final' = [final EXCEPT ![p] = part[p]]
  /\ part' = [part EXCEPT ![p] = NoFile]
  /\ Goto(c, "endDropMeta")
  /\ UNCHANGED <<data, meta, rows, maps, cleanup, info, tid, crashes>>

EndRenameErrorIgnored(c) ==
  /\ pc[c] = "endRename"
  /\ tid[c] \in DOMAIN tasks
  /\ part[PathOf(Task(c).rq)] = NoFile \/ DiskFaults
  /\ Goto(c, "endDropMeta")
  /\ UNCHANGED <<disk, maps, cleanup, info, tid, crashes>>
EndRenameFails(c) ==
  /\ pc[c] = "endRename"
  /\ tid[c] \in DOMAIN tasks
  /\ part[PathOf(Task(c).rq)] = NoFile \/ DiskFaults
  /\ Goto(c, "badPart")
  /\ UNCHANGED <<disk, maps, cleanup, info, tid, crashes>>

EndDropMeta(c) ==
  /\ pc[c] = "endDropMeta"
  /\ tid[c] \in DOMAIN tasks
  /\ meta' = [meta EXCEPT ![PathOf(Task(c).rq)] = NoMeta]
  /\ Goto(c, "endRow")
  /\ UNCHANGED <<data, part, final, rows, maps, cleanup, info, tid, crashes>>

(* The INSERT; its result is not looked at.                                *)
EndRow(c) ==
  /\ pc[c] = "endRow"
  /\ tid[c] \in DOMAIN tasks
  /\ \/ Task(c).rq.name \notin Gif /\ rows' = rows \cup {PathOf(Task(c).rq)}
     \/ (Task(c).rq.name \in Gif \/ DiskFaults) /\ UNCHANGED rows
  /\ Goto(c, "endIndex")
  /\ UNCHANGED <<data, part, meta, final, maps, cleanup, info, tid, crashes>>

EndIndex(c) ==
  /\ pc[c] = "endIndex"
  /\ tid[c] \in DOMAIN tasks
  /\ index' = [index EXCEPT ![Task(c).rq.md5] = PathOf(Task(c).rq)]
  /\ Goto(c, "endClean")
  /\ UNCHANGED <<disk, tasks, nextTask, busy, cleanup, info, tid, crashes>>

(* The failed endings: .part and .meta are removed, then the task.         *)
BadPart(c) ==
  /\ pc[c] = "badPart"
  /\ tid[c] \in DOMAIN tasks
  /\ part' = [part EXCEPT ![PathOf(Task(c).rq)] = NoFile]
  /\ Goto(c, "badMeta")
  /\ UNCHANGED <<data, meta, final, rows, maps, cleanup, info, tid, crashes>>

BadMeta(c) ==
  /\ pc[c] = "badMeta"
  /\ tid[c] \in DOMAIN tasks
  /\ meta' = [meta EXCEPT ![PathOf(Task(c).rq)] = NoMeta]
  /\ Goto(c, "endClean")
  /\ UNCHANGED <<data, part, final, rows, maps, cleanup, info, tid, crashes>>

CleanupTask(c) ==
  /\ pc[c] = "endClean"
  /\ IF tid[c] \in DOMAIN tasks
     THEN /\ busy' = Unlocked({tid[c]})
          /\ tasks' = [t \in DOMAIN tasks \ {tid[c]} |-> tasks[t]]
     ELSE UNCHANGED <<busy, tasks>>
  /\ Finish(c)
  /\ UNCHANGED <<disk, nextTask, index, cleanup, crashes>>

-----------------------------------------------------------------------------
Offset == UNION {0 .. Size[m] - 1 : m \in Content}

RqStep(c) ==
  \/ RqInstant(c) \/ RqBusy(c) \/ RqNoUser(c) \/ RqMeta(c) \/ RqResume(c)
  \/ RqDropMeta(c) \/ RqDropPart(c) \/ RqNew(c) \/ RqNewFails(c) \/ RqReg(c)
BlkStep(c) ==
  \/ \E off \in Offset : BlkWrite(c, off)
  \/ BlkWriteFails(c) \/ BlkMeta(c) \/ BlkBusy(c)
EndStep(c) ==
  \/ EndUnknown(c) \/ EndMd5(c) \/ EndRename(c) \/ EndRenameFails(c)
  \/ EndDropMeta(c) \/ EndRow(c) \/ EndIndex(c) \/ BadPart(c) \/ BadMeta(c) \/ CleanupTask(c)
Client(c) ==
  \/ Accept(c) \/ (\E r \in Upload : Request(c, r))
  \/ Cancel(c) \/ Disconnect(c) \/ BlkLookup(c) \/ EndLookup(c)

Next ==
  \/ \E c \in Conn :
       Client(c) \/ RqStep(c) \/ BlkStep(c) \/ EndStep(c)
       \/ OnClientDisconnect(c) \/ UseFreed(c)
  \/ \E k \in Key : Expire(k)
  \/ Crash

Spec == Init /\ [][Next]_vars

-----------------------------------------------------------------------------
(* Properties.                                                             *)

(* The first n blocks of f are those of m.                                 *)
HasPrefix(f, n, m) == n <= Len(f) /\ \A i \in 1 .. n : f[i] = m

(* What a request for m would resume from at path p.                       *)
Progress(p, m) ==
  IF meta[p] # NoMeta /\ meta[p].md5 = m /\ part[p] # NoFile
  THEN Least(meta[p].received, Len(data[part[p]])) ELSE 0

(* Only a complete, verified upload ever stands under its final name: a     *)
(* file there is, at every moment, exactly some content (FinalizeUpload     *)
(* compares the md5 before the rename, and no handler writes to the file    *)
(* afterwards through a handle it still holds).                             *)
FinalVerified ==
  \A p \in Path : final[p] # NoFile => \E m \in Content : data[final[p]] = Whole(m)

(* Both counts of progress are true.  While a client sends, the bytes its   *)
(* task counts as received are on the disk under the .part name and are the *)
(* bytes of its content: the offset of the resume and the guard on the      *)
(* block offsets never leave a gap, and no leftover of another content is   *)
(* continued.  What a .meta promises is true of the .part beside it,        *)
(* whenever the process stops.                                              *)
CountsAreTrue ==
  /\ \A c \in Conn :
       pc[c] \in {"send", "blkWrite", "blkMeta", "blkBusy"} /\ tid[c] \in DOMAIN tasks =>
         /\ part[PathAt(c)] = Task(c).file
         /\ HasPrefix(data[Task(c).file], Task(c).received, Task(c).rq.md5)
  /\ \A p \in Path, m \in Content :
       Progress(p, m) > 0 => HasPrefix(data[part[p]], Progress(p, m), m)

(* An upload that is answered as complete stands under its final name in    *)
(* its own content, and nothing of it is left to be resumed.                *)
SuccessPublishes ==
  [][\A c \in Conn :
       pc[c] = "endIndex" /\ pc'[c] = "endClean" =>
         LET p == PathAt(c) IN
         /\ final[p] # NoFile /\ data[final[p]] = Whole(info[c].rq.md5)
         /\ part[p] = NoFile /\ meta[p] = NoMeta]_vars

(* A cancel, a lost connection, a restart or a new request for the same     *)
(* content never takes back a block that could be resumed from; only the    *)
(* end of an upload, or a request for another content under the name, does. *)
ProgressKept ==
  [][\A p \in Path, m \in Content :
       Progress(p, m)' < Progress(p, m) =>
         \E c \in Conn :
           /\ Active(c) /\ PathAt(c) = p
           /\ \/ pc[c] \in {"endRename", "badPart", "badMeta"}
              \/ pc[c] = "rqDropMeta" /\ info[c].rq.md5 # m]_vars

(* A row of t_VideoInfo, which puts a video into everybody's lists, is only *)
(* written once the file stands under its final name.                       *)
ListedIsPublished == \A p \in rows : final[p] # NoFile

(* A lock that is held belongs to a registered task, and that task to a     *)
(* connection that is open or whose clean-up is still to come: no lock      *)
(* outlives its connection (the "busy(4)" that stayed after a broken        *)
(* connection).                                                             *)
LockHasOwner ==
  /\ \A k \in Key : busy[k] = "held" => \E t \in DOMAIN tasks : KeyOf(tasks[t].rq) = k
  /\ \A t \in DOMAIN tasks :
       pc[tasks[t].fd] = "closed" => cleanup[tasks[t].fd] > 0

(* LockHasOwner is inductive together with: task ids are handed out once,   *)
(* and a FileInfo carries the descriptor it was made for.                   *)
LockInv ==
  /\ \A t \in DOMAIN tasks : t < nextTask
  /\ \A c \in Conn : Active(c) => info[c].fd = c
  /\ LockHasOwner

(* FinalVerified is inductive, when no path is shared, together with: a     *)
(* client and its task agree on the upload; what a handler writes to is the *)
(* .part of its own path; no file has two names.                            *)
PathsDisjoint ==
  \A c, d \in Conn : Active(c) /\ Active(d) /\ PathAt(c) = PathAt(d) => c = d
TaskIsMine ==
  \A c \in Conn :
    /\ tid[c] < nextTask
    /\ tid[c] # 0 => pc[c] \in TaskPc \cup {"send", "endClean"}
    /\ Active(c) /\ tid[c] \in DOMAIN tasks => Task(c).rq = info[c].rq
WritesOwnPart ==
  \A c \in Conn :
    /\ pc[c] = "rqReg" => info[c].file = part[PathAt(c)]
    /\ pc[c] \in {"send", "blkWrite", "blkMeta", "blkBusy"} /\ tid[c] \in DOMAIN tasks =>
         Task(c).file = part[PathAt(c)]
OneNamePerFile ==
  \A p, q \in Path :
    part[p] # NoFile => part[p] # final[q] /\ (part[p] = part[q] => p = q)
RenamesVerified ==
  \A c \in Conn :
    pc[c] = "endRename" /\ tid[c] \in DOMAIN tasks /\ part[PathAt(c)] # NoFile =>
      data[part[PathAt(c)]] = Whole(info[c].rq.md5)
FinalInv ==
  /\ \A t \in DOMAIN tasks : t < nextTask
  /\ PathsDisjoint /\ TaskIsMine /\ WritesOwnPart /\ OneNamePerFile
  /\ RenamesVerified /\ FinalVerified

(* The store the uploads promise (UploadStore): a .part grows block by      *)
(* block, in order, and only a complete one is published.                   *)
KeptAt(p) ==
  LET f == data[part[p]] IN
  IF part[p] = NoFile \/ f = << >> \/ f[1] = Hole THEN [md5 |-> Hole, n |-> 0]
  ELSE [md5 |-> f[1],
        n |-> CHOOSE n \in 0 .. Len(f) :
                HasPrefix(f, n, f[1]) /\ (n = Len(f) \/ f[n + 1] # f[1])]
Store ==
  INSTANCE UploadStore WITH
    Nothing <- Hole,
    stored <- [p \in Path |-> IF final[p] = NoFile THEN << >> ELSE data[final[p]]],
    kept <- [p \in Path |-> KeptAt(p)]
RefinesStore == Store!Spec

=============================================================================
