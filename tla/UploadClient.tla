--------------------------- MODULE UploadClient ---------------------------
(***************************************************************************)
(* The client's half of the resumable upload.  UploadDialog makes a        *)
(* picture of a video and asks for both to be uploaded; the worker thread  *)
(* (OnlineDialog::UploadFile) sends handshake, blocks and END and blocks   *)
(* on a condition variable for the two replies; the receiving thread of    *)
(* TcpClient posts packets to the GUI thread, whose slot_ReadyData wakes   *)
(* the worker.  Both threads may find the connection lost in               *)
(* TcpClientMediator::SendData and replace it.                             *)
(*                                                                         *)
(* The server is the one of UploadV2, one request a step: what matters     *)
(* here is that its replies carry no name of the request they answer, may  *)
(* come late, and that it cleans a lost connection up at a time of its     *)
(* own.  A file is named by its content: a video, or the sequence of       *)
(* videos whose pictures a gif shows.                                      *)
(***************************************************************************)
EXTENDS Integers, Sequences

CONSTANTS
  Video, NoVideo,
  KeyFrames, Frames,  \* per video: key frames, and all pictures in it
  MaxPics,            \* ncount: pictures of a gif (6 in the code)
  Blocks,             \* blocks of a video; a gif is one block
  MaxJobs,            \* bound: uploads asked for in the dialog; it is not used after that
  MaxConn,            \* bound: connections opened
  MaxBrowse           \* bound: files chosen

ASSUME FramesAssumption == /\ KeyFrames \in [Video -> Nat] /\ Frames \in [Video -> Nat]
                           /\ \A v \in Video : KeyFrames[v] <= Frames[v]
ASSUME BoundsAssumption == /\ {MaxJobs, MaxBrowse} \subseteq Nat
                           /\ {MaxPics, Blocks, MaxConn} \subseteq Nat \ {0}
ASSUME NoVideoAssumption == NoVideo \notin Video

Gif == UNION {[1 .. n -> Video] : n \in 1 .. MaxPics}
ASSUME ItemAssumption == Video \cap Gif = {}
NoJob == [file |-> NoVideo, img |-> << >>]
Job == [file : Video, img : Gif]
Item == Video \cup Gif
NoItem == << >>
Size(i) == IF i \in Gif THEN 1 ELSE Blocks
Whole(i) == [k \in 1 .. Size(i) |-> i]
Conn == 1 .. MaxConn
Upload == 1 .. 2 * MaxJobs     \* UploadFile calls, in their order
NoRs == [up |-> 0, result |-> "none", task |-> 0, from |-> 0]

VARIABLES
  jpg, chosen, enabled, asked, jobs,   \* UploadDialog, and the worker's event queue
  wpc, job, item, up, task, offset,    \* the worker thread
  hsPending, hsRs, endPending, endRs,  \* m_v2HsPending ..
  woken, canceled,                     \* the condition variable, m_uploadCanceled
  conn, connected, opening, alive,     \* m_pNet, m_isConnected, who replaces m_pNet
  toServer, toClient, peer, gone, gui, \* the wires, the GUI thread's event queue
  parts, tasks, nextTask, stored,      \* the server
  said,                                \* SIG_UploadMessage of the last upload that ended
  browses

dialog == <<jpg, chosen, enabled, asked, browses>>
worker == <<wpc, job, item, up, task, offset>>
reply == <<hsPending, hsRs, endPending, endRs, woken>>
net == <<conn, connected, opening, alive>>
link == <<toServer, peer>>            \* what the worker's SendData changes
wires == <<link, toClient, gone, gui>>
server == <<parts, tasks, nextTask, stored>>
vars == <<dialog, jobs, worker, reply, said, canceled, net, wires, server>>

Message == [type : {"rq"}, up : Upload, item : Item]
           \cup [type : {"block"}, task : Nat, offset : Nat, item : Item]
           \cup [type : {"end"}, up : Upload, task : Nat]
Result == {"go", "fail", "busy", "instant", "ok", "bad"}
Answer == [type : {"hs", "end"}, up : Upload, result : Result, task : Nat, from : Nat]
Said == {"none", "noFile", "timeout", "refused", "busy", "instant", "unread", "canceled",
         "paused", "endTimeout", "ok", "bad"}
Wpc == {"idle", "begin", "hsSend", "hsSent", "hsWait", "hsExpired", "blocks", "after",
        "endSend", "endSent", "endWait", "endExpired"}

TypeOK ==
  /\ jpg \in [1 .. MaxPics -> Video \cup {NoVideo}]
  /\ chosen \in Job \cup {NoJob} /\ enabled \in BOOLEAN /\ asked \in 0 .. MaxJobs
  /\ jobs \in Seq(Job) /\ Len(jobs) <= MaxJobs
  /\ wpc \in Wpc /\ job \in Job \cup {NoJob} /\ item \in Item \cup {NoItem}
  /\ up \in 0 .. 2 * MaxJobs /\ task \in Nat /\ offset \in 0 .. Blocks
  /\ {hsPending, endPending, woken, canceled, connected, alive} \subseteq BOOLEAN
  /\ opening \in {"none", "worker", "gui"} /\ conn \in Conn
  /\ \A c \in Conn : /\ \A k \in 1 .. Len(toServer[c]) : toServer[c][k] \in Message
                     /\ \A k \in 1 .. Len(toClient[c]) : toClient[c][k] \in Answer
                     /\ peer[c] \in {"none", "open", "fin", "rst"}
  /\ \A k \in 1 .. Len(gui) : gui[k] \in Answer
  /\ gone \subseteq Conn
  /\ parts \in [Item -> Seq(Item)] /\ stored \subseteq Item
  /\ \A t \in DOMAIN tasks : tasks[t] \in [item : Item, conn : Conn]
  /\ nextTask \in Nat \ {0} /\ said \in Said

Init ==
  /\ jpg = [k \in 1 .. MaxPics |-> NoVideo]
  /\ chosen = NoJob /\ enabled = FALSE /\ asked = 0 /\ jobs = << >>
  /\ wpc = "idle" /\ job = NoJob /\ item = NoItem /\ up = 0 /\ task = 0 /\ offset = 0
  /\ hsPending = FALSE /\ hsRs = NoRs /\ endPending = FALSE /\ endRs = NoRs
  /\ woken = FALSE /\ canceled = FALSE
  /\ conn = 1 /\ connected = TRUE /\ opening = "none" /\ alive = TRUE
  /\ toServer = [c \in Conn |-> << >>] /\ toClient = [c \in Conn |-> << >>]
  /\ peer = [c \in Conn |-> IF c = 1 THEN "open" ELSE "none"]
  /\ gone = {} /\ gui = << >>
  /\ parts = [i \in Item |-> << >>] /\ tasks = << >> /\ nextTask = 1 /\ stored = {}
  /\ said = "none"
  /\ browses = 0

-----------------------------------------------------------------------------
(* UploadDialog, in the GUI thread.                                        *)

(* Key frames first; when they are too few the video is read again from    *)
(* its start and any picture counts.                                       *)
PicsOf(v) == IF KeyFrames[v] + Frames[v] < MaxPics THEN KeyFrames[v] + Frames[v]
             ELSE MaxPics

(* SaveVideoJpg numbers its pictures from 0 and writes over what an        *)
(* earlier call left; ffmpeg takes the files up to the first gap.          *)
Saved(v, n) == [k \in 1 .. MaxPics |-> IF k <= n THEN v ELSE jpg[k]]
GifFromNone(s) == << >>     \* the size of ffmpeg's output is not looked at
GifFrom(s) == LET n == CHOOSE m \in 0 .. MaxPics :
                         /\ \A k \in 1 .. m : s[k] # NoVideo
                         /\ m < MaxPics => s[m + 1] = NoVideo
              IN SubSeq(s, 1, n)

ChosenLate(v, gif) == [file |-> v, img |-> IF chosen = NoJob THEN gif ELSE chosen.img]
Chosen(v, gif) == [file |-> v, img |-> gif]

(* A video that cannot be decoded to its end, one without a picture and a  *)
(* failing ffmpeg leave the earlier choice and disable the button.         *)
Browse(v) ==
  /\ browses < MaxBrowse /\ asked < MaxJobs
  /\ browses' = browses + 1
  /\ \/ \E n \in 0 .. PicsOf(v) :
          /\ jpg' = Saved(v, n)
          /\ enabled' = FALSE
          /\ UNCHANGED chosen
     \/ /\ PicsOf(v) > 0
        /\ jpg' = Saved(v, PicsOf(v))
        /\ chosen' = Chosen(v, GifFrom(jpg'))
        /\ enabled' = TRUE
  /\ UNCHANGED <<asked, jobs, worker, reply, said, canceled, net, wires, server>>

(* The button stays enabled: the same pair may be queued again.            *)
BeginUpload ==
  /\ enabled /\ asked < MaxJobs
  /\ asked' = asked + 1
  /\ jobs' = Append(jobs, chosen)
  /\ UNCHANGED <<jpg, chosen, enabled, browses, worker, reply, said, canceled, net, wires, server>>

(* on_pb_upload_clicked shows the dialog empty.                            *)
Reshow ==
  /\ enabled /\ asked < MaxJobs
  /\ enabled' = FALSE
  /\ UNCHANGED <<jpg, chosen, asked, browses, jobs, worker, reply, said, canceled, net, wires,
                 server>>

(* Called at any time; the flag is read in the block loop and behind it    *)
(* and reset when an upload begins, calls in between come to the same.     *)
CancelUpload ==
  /\ ~canceled /\ wpc \in {"begin", "blocks", "after"}
  /\ canceled' = TRUE
  /\ UNCHANGED <<dialog, jobs, worker, reply, said, net, wires, server>>

-----------------------------------------------------------------------------
(* TcpClient and TcpClientMediator.                                        *)

(* send gives the number of bytes or -1, SendData gives it on as a bool:   *)
(* either is true.                                                         *)
Sent(result) == result # 0

(* A packet on a socket whose peer is gone is lost, and send may say so.   *)
Transmit(c, m, result) ==
  IF peer[c] = "open"
  THEN /\ toServer' = [toServer EXCEPT ![c] = Append(@, m)]
       /\ result = 1
  ELSE /\ UNCHANGED toServer
       /\ result \in {-1, 1}

(* The old client object is deleted and a new one made, then connected.    *)
(* A second thread that comes in between deletes the object the first one  *)
(* is connecting: the process ends.                                        *)
Reopen(who) ==
  /\ alive /\ ~connected
  /\ IF opening = "none" THEN opening' = who /\ UNCHANGED alive
                         ELSE opening # who /\ alive' = FALSE /\ UNCHANGED opening
  /\ UNCHANGED <<conn, connected>>

Connect(who) ==
  /\ alive /\ opening = who /\ conn < MaxConn
  /\ conn' = conn + 1 /\ connected' = TRUE /\ opening' = "none"
  /\ UNCHANGED alive
ConnectFails(who) ==
  /\ alive /\ opening = who
  /\ opening' = "none"
  /\ UNCHANGED <<conn, connected, alive>>

(* SendData of the worker; then says what follows for its result.          *)
SendData(m, result) ==
  \/ /\ alive /\ connected /\ opening = "none"
     /\ Transmit(conn, m, result)
     /\ UNCHANGED <<net, peer>>
  \/ /\ Connect("worker")
     /\ toServer' = [toServer EXCEPT ![conn + 1] = <<m>>]
     /\ peer' = [peer EXCEPT ![conn + 1] = "open"]
     /\ result = 1
  \/ /\ ConnectFails("worker")
     /\ result = -1
     /\ UNCHANGED <<toServer, peer>>

(* The GUI thread sends a click, a refresh or the like: what matters here  *)
(* is that it replaces a lost connection too.                              *)
GuiSend ==
  /\ \/ Reopen("gui") /\ UNCHANGED peer
     \/ Connect("gui") /\ peer' = [peer EXCEPT ![conn + 1] = "open"]
     \/ ConnectFails("gui") /\ UNCHANGED peer
  /\ UNCHANGED <<dialog, jobs, worker, reply, said, canceled, toServer, toClient, gone, gui, server>>

(* RecvData hands a packet to the GUI thread.                              *)
Receive ==
  /\ alive /\ connected /\ peer[conn] # "rst" /\ toClient[conn] # << >>
  /\ gui' = Append(gui, Head(toClient[conn]))
  /\ toClient' = [toClient EXCEPT ![conn] = Tail(@)]
  /\ UNCHANGED <<dialog, jobs, worker, reply, said, canceled, net, link, gone, server>>

(* recv returns 0: the connection counts as lost.  When recv fails, the    *)
(* socket is closed and m_isConnected stays true: no step here.            *)
RecvEnd ==
  /\ alive /\ connected /\ peer[conn] = "fin" /\ toClient[conn] = << >>
  /\ connected' = FALSE
  /\ UNCHANGED <<dialog, jobs, worker, reply, said, canceled, conn, opening, alive, wires, server>>

-----------------------------------------------------------------------------
(* The GUI thread wakes the worker.  A reply nobody waits for is dropped.  *)

LockedNever == FALSE
Locked == wpc \in {"hsSend", "hsSent", "endSend", "endSent"}     \* m_v2Mutex

SlotReadyData ==
  /\ alive /\ ~Locked /\ gui # << >>
  /\ gui' = Tail(gui)
  /\ LET m == Head(gui)
         rs == [up |-> m.up, result |-> m.result, task |-> m.task, from |-> m.from]
     IN CASE m.type = "hs" /\ hsPending ->
               /\ hsRs' = rs /\ hsPending' = FALSE
               /\ woken' = (woken \/ wpc = "hsWait")
               /\ UNCHANGED <<endRs, endPending>>
          [] m.type = "end" /\ endPending ->
               /\ endRs' = rs /\ endPending' = FALSE
               /\ woken' = (woken \/ wpc = "endWait")
               /\ UNCHANGED <<hsRs, hsPending>>
          [] OTHER -> UNCHANGED reply
  /\ UNCHANGED <<dialog, jobs, worker, said, canceled, net, link, toClient, gone, server>>

-----------------------------------------------------------------------------
(* The worker thread.                                                      *)

(* What no step of the worker changes.                                     *)
Still == UNCHANGED <<dialog, toClient, gone, gui, server>>

(* Both uploads of a job are made whatever became of the first one.        *)
EndUpload(say) ==
  /\ said' = say
  /\ woken' = FALSE /\ task' = 0 /\ offset' = 0
  /\ IF item = job.img
     THEN wpc' = "begin" /\ item' = job.file /\ up' = up + 1 /\ UNCHANGED job
     ELSE wpc' = "idle" /\ item' = NoItem /\ job' = NoJob /\ UNCHANGED up

TakeJob ==
  /\ alive /\ wpc = "idle" /\ jobs # << >>
  /\ job' = Head(jobs) /\ jobs' = Tail(jobs)
  /\ item' = Head(jobs).img /\ up' = up + 1 /\ wpc' = "begin"
  /\ UNCHANGED <<task, offset, reply, canceled, net, link, said>> /\ Still

Begin ==
  /\ alive /\ wpc = "begin"
  /\ \/ /\ EndUpload("noFile")
        /\ UNCHANGED <<hsPending, hsRs, endPending, endRs, canceled>>
     \/ /\ canceled' = FALSE /\ said' = "none"
        /\ hsPending' = TRUE
        /\ wpc' = "hsSend"
        /\ UNCHANGED <<job, item, up, task, offset, hsRs, endPending, endRs, woken>>
  /\ UNCHANGED <<jobs, net, link>> /\ Still

WorkerReopen ==
  /\ wpc \in {"hsSend", "blocks", "endSend"} /\ opening # "worker"
  /\ wpc = "blocks" => ~canceled /\ offset < Size(item)
  /\ Reopen("worker")
  /\ UNCHANGED <<jobs, worker, reply, canceled, link, said>> /\ Still

HsSend ==
  /\ wpc = "hsSend"
  /\ \E r \in {-1, 1} : SendData([type |-> "rq", up |-> up, item |-> item], r)
  /\ wpc' = "hsSent"
  /\ UNCHANGED <<jobs, job, item, up, task, offset, reply, canceled, said>> /\ Still

(* The wait gives the mutex free; it ends by wakeOne or by its time-out,   *)
(* which has to get the mutex back before it can take pending away.        *)
Wait ==
  /\ alive
  /\ \/ wpc = "hsSent" /\ wpc' = "hsWait"
     \/ wpc = "endSent" /\ wpc' = "endWait"
  /\ UNCHANGED <<jobs, job, item, up, task, offset, reply, canceled, net, link, said>>
  /\ Still

TimeOutNever == FALSE /\ UNCHANGED vars
TimeOut ==
  /\ alive /\ ~woken
  /\ \/ wpc = "hsWait" /\ wpc' = "hsExpired"
     \/ wpc = "endWait" /\ wpc' = "endExpired"
  /\ UNCHANGED <<jobs, job, item, up, task, offset, reply, canceled, net, link, said>>
  /\ Still

(* The upload is ended without a look at what the wait returned.           *)
ExpireUnchecked ==
  /\ alive
  /\ \/ /\ wpc = "hsExpired" /\ hsPending' = FALSE
        /\ EndUpload(IF hsRs.result = "instant" THEN "instant" ELSE "timeout")
        /\ UNCHANGED endPending
     \/ /\ wpc = "endExpired" /\ endPending' = FALSE
        /\ EndUpload(IF endRs.result = "ok" THEN "ok" ELSE "endTimeout")
        /\ UNCHANGED hsPending
  /\ UNCHANGED <<jobs, hsRs, endRs, canceled, net, link>> /\ Still

Expire ==
  /\ alive
  /\ \/ wpc = "hsExpired" /\ hsPending' = FALSE /\ EndUpload("timeout") /\ UNCHANGED endPending
     \/ wpc = "endExpired" /\ endPending' = FALSE /\ EndUpload("endTimeout") /\ UNCHANGED hsPending
  /\ UNCHANGED <<jobs, hsRs, endRs, canceled, net, link>> /\ Still

HsGot ==
  /\ alive /\ wpc = "hsWait" /\ woken
  /\ \/ hsRs.result = "fail" /\ EndUpload("refused")
     \/ hsRs.result = "busy" /\ EndUpload("busy")
     \/ hsRs.result = "instant" /\ EndUpload("instant")
     \/ hsRs.result = "go" /\ EndUpload("unread")     \* the file cannot be opened
     \/ /\ hsRs.result = "go"
        /\ task' = hsRs.task /\ offset' = hsRs.from
        /\ wpc' = "blocks" /\ woken' = FALSE
        /\ UNCHANGED <<job, item, up, said>>
  /\ UNCHANGED <<jobs, hsPending, hsRs, endPending, endRs, canceled, net, link>>
  /\ Still

SendBlock ==
  /\ wpc = "blocks" /\ (canceled => opening = "worker") /\ offset < Size(item)
  /\ \E r \in {-1, 1} :
       /\ SendData([type |-> "block", task |-> task, offset |-> offset, item |-> item], r)
       /\ IF Sent(r) THEN offset' = offset + 1 /\ UNCHANGED <<wpc, job, item, up, task, woken, said>>
                     ELSE EndUpload("paused")
  /\ UNCHANGED <<jobs, hsPending, hsRs, endPending, endRs, canceled>> /\ Still

(* The file is sent, cannot be read on, or the upload was cancelled.       *)
BlocksEnd ==
  /\ alive /\ wpc = "blocks" /\ opening # "worker"
  /\ wpc' = "after"
  /\ UNCHANGED <<jobs, job, item, up, task, offset, reply, canceled, net, link, said>>
  /\ Still

After ==
  /\ alive /\ wpc = "after"
  /\ IF canceled
     THEN EndUpload("canceled") /\ UNCHANGED endPending
     ELSE /\ endPending' = TRUE /\ wpc' = "endSend"
          /\ UNCHANGED <<job, item, up, task, offset, woken, said>>
  /\ UNCHANGED <<jobs, hsPending, hsRs, endRs, canceled, net, link>> /\ Still

EndSend ==
  /\ wpc = "endSend"
  /\ \E r \in {-1, 1} : SendData([type |-> "end", up |-> up, task |-> task], r)
  /\ wpc' = "endSent"
  /\ UNCHANGED <<jobs, job, item, up, task, offset, reply, canceled, said>> /\ Still

EndGot ==
  /\ alive /\ wpc = "endWait" /\ woken
  /\ EndUpload(endRs.result)
  /\ UNCHANGED <<jobs, hsPending, hsRs, endPending, endRs, canceled, net, link>>
  /\ Still

-----------------------------------------------------------------------------
(* The server, and the network.                                            *)

Answered(c, m) == toClient' = [toClient EXCEPT ![c] = Append(@, m)]
Rs(type, u, result, t, from) == [type |-> type, up |-> u, result |-> result, task |-> t,
                                 from |-> from]
Taken(i) == \E t \in DOMAIN tasks : tasks[t].item = i
Without(ts) == [t \in DOMAIN tasks \ ts |-> tasks[t]]

UploadV2Rq(c, m) ==
  LET i == m.item
      say(result, t) == Answered(c, Rs("hs", m.up, result, t, Len(parts[i])))
  IN CASE i \in stored -> say("instant", 0) /\ UNCHANGED server
       [] i \notin stored /\ Taken(i) -> say("busy", 0) /\ UNCHANGED server
       [] OTHER ->
            \/ say("fail", 0) /\ UNCHANGED server
            \/ /\ say("go", nextTask)
               /\ tasks' = [t \in DOMAIN tasks \cup {nextTask} |->
                              IF t = nextTask THEN [item |-> i, conn |-> c] ELSE tasks[t]]
               /\ nextTask' = nextTask + 1
               /\ UNCHANGED <<parts, stored>>

(* A block is taken on any connection; its task names the file.            *)
UploadBlockRqV2(m) ==
  /\ parts' = IF m.task \in DOMAIN tasks /\ m.offset <= Len(parts[tasks[m.task].item])
              THEN [parts EXCEPT ![tasks[m.task].item] =
                      [k \in 1 .. (IF m.offset < Len(@) THEN Len(@) ELSE m.offset + 1) |->
                         IF k = m.offset + 1 THEN m.item ELSE @[k]]]
              ELSE parts
  /\ UNCHANGED <<toClient, tasks, nextTask, stored>>

UploadEndRqV2(c, m) ==
  IF m.task \notin DOMAIN tasks
  THEN UNCHANGED <<toClient, server>>
  ELSE LET i == tasks[m.task].item IN
       /\ Answered(c, Rs("end", m.up, IF parts[i] = Whole(i) THEN "ok" ELSE "bad", 0, 0))
       /\ stored' = IF parts[i] = Whole(i) THEN stored \cup {i} ELSE stored
       /\ parts' = [parts EXCEPT ![i] = << >>]
       /\ tasks' = Without({m.task})
       /\ UNCHANGED nextTask

Serve(c) ==
  /\ c \notin gone /\ toServer[c] # << >>
  /\ toServer' = [toServer EXCEPT ![c] = Tail(@)]
  /\ LET m == Head(toServer[c]) IN
     \/ m.type = "rq" /\ UploadV2Rq(c, m)
     \/ m.type = "block" /\ UploadBlockRqV2(m)
     \/ m.type = "end" /\ UploadEndRqV2(c, m)
  /\ UNCHANGED <<dialog, jobs, worker, reply, said, canceled, net, peer, gone, gui>>

(* The connection ends with an orderly close or with a reset.              *)
Break(c) ==
  /\ peer[c] = "open"
  /\ \E how \in {"fin", "rst"} : peer' = [peer EXCEPT ![c] = how]
  /\ UNCHANGED <<dialog, jobs, worker, reply, said, canceled, net, toServer, toClient, gone, gui,
                 server>>

(* The server notices: what it has not read is lost, and the tasks of the  *)
(* connection go, their .part stays.                                       *)
OnClientDisconnect(c) ==
  /\ peer[c] \in {"fin", "rst"} /\ c \notin gone
  /\ gone' = gone \cup {c}
  /\ tasks' = Without({t \in DOMAIN tasks : tasks[t].conn = c})
  /\ toServer' = [toServer EXCEPT ![c] = << >>]
  /\ UNCHANGED <<dialog, jobs, worker, reply, said, canceled, net, peer, toClient, gui, parts,
                 nextTask, stored>>

-----------------------------------------------------------------------------
Dialog == (\E v \in Video : Browse(v)) \/ BeginUpload \/ Reshow \/ CancelUpload
Work == TakeJob \/ Begin \/ WorkerReopen \/ HsSend \/ Wait \/ TimeOut \/ Expire \/ HsGot
        \/ SendBlock \/ BlocksEnd \/ After \/ EndSend \/ EndGot
Net == Receive \/ RecvEnd \/ SlotReadyData \/ GuiSend
       \/ \E c \in Conn : Serve(c) \/ Break(c) \/ OnClientDisconnect(c)
Next == Dialog \/ Work \/ Net
Spec == Init /\ [][Next]_vars /\ WF_vars(Work)

-----------------------------------------------------------------------------
(* No lost wake-up: while the worker waits and was not woken, its reply    *)
(* has not been taken from the queue (UploadFile sets pending and sends    *)
(* inside the mutex, onlinedialog.cpp:510).                                *)
NoLostWakeUp ==
  /\ wpc = "hsWait" /\ ~woken => hsPending
  /\ wpc = "endWait" /\ ~woken => endPending

(* A reply stored for an upload whose handshake was its own is its own too:*)
(* replies carry no request, only the order of the queues keeps the END of *)
(* an earlier upload, also one that timed out, away from this one.  Then   *)
(* "uploaded" is said of a file the server has stored.                     *)
ToldTheTruth ==
  [][(said = "none" /\ said' \in {"ok", "instant"} /\ hsRs.up = up) => item \in stored]_vars

(* What is uploaded as the picture of a video starts with a picture of     *)
(* that video, whatever was chosen, failed or left over before.            *)
PictureOfVideo ==
  \A j \in {jobs[k] : k \in 1 .. Len(jobs)} \cup ({job} \ {NoJob}) : j.img[1] = j.file

(* No lost reply, lost connection or silent server keeps the worker from   *)
(* the next upload (the time-outs of onlinedialog.cpp:516 and 598).        *)
WorkerComesBack == wpc # "idle" ~> (wpc = "idle" \/ ~alive)
=============================================================================
