------------------------- MODULE UploadClientProofs -------------------------
(***************************************************************************)
(* Theorems about UploadClient, for any videos, numbers of uploads,        *)
(* connections and bounds: the worker never waits for a wake-up that has   *)
(* been spent; what is asked for as the picture of a video shows it; and   *)
(* "uploaded" is said of stored files only.                                *)
(***************************************************************************)
EXTENDS UploadClient, WellFoundedInduction, TLAPS

-----------------------------------------------------------------------------
(* The wake-ups.                                                           *)

(* Pending is set before the mutex is taken for the wait and cleared, with *)
(* the mutex, by the slot that wakes the worker or by the worker itself.   *)
HsWaits == /\ wpc \in {"hsSend", "hsSent"} => hsPending
           /\ wpc = "hsWait" /\ ~woken => hsPending
EndWaits == /\ wpc \in {"endSend", "endSent"} => endPending
            /\ wpc = "endWait" /\ ~woken => endPending
WakeInv == HsWaits /\ EndWaits

LEMMA WakeInit == Init => WakeInv
  BY DEF Init, WakeInv, HsWaits, EndWaits

(* The end of an upload leaves the waiting states.                         *)
LEMMA EndLeaves ==
  ASSUME NEW say, EndUpload(say)
  PROVE  WakeInv'
  BY DEF EndUpload, WakeInv, HsWaits, EndWaits

(* What the worker does not do leaves its waits alone.                     *)
LEMMA OthersKeep ==
  ASSUME WakeInv, UNCHANGED <<wpc, reply>>
  PROVE  WakeInv'
  BY DEF WakeInv, HsWaits, EndWaits, reply

(* The slot cannot have the mutex while the worker has it.                 *)
LEMMA SlotKeeps ==
  ASSUME WakeInv, SlotReadyData
  PROVE  WakeInv'
  <1>1. /\ UNCHANGED wpc /\ wpc \notin {"hsSend", "hsSent", "endSend", "endSent"}
    BY DEF SlotReadyData, Locked, worker
  <1>2. \/ UNCHANGED endPending /\ woken' = (woken \/ wpc = "hsWait")
        \/ UNCHANGED hsPending /\ woken' = (woken \/ wpc = "endWait")
        \/ UNCHANGED <<hsPending, endPending, woken>>
    BY DEF SlotReadyData, reply
  <1>3. QED
    BY <1>1, <1>2 DEF WakeInv, HsWaits, EndWaits

(* The handshake.                                                          *)
LEMMA HandshakeKeeps ==
  ASSUME WakeInv, TakeJob \/ Begin \/ HsSend \/ HsGot
  PROVE  WakeInv'
  <1>1. CASE TakeJob
    BY <1>1 DEF TakeJob, WakeInv, HsWaits, EndWaits
  <1>2. CASE Begin
    <2>1. CASE EndUpload("noFile")
      BY <2>1, EndLeaves
    <2>2. CASE wpc' = "hsSend" /\ hsPending'
      BY <2>2 DEF WakeInv, HsWaits, EndWaits
    <2>3. QED
      BY <1>2, <2>1, <2>2 DEF Begin
  <1>3. CASE HsSend
    BY <1>3 DEF HsSend, reply, WakeInv, HsWaits, EndWaits
  <1>4. CASE HsGot
    <2>1. CASE \E say \in Said : EndUpload(say)
      BY <2>1, EndLeaves
    <2>2. CASE wpc' = "blocks"
      BY <2>2 DEF WakeInv, HsWaits, EndWaits
    <2>3. QED
      BY <1>4, <2>1, <2>2 DEF HsGot, Said
  <1>5. QED
    BY <1>1, <1>2, <1>3, <1>4

(* The waits, and their time-outs.                                         *)
LEMMA WaitsKeep ==
  ASSUME WakeInv, Wait \/ TimeOut \/ Expire
  PROVE  WakeInv'
  <1>1. CASE Wait
    BY <1>1 DEF Wait, reply, WakeInv, HsWaits, EndWaits
  <1>2. CASE TimeOut
    BY <1>2 DEF TimeOut, WakeInv, HsWaits, EndWaits
  <1>3. CASE Expire
    <2>1. EndUpload("timeout") \/ EndUpload("endTimeout")
      BY <1>3 DEF Expire
    <2>2. QED
      BY <2>1, EndLeaves
  <1>4. QED
    BY <1>1, <1>2, <1>3

(* Blocks and END.                                                         *)
LEMMA TransferKeeps ==
  ASSUME WakeInv, WorkerReopen \/ SendBlock \/ BlocksEnd \/ After \/ EndSend \/ EndGot
  PROVE  WakeInv'
  <1>1. CASE WorkerReopen
    BY <1>1, OthersKeep DEF WorkerReopen, worker
  <1>2. CASE SendBlock
    <2>1. CASE EndUpload("paused")
      BY <2>1, EndLeaves
    <2>2. CASE wpc = "blocks" /\ UNCHANGED wpc
      BY <2>2 DEF WakeInv, HsWaits, EndWaits
    <2>3. QED
      BY <1>2, <2>1, <2>2 DEF SendBlock
  <1>3. CASE BlocksEnd
    BY <1>3 DEF BlocksEnd, WakeInv, HsWaits, EndWaits
  <1>4. CASE After
    <2>1. CASE EndUpload("canceled")
      BY <2>1, EndLeaves
    <2>2. CASE wpc' = "endSend" /\ endPending'
      BY <2>2 DEF WakeInv, HsWaits, EndWaits
    <2>3. QED
      BY <1>4, <2>1, <2>2 DEF After
  <1>5. CASE EndSend
    BY <1>5 DEF EndSend, reply, WakeInv, HsWaits, EndWaits
  <1>6. CASE EndGot
    BY <1>6, EndLeaves DEF EndGot
  <1>7. QED
    BY <1>1, <1>2, <1>3, <1>4, <1>5, <1>6

LEMMA WakeNext == WakeInv /\ [Next]_vars => WakeInv'
  <1> SUFFICES ASSUME WakeInv, [Next]_vars PROVE WakeInv'
    OBVIOUS
  <1>1. CASE Dialog
    BY <1>1, OthersKeep DEF Dialog, Browse, BeginUpload, Reshow, CancelUpload, worker
  <1>2. CASE Work
    BY <1>2, HandshakeKeeps, WaitsKeep, TransferKeeps DEF Work
  <1>3. CASE Net
    <2>1. CASE SlotReadyData
      BY <2>1, SlotKeeps
    <2>2. CASE Receive \/ RecvEnd \/ GuiSend
      BY <2>2, OthersKeep DEF Receive, RecvEnd, GuiSend, worker
    <2>3. CASE \E c \in Conn : Serve(c) \/ Break(c) \/ OnClientDisconnect(c)
      BY <2>3, OthersKeep DEF Serve, Break, OnClientDisconnect, worker
    <2>4. QED
      BY <1>3, <2>1, <2>2, <2>3 DEF Net
  <1>4. CASE UNCHANGED vars
    BY <1>4, OthersKeep DEF vars, worker
  <1>5. QED
    BY <1>1, <1>2, <1>3, <1>4 DEF Next

(* UploadFile sets pending and sends inside the mutex that its wait gives  *)
(* up (onlinedialog.cpp:510): a reply that is early, late or in the middle *)
(* of a time-out never leaves the worker waiting for a spent wake-up.      *)
THEOREM WakeUpSafe == Spec => []NoLostWakeUp
  <1>1. WakeInv => NoLostWakeUp
    BY DEF WakeInv, HsWaits, EndWaits, NoLostWakeUp
  <1>2. QED
    BY <1>1, WakeInit, WakeNext, PTL DEF Spec

-----------------------------------------------------------------------------
(* Types.  A job is a video and a gif that begins with a picture of it.    *)

Pair == {j \in Job : j.img[1] = j.file}
Ask == [type : {"rq"}, up : Upload, item : Item]
       \cup [type : {"block"}, task : Nat, offset : 0 .. Blocks - 1, item : Item]
       \cup [type : {"end"}, up : Upload, task : Nat]
HsResult == {"go", "fail", "busy", "instant"}
EndResult == {"ok", "bad"}
HsTold == [type : {"hs"}, up : Upload, result : HsResult, task : Nat, from : 0 .. Blocks]
EndTold == [type : {"end"}, up : Upload, result : EndResult, task : Nat, from : 0 .. Blocks]
Told == HsTold \cup EndTold
Kept(results) == [up : 0 .. 2 * MaxJobs, result : results, task : Nat, from : 0 .. Blocks]

DialogOK ==
  /\ jpg \in [1 .. MaxPics -> Video \cup {NoVideo}]
  /\ chosen \in Pair \cup {NoJob}
  /\ enabled => chosen \in Pair
  /\ asked \in 0 .. MaxJobs
  /\ jobs \in Seq(Pair) /\ Len(jobs) <= asked

(* Each job taken is two calls of UploadFile, numbered one after the other. *)
CallsMade == 2 * (asked - Len(jobs))
WorkerOK ==
  /\ wpc \in Wpc /\ up \in Nat /\ task \in Nat /\ offset \in 0 .. Blocks
  /\ wpc = "idle" => job = NoJob /\ item = NoItem /\ up = CallsMade
  /\ wpc # "idle" => /\ job \in Pair /\ up > 0
                     /\ \/ item = job.img /\ up = CallsMade - 1
                        \/ item = job.file /\ up = CallsMade
  /\ said \in Said
  /\ hsRs \in Kept(HsResult \cup {"none"}) /\ endRs \in Kept(EndResult \cup {"none"})

WiresOK ==
  /\ conn \in Conn /\ opening \in {"none", "worker", "gui"}
  /\ toServer \in [Conn -> Seq(Ask)] /\ toClient \in [Conn -> Seq(Told)]
  /\ peer \in [Conn -> {"none", "open", "fin", "rst"}]
  /\ gone \subseteq Conn /\ gui \in Seq(Told)

ServerOK ==
  /\ parts \in [Item -> Seq(Item)]
  /\ \A i \in Item : Len(parts[i]) <= Blocks
  /\ stored \subseteq Item
  /\ nextTask \in Nat \ {0}
  /\ tasks \in [DOMAIN tasks -> [item : Item, conn : Conn]]
  /\ \A t \in DOMAIN tasks : t \in Nat /\ t < nextTask

FlagsOK ==
  /\ enabled \in BOOLEAN /\ canceled \in BOOLEAN /\ woken \in BOOLEAN
  /\ hsPending \in BOOLEAN /\ endPending \in BOOLEAN
  /\ connected \in BOOLEAN /\ alive \in BOOLEAN

TypeInv == DialogOK /\ WorkerOK /\ WiresOK /\ ServerOK

LEMMA Least ==
  ASSUME NEW S, S \subseteq Nat, S # {}
  PROVE  \E k \in S : \A j \in S : k <= j
  <1>1. \E k \in S : \A j \in S : ~(<<j, k>> \in OpToRel(<, Nat))
    BY NatLessThanWellFounded, WFMin, Zenon
  <1>2. PICK k \in S : \A j \in S : ~(<<j, k>> \in OpToRel(<, Nat))
    BY <1>1
  <1>3. ASSUME NEW j \in S PROVE k <= j
    <2>1. j \in Nat /\ k \in Nat /\ ~(j < k)
      BY <1>2, <1>3 DEF OpToRel
    <2>2. QED
      BY <2>1
  <1>4. QED
    BY <1>3

(* ffmpeg finds the first picture, and goes on to the first gap.           *)
LEMMA GifMade ==
  ASSUME NEW v \in Video, NEW s \in [1 .. MaxPics -> Video \cup {NoVideo}], s[1] = v
  PROVE  [file |-> v, img |-> GifFrom(s)] \in Pair
  <1> DEFINE Fits(m) == /\ \A k \in 1 .. m : s[k] # NoVideo
                        /\ m < MaxPics => s[m + 1] = NoVideo
             S == {m \in 0 .. MaxPics : m = MaxPics \/ s[m + 1] = NoVideo}
             n == CHOOSE m \in 0 .. MaxPics : Fits(m)
  <1>1. MaxPics \in Nat /\ MaxPics > 0
    BY BoundsAssumption
  <1>2. PICK k \in S : \A j \in S : k <= j
    <2>1. S \subseteq Nat /\ MaxPics \in S
      BY <1>1
    <2>2. QED
      BY <2>1, Least
  <1>3. ASSUME NEW j \in 1 .. k PROVE s[j] # NoVideo
    <2>1. j - 1 \in 0 .. MaxPics /\ j - 1 \notin S
      BY <1>1, <1>2
    <2>2. QED
      BY <2>1
  <1>4. \E m \in 0 .. MaxPics : Fits(m)
    BY <1>1, <1>2, <1>3
  <1>5. n \in 0 .. MaxPics /\ Fits(n)
    BY <1>4
  <1>6. n # 0
    BY <1>1, <1>5, NoVideoAssumption
  <1>7. GifFrom(s) = SubSeq(s, 1, n)
    BY DEF GifFrom
  <1> HIDE DEF n
  <1>8. s \in Seq(Video \cup {NoVideo}) /\ Len(s) = MaxPics
    BY <1>1
  <1>9. SubSeq(s, 1, n) = [i \in 1 .. n |-> s[i]]
    BY <1>1, <1>5, <1>8
  <1>10. \A i \in 1 .. n : s[i] \in Video
    BY <1>1, <1>5
  <1>11. GifFrom(s) \in [1 .. n -> Video] /\ GifFrom(s)[1] = v
    <2>1. GifFrom(s) = [i \in 1 .. n |-> s[i]] /\ 1 \in 1 .. n
      BY <1>1, <1>5, <1>6, <1>7, <1>9
    <2>2. [i \in 1 .. n |-> s[i]] \in [1 .. n -> Video]
      BY <1>10
    <2>3. QED
      BY <2>1, <2>2
  <1>12. GifFrom(s) \in Gif
    BY <1>1, <1>5, <1>6, <1>11 DEF Gif
  <1>13. QED
    BY <1>11, <1>12 DEF Pair, Job

(* A job's two files are different items.                                  *)
LEMMA Files ==
  ASSUME NEW j \in Pair
  PROVE  /\ j.img \in Item /\ j.file \in Item /\ j.img # j.file /\ j # NoJob
  BY ItemAssumption, NoVideoAssumption DEF Pair, Job, Item, NoJob

LEMMA SizeType ==
  ASSUME NEW i
  PROVE  Size(i) \in 1 .. Blocks
  BY BoundsAssumption DEF Size

LEMMA ItemInUse ==
  ASSUME TypeInv, wpc # "idle"
  PROVE  job \in Pair /\ item \in Item /\ up \in Upload
  <1>1. job \in Pair /\ item \in Item
    BY Files DEF TypeInv, WorkerOK
  <1>2. /\ up \in Nat /\ up > 0
        /\ asked \in Nat /\ asked <= MaxJobs /\ Len(jobs) \in Nat
        /\ up <= CallsMade
    BY DEF TypeInv, WorkerOK, DialogOK, CallsMade
  <1>3. QED
    BY <1>1, <1>2, BoundsAssumption DEF CallsMade, Upload

-----------------------------------------------------------------------------
(* Types: who leaves what alone.                                           *)

LEMMA DialogSame ==
  ASSUME DialogOK, UNCHANGED <<jpg, chosen, enabled, asked, jobs>>
  PROVE  DialogOK'
  BY DEF DialogOK

LEMMA WorkerSame ==
  ASSUME WorkerOK, UNCHANGED <<worker, reply, said, asked, jobs>>
  PROVE  WorkerOK'
  BY DEF WorkerOK, worker, reply, CallsMade

LEMMA WiresSame ==
  ASSUME WiresOK, UNCHANGED <<net, wires>>
  PROVE  WiresOK'
  BY DEF WiresOK, net, wires, link

LEMMA ServerSame ==
  ASSUME ServerOK, UNCHANGED server
  PROVE  ServerOK'
  BY DEF ServerOK, server

LEMMA EndTypes ==
  ASSUME TypeInv, wpc # "idle", NEW say \in Said, EndUpload(say),
         UNCHANGED <<asked, jobs, hsRs, endRs>>
  PROVE  WorkerOK'
  <1>1. /\ said' = say /\ woken' = FALSE /\ task' = 0 /\ offset' = 0
        /\ UNCHANGED <<asked, jobs, hsRs, endRs>>
    BY DEF EndUpload
  <1>2. CallsMade' = CallsMade
    BY DEF CallsMade
  <1>3. /\ job \in Pair /\ job.img # job.file /\ up \in Nat /\ up > 0
        /\ Blocks \in Nat
    BY ItemInUse, Files, BoundsAssumption DEF TypeInv, WorkerOK
  <1>4. CASE item = job.img
    <2>1. wpc' = "begin" /\ item' = job.file /\ up' = up + 1 /\ job' = job
      BY <1>4 DEF EndUpload
    <2>2. CallsMade \in Int /\ up = CallsMade - 1
      BY <1>3, <1>4 DEF TypeInv, WorkerOK, DialogOK, CallsMade
    <2>3. QED
      BY <1>1, <1>2, <1>3, <2>1, <2>2 DEF TypeInv, WorkerOK, Wpc
  <1>5. CASE item # job.img
    <2>1. wpc' = "idle" /\ item' = NoItem /\ up' = up /\ job' = NoJob
      BY <1>5 DEF EndUpload
    <2>2. up = CallsMade
      BY <1>5 DEF TypeInv, WorkerOK
    <2>3. QED
      BY <1>1, <1>2, <1>3, <2>1, <2>2 DEF TypeInv, WorkerOK, Wpc
  <1>6. QED
    BY <1>4, <1>5

(* A step of the worker within a call of UploadFile.                       *)
LEMMA GoesOnTypes ==
  ASSUME TypeInv, wpc # "idle", wpc' \in Wpc \ {"idle"},
         UNCHANGED <<asked, jobs, job, item, up>>,
         task' \in Nat, offset' \in 0 .. Blocks, said' \in Said,
         hsRs' \in Kept(HsResult \cup {"none"}), endRs' \in Kept(EndResult \cup {"none"})
  PROVE  WorkerOK'
  BY DEF TypeInv, WorkerOK, CallsMade

(* What a sent packet does to the wires.                                   *)
LEMMA SendTypes ==
  ASSUME WiresOK, NEW m \in Ask, NEW r, SendData(m, r), UNCHANGED <<toClient, gone, gui>>
  PROVE  WiresOK'
  <1>1. CASE UNCHANGED <<net, peer>> /\ Transmit(conn, m, r)
    <2>1. toServer' \in [Conn -> Seq(Ask)]
      <3>1. Append(toServer[conn], m) \in Seq(Ask)
        BY DEF WiresOK
      <3>2. QED
        BY <1>1, <3>1 DEF WiresOK, Transmit
    <2>2. QED
      BY <1>1, <2>1 DEF WiresOK, net
  <1>2. CASE /\ Connect("worker")
             /\ toServer' = [toServer EXCEPT ![conn + 1] = <<m>>]
             /\ peer' = [peer EXCEPT ![conn + 1] = "open"]
    <2>1. conn' \in Conn /\ <<m>> \in Seq(Ask)
      BY <1>2, BoundsAssumption DEF WiresOK, Connect, Conn
    <2>2. QED
      BY <1>2, <2>1 DEF WiresOK, Connect
  <1>3. CASE ConnectFails("worker") /\ UNCHANGED <<toServer, peer>>
    BY <1>3 DEF WiresOK, ConnectFails
  <1>4. QED
    BY <1>1, <1>2, <1>3 DEF SendData

-----------------------------------------------------------------------------
(* Types: the steps.                                                       *)

LEMMA TypesInit == Init => TypeInv
  <1> SUFFICES ASSUME Init PROVE TypeInv
    OBVIOUS
  <1>1. /\ Blocks \in Nat /\ MaxJobs \in Nat /\ MaxConn \in Nat /\ MaxConn > 0
    BY BoundsAssumption
  <1>2. DialogOK
    <2>1. jpg \in [1 .. MaxPics -> Video \cup {NoVideo}]
      BY DEF Init
    <2>2. jobs \in Seq(Pair) /\ Len(jobs) = 0
      BY DEF Init
    <2>3. QED
      BY <1>1, <2>1, <2>2 DEF Init, DialogOK
  <1>3. WorkerOK
    <2>1. NoRs \in Kept(HsResult \cup {"none"}) /\ NoRs \in Kept(EndResult \cup {"none"})
      BY <1>1 DEF Kept, NoRs
    <2>2. CallsMade = 0
      BY DEF Init, CallsMade
    <2>3. QED
      BY <1>1, <2>1, <2>2 DEF Init, WorkerOK, Wpc, Said
  <1>4. WiresOK
    BY <1>1 DEF Init, WiresOK, Conn
  <1>5. ServerOK
    BY <1>1 DEF Init, ServerOK
  <1>6. QED
    BY <1>2, <1>3, <1>4, <1>5 DEF TypeInv

LEMMA BrowseTypes ==
  ASSUME TypeInv, NEW v \in Video, Browse(v)
  PROVE  DialogOK'
  <1>1. PicsOf(v) \in Nat /\ PicsOf(v) <= MaxPics /\ MaxPics \in Nat /\ MaxPics > 0
    BY FramesAssumption, BoundsAssumption DEF PicsOf
  <1>2. ASSUME NEW n \in 0 .. PicsOf(v) PROVE Saved(v, n) \in [1 .. MaxPics -> Video \cup {NoVideo}]
    BY <1>1 DEF Saved, TypeInv, DialogOK
  <1>3. CASE \E n \in 0 .. PicsOf(v) :
               jpg' = Saved(v, n) /\ enabled' = FALSE /\ UNCHANGED chosen
    BY <1>2, <1>3 DEF Browse, TypeInv, DialogOK
  <1>4. CASE /\ PicsOf(v) > 0 /\ jpg' = Saved(v, PicsOf(v))
             /\ chosen' = Chosen(v, GifFrom(jpg')) /\ enabled' = TRUE
    <2>1. jpg' \in [1 .. MaxPics -> Video \cup {NoVideo}]
      BY <1>1, <1>2, <1>4
    <2>2. jpg'[1] = v
      BY <1>1, <1>4 DEF Saved
    <2>3. chosen' \in Pair
      BY <1>4, <2>1, <2>2, GifMade DEF Chosen
    <2>4. QED
      BY <1>4, <2>1, <2>3 DEF Browse, TypeInv, DialogOK
  <1>5. QED
    BY <1>3, <1>4 DEF Browse

LEMMA DialogTypes ==
  ASSUME TypeInv, Dialog
  PROVE  TypeInv'
  <1>1. CASE \E v \in Video : Browse(v)
    BY <1>1, BrowseTypes, WorkerSame, WiresSame, ServerSame DEF Browse, TypeInv, WorkerOK
  <1>2. CASE BeginUpload
    <2>1. DialogOK'
      <3>1. /\ jobs' = Append(jobs, chosen) /\ chosen \in Pair /\ jobs \in Seq(Pair)
            /\ asked' = asked + 1 /\ asked \in 0 .. MaxJobs /\ asked < MaxJobs
            /\ Len(jobs) <= asked
        BY <1>2 DEF BeginUpload, TypeInv, DialogOK
      <3>2. jobs' \in Seq(Pair) /\ Len(jobs') = Len(jobs) + 1 /\ Len(jobs) \in Nat
        BY <3>1
      <3>3. asked' \in 0 .. MaxJobs /\ Len(jobs') <= asked'
        BY <3>1, <3>2, BoundsAssumption
      <3>4. QED
        BY <1>2, <3>2, <3>3 DEF BeginUpload, TypeInv, DialogOK
    <2>2. CallsMade' = CallsMade
      BY <1>2 DEF BeginUpload, TypeInv, DialogOK, CallsMade
    <2>3. WorkerOK'
      BY <1>2, <2>2 DEF BeginUpload, TypeInv, WorkerOK, worker, reply
    <2>4. QED
      BY <1>2, <2>1, <2>3, WiresSame, ServerSame DEF BeginUpload, TypeInv
  <1>3. CASE Reshow
    <2>1. DialogOK'
      BY <1>3 DEF Reshow, TypeInv, DialogOK
    <2>2. QED
      BY <1>3, <2>1, WorkerSame, WiresSame, ServerSame DEF Reshow, TypeInv, WorkerOK
  <1>4. CASE CancelUpload
    BY <1>4, DialogSame, WorkerSame, WiresSame, ServerSame DEF CancelUpload, TypeInv, dialog
  <1>5. QED
    BY <1>1, <1>2, <1>3, <1>4 DEF Dialog

LEMMA TakeTypes ==
  ASSUME TypeInv, TakeJob
  PROVE  DialogOK' /\ WorkerOK'
  <1>1. /\ jobs \in Seq(Pair) /\ jobs # << >> /\ Len(jobs) <= asked
        /\ asked \in Nat /\ up = CallsMade /\ up \in Nat
        /\ jobs' = Tail(jobs) /\ job' = Head(jobs) /\ item' = Head(jobs).img
        /\ up' = up + 1 /\ wpc' = "begin"
        /\ UNCHANGED <<jpg, chosen, enabled, asked, task, offset, hsRs, endRs, said>>
    BY DEF TakeJob, TypeInv, DialogOK, WorkerOK, Still, dialog, reply
  <1>2. /\ Tail(jobs) \in Seq(Pair) /\ Len(Tail(jobs)) = Len(jobs) - 1
        /\ Head(jobs) \in Pair /\ Len(jobs) \in Nat
    BY <1>1
  <1>3. CallsMade' = CallsMade + 2 /\ CallsMade \in Int
    BY <1>1, <1>2 DEF CallsMade
  <1>4. DialogOK'
    BY <1>1, <1>2 DEF TypeInv, DialogOK
  <1>5. WorkerOK'
    BY <1>1, <1>2, <1>3 DEF TypeInv, WorkerOK, Wpc
  <1>6. QED
    BY <1>4, <1>5

LEMMA BeginTypes ==
  ASSUME TypeInv, Begin
  PROVE  WorkerOK'
  <1>1. CASE EndUpload("noFile") /\ UNCHANGED <<hsRs, endRs>>
    BY <1>1, EndTypes DEF Begin, Still, dialog, Said
  <1>2. CASE /\ said' = "none" /\ wpc' = "hsSend"
             /\ UNCHANGED <<job, item, up, task, offset, hsRs, endRs>>
    BY <1>2, GoesOnTypes DEF Begin, Still, dialog, Said, Wpc, TypeInv, WorkerOK
  <1>3. QED
    BY <1>1, <1>2 DEF Begin

LEMMA RestingTypes ==
  ASSUME TypeInv, WorkerReopen \/ HsSend \/ Wait \/ TimeOut \/ BlocksEnd \/ EndSend
  PROVE  WorkerOK'
  <1>1. CASE WorkerReopen
    BY <1>1, WorkerSame DEF WorkerReopen, Still, dialog, TypeInv
  <1>2. CASE HsSend \/ Wait \/ TimeOut \/ BlocksEnd \/ EndSend
    <2>1. /\ UNCHANGED <<asked, jobs, job, item, up, task, offset, hsRs, endRs, said>>
          /\ wpc # "idle" /\ wpc' \in Wpc \ {"idle"}
      BY <1>2 DEF HsSend, Wait, TimeOut, BlocksEnd, EndSend, Still, dialog, reply, Wpc
    <2>2. QED
      BY <2>1, GoesOnTypes DEF TypeInv, WorkerOK
  <1>3. QED
    BY <1>1, <1>2

LEMMA ExpireTypes ==
  ASSUME TypeInv, Expire
  PROVE  WorkerOK'
  <1>1. EndUpload("timeout") \/ EndUpload("endTimeout")
    BY DEF Expire
  <1>2. wpc # "idle" /\ UNCHANGED <<asked, jobs, hsRs, endRs>>
    BY DEF Expire, Still, dialog
  <1>3. QED
    BY <1>1, <1>2, EndTypes DEF Said

LEMMA HsGotTypes ==
  ASSUME TypeInv, HsGot
  PROVE  WorkerOK'
  <1>1. wpc = "hsWait" /\ UNCHANGED <<asked, jobs, hsRs, endRs>>
    BY DEF HsGot, Still, dialog
  <1>2. CASE \E say \in Said : EndUpload(say)
    BY <1>1, <1>2, EndTypes
  <1>3. CASE /\ task' = hsRs.task /\ offset' = hsRs.from /\ wpc' = "blocks"
             /\ UNCHANGED <<job, item, up, said>>
    <2>1. hsRs.task \in Nat /\ hsRs.from \in 0 .. Blocks
      BY DEF TypeInv, WorkerOK, Kept
    <2>2. QED
      BY <1>1, <1>3, <2>1, GoesOnTypes DEF TypeInv, WorkerOK, Wpc
  <1>4. QED
    BY <1>2, <1>3 DEF HsGot, Said

LEMMA SendBlockTypes ==
  ASSUME TypeInv, SendBlock
  PROVE  WorkerOK'
  <1>1. wpc = "blocks" /\ offset < Size(item) /\ UNCHANGED <<asked, jobs, hsRs, endRs>>
    BY DEF SendBlock, Still, dialog
  <1>2. CASE EndUpload("paused")
    BY <1>1, <1>2, EndTypes DEF Said
  <1>3. CASE offset' = offset + 1 /\ UNCHANGED <<wpc, job, item, up, task, said>>
    <2>1. Size(item) \in 1 .. Blocks /\ Blocks \in Nat
      BY SizeType, BoundsAssumption
    <2>2. offset \in 0 .. Blocks
      BY DEF TypeInv, WorkerOK
    <2>3. offset' \in 0 .. Blocks
      BY <1>1, <1>3, <2>1, <2>2
    <2>4. QED
      BY <1>1, <1>3, <2>3, GoesOnTypes DEF TypeInv, WorkerOK, Wpc
  <1>4. QED
    BY <1>2, <1>3 DEF SendBlock

LEMMA EndingTypes ==
  ASSUME TypeInv, After \/ EndGot
  PROVE  WorkerOK'
  <1>1. CASE After
    <2>1. wpc = "after" /\ UNCHANGED <<asked, jobs, hsRs, endRs>>
      BY <1>1 DEF After, Still, dialog
    <2>2. CASE EndUpload("canceled")
      BY <2>1, <2>2, EndTypes DEF Said
    <2>3. CASE wpc' = "endSend" /\ UNCHANGED <<job, item, up, task, offset, said>>
      BY <2>1, <2>3, GoesOnTypes DEF TypeInv, WorkerOK, Wpc
    <2>4. QED
      BY <1>1, <2>2, <2>3 DEF After
  <1>2. CASE EndGot
    <2>1. /\ wpc = "endWait" /\ EndUpload(endRs.result)
          /\ UNCHANGED <<asked, jobs, hsRs, endRs>>
      BY <1>2 DEF EndGot, Still, dialog
    <2>2. endRs.result \in Said
      BY DEF TypeInv, WorkerOK, Kept, EndResult, Said
    <2>3. QED
      BY <2>1, <2>2, EndTypes
  <1>3. QED
    BY <1>1, <1>2

LEMMA WorkWires ==
  ASSUME TypeInv, Work
  PROVE  WiresOK'
  <1>1. UNCHANGED <<toClient, gone, gui>>
    BY DEF Work, TakeJob, Begin, WorkerReopen, HsSend, Wait, TimeOut, Expire, HsGot,
       SendBlock, BlocksEnd, After, EndSend, EndGot, Still
  <1>2. CASE UNCHANGED <<net, link>>
    BY <1>1, <1>2, WiresSame DEF TypeInv, wires
  <1>3. CASE WorkerReopen
    BY <1>1, <1>3 DEF WorkerReopen, Reopen, link, TypeInv, WiresOK
  <1>4. CASE HsSend
    <2>1. [type |-> "rq", up |-> up, item |-> item] \in Ask
      BY <1>4, ItemInUse DEF HsSend, Ask
    <2>2. QED
      BY <1>1, <1>4, <2>1, SendTypes DEF HsSend, TypeInv
  <1>5. CASE SendBlock
    <2>1. [type |-> "block", task |-> task, offset |-> offset, item |-> item] \in Ask
      <3>1. wpc # "idle" /\ offset < Size(item) /\ offset \in 0 .. Blocks /\ task \in Nat
        BY <1>5 DEF SendBlock, TypeInv, WorkerOK
      <3>2. Size(item) \in 1 .. Blocks /\ Blocks \in Nat
        BY SizeType, BoundsAssumption
      <3>3. offset \in 0 .. Blocks - 1
        BY <3>1, <3>2
      <3>4. QED
        BY <3>1, <3>3, ItemInUse DEF Ask
    <2>2. QED
      BY <1>1, <1>5, <2>1, SendTypes DEF SendBlock, TypeInv
  <1>6. CASE EndSend
    <2>1. [type |-> "end", up |-> up, task |-> task] \in Ask
      <3>1. wpc # "idle" /\ task \in Nat
        BY <1>6 DEF EndSend, TypeInv, WorkerOK
      <3>2. QED
        BY <3>1, ItemInUse DEF Ask
    <2>2. QED
      BY <1>1, <1>6, <2>1, SendTypes DEF EndSend, TypeInv
  <1>7. QED
    BY <1>2, <1>3, <1>4, <1>5, <1>6 DEF Work, TakeJob, Begin, Wait, TimeOut, Expire, HsGot,
       BlocksEnd, After, EndGot

LEMMA WorkTypes ==
  ASSUME TypeInv, Work
  PROVE  TypeInv'
  <1>1. WorkerOK'
    BY TakeTypes, BeginTypes, RestingTypes, ExpireTypes, HsGotTypes, SendBlockTypes, EndingTypes
       DEF Work
  <1>2. UNCHANGED <<jpg, chosen, enabled, asked, server>>
    BY DEF Work, TakeJob, Begin, WorkerReopen, HsSend, Wait, TimeOut, Expire, HsGot,
       SendBlock, BlocksEnd, After, EndSend, EndGot, Still, dialog
  <1>3. DialogOK'
    <2>1. CASE UNCHANGED jobs
      BY <1>2, <2>1, DialogSame DEF TypeInv
    <2>2. QED
      BY <2>1, TakeTypes DEF Work, Begin, WorkerReopen, HsSend, Wait, TimeOut, Expire, HsGot,
         SendBlock, BlocksEnd, After, EndSend, EndGot
  <1>4. QED
    BY <1>1, <1>2, <1>3, WorkWires, ServerSame DEF TypeInv

LEMMA GuiTypes ==
  ASSUME TypeInv, GuiSend
  PROVE  WiresOK'
  <1>1. UNCHANGED <<toServer, toClient, gone, gui>>
    BY DEF GuiSend
  <1>2. conn' \in Conn /\ opening' \in {"none", "worker", "gui"}
    BY BoundsAssumption DEF GuiSend, Reopen, Connect, ConnectFails, TypeInv, WiresOK, Conn
  <1>3. peer' \in [Conn -> {"none", "open", "fin", "rst"}]
    BY DEF GuiSend, TypeInv, WiresOK
  <1>4. QED
    BY <1>1, <1>2, <1>3 DEF TypeInv, WiresOK

LEMMA ReceiveTypes ==
  ASSUME TypeInv, Receive
  PROVE  WiresOK'
  <1>1. toClient[conn] \in Seq(Told) /\ toClient[conn] # << >> /\ gui \in Seq(Told)
    BY DEF Receive, TypeInv, WiresOK
  <1>2. Head(toClient[conn]) \in Told /\ Tail(toClient[conn]) \in Seq(Told)
    BY <1>1
  <1>3. gui' \in Seq(Told)
    BY <1>1, <1>2 DEF Receive
  <1>4. QED
    BY <1>2, <1>3 DEF Receive, TypeInv, WiresOK, net, link

LEMMA SlotTypes ==
  ASSUME TypeInv, SlotReadyData
  PROVE  WorkerOK' /\ WiresOK'
  <1>1. gui \in Seq(Told) /\ gui # << >>
    BY DEF SlotReadyData, TypeInv, WiresOK
  <1>2. Head(gui) \in Told /\ Tail(gui) \in Seq(Told)
    BY <1>1
  <1>3. WiresOK'
    BY <1>2 DEF SlotReadyData, TypeInv, WiresOK, net, link
  <1> DEFINE m == Head(gui)
             rs == [up |-> m.up, result |-> m.result, task |-> m.task, from |-> m.from]
  <1>4. ASSUME m.type = "hs" PROVE rs \in Kept(HsResult \cup {"none"})
    <2>1. m \in HsTold
      BY <1>2, <1>4 DEF Told, EndTold
    <2>2. QED
      BY <2>1, BoundsAssumption DEF HsTold, Kept, Upload
  <1>5. ASSUME m.type = "end" PROVE rs \in Kept(EndResult \cup {"none"})
    <2>1. m \in EndTold
      BY <1>2, <1>5 DEF Told, HsTold
    <2>2. QED
      BY <2>1, BoundsAssumption DEF EndTold, Kept, Upload
  <1>6. /\ hsRs' = hsRs \/ (m.type = "hs" /\ hsRs' = rs)
        /\ endRs' = endRs \/ (m.type = "end" /\ endRs' = rs)
    BY DEF SlotReadyData, reply
  <1>7. /\ hsRs' \in Kept(HsResult \cup {"none"})
        /\ endRs' \in Kept(EndResult \cup {"none"})
    BY <1>4, <1>5, <1>6 DEF TypeInv, WorkerOK
  <1>8. WorkerOK'
    <2>1. UNCHANGED <<asked, jobs, worker, said>>
      BY DEF SlotReadyData, dialog
    <2>2. QED
      BY <1>7, <2>1 DEF TypeInv, WorkerOK, CallsMade, worker
  <1>9. QED
    BY <1>3, <1>8

(* The server: the files it collects stay in their sizes.                  *)
LEMMA RqTypes ==
  ASSUME TypeInv, NEW c \in Conn, NEW m \in Ask, m.type = "rq", UploadV2Rq(c, m)
  PROVE  ServerOK' /\ toClient' \in [Conn -> Seq(Told)]
  <1>1. m.item \in Item /\ m.up \in Upload
    BY DEF Ask
  <1>2. Len(parts[m.item]) \in 0 .. Blocks
    BY <1>1 DEF TypeInv, ServerOK
  <1> DEFINE say(result, t) == Answered(c, Rs("hs", m.up, result, t, Len(parts[m.item])))
  <1>3. ASSUME NEW result \in HsResult, NEW t \in Nat, say(result, t)
        PROVE  toClient' \in [Conn -> Seq(Told)]
    <2>1. Rs("hs", m.up, result, t, Len(parts[m.item])) \in Told
      BY <1>1, <1>2 DEF Rs, Told, HsTold
    <2>2. QED
      BY <1>3, <2>1 DEF Answered, TypeInv, WiresOK
  <1>4. CASE UNCHANGED server /\ (say("instant", 0) \/ say("busy", 0) \/ say("fail", 0))
    BY <1>3, <1>4, ServerSame DEF HsResult, TypeInv
  <1>5. CASE /\ say("go", nextTask)
             /\ tasks' = [t \in DOMAIN tasks \cup {nextTask} |->
                            IF t = nextTask THEN [item |-> m.item, conn |-> c] ELSE tasks[t]]
             /\ nextTask' = nextTask + 1
             /\ UNCHANGED <<parts, stored>>
    <2>1. nextTask \in Nat \ {0}
      BY DEF TypeInv, ServerOK
    <2>2. toClient' \in [Conn -> Seq(Told)]
      BY <1>3, <1>5, <2>1 DEF HsResult
    <2>3. DOMAIN tasks' = DOMAIN tasks \cup {nextTask}
      BY <1>5
    <2>4. tasks' \in [DOMAIN tasks' -> [item : Item, conn : Conn]]
      BY <1>1, <1>5, <2>3 DEF TypeInv, ServerOK
    <2>5. \A t \in DOMAIN tasks' : t \in Nat /\ t < nextTask'
      BY <1>5, <2>1, <2>3 DEF TypeInv, ServerOK
    <2>6. QED
      BY <1>5, <2>1, <2>2, <2>4, <2>5 DEF TypeInv, ServerOK
  <1>6. QED
    BY <1>4, <1>5 DEF UploadV2Rq

LEMMA BlockTypes ==
  ASSUME TypeInv, NEW m \in Ask, m.type = "block", UploadBlockRqV2(m)
  PROVE  ServerOK'
  <1>1. m.offset \in 0 .. Blocks - 1 /\ m.item \in Item /\ Blocks \in Nat
    BY BoundsAssumption DEF Ask
  <1>2. CASE parts' = parts
    BY <1>2 DEF UploadBlockRqV2, TypeInv, ServerOK
  <1>3. CASE /\ m.task \in DOMAIN tasks /\ m.offset <= Len(parts[tasks[m.task].item])
             /\ parts' # parts
    <2> DEFINE i == tasks[m.task].item
               n == IF m.offset < Len(parts[i]) THEN Len(parts[i]) ELSE m.offset + 1
               p == [k \in 1 .. n |-> IF k = m.offset + 1 THEN m.item ELSE parts[i][k]]
    <2>1. i \in Item /\ parts[i] \in Seq(Item) /\ Len(parts[i]) \in 0 .. Blocks
      BY <1>3 DEF TypeInv, ServerOK
    <2>2. n \in 0 .. Blocks /\ \A k \in 1 .. n : k # m.offset + 1 => k \in 1 .. Len(parts[i])
      BY <1>1, <1>3, <2>1
    <2>3. parts' = [parts EXCEPT ![i] = p]
      BY <1>3 DEF UploadBlockRqV2
    <2>4. \A k \in 1 .. Len(parts[i]) : parts[i][k] \in Item
      BY <2>1
    <2> HIDE DEF i, n
    <2>5. p \in [1 .. n -> Item]
      BY <1>1, <2>2, <2>4
    <2>6. p \in Seq(Item) /\ Len(p) = n
      BY <2>2, <2>5
    <2> HIDE DEF p
    <2>7. parts' \in [Item -> Seq(Item)] /\ \A j \in Item : Len(parts'[j]) <= Blocks
      BY <2>1, <2>2, <2>3, <2>6 DEF TypeInv, ServerOK
    <2>8. UNCHANGED <<tasks, nextTask, stored>>
      BY DEF UploadBlockRqV2
    <2>9. QED
      BY <2>7, <2>8 DEF TypeInv, ServerOK
  <1>4. QED
    BY <1>2, <1>3 DEF UploadBlockRqV2

LEMMA EndRqTypes ==
  ASSUME TypeInv, NEW c \in Conn, NEW m \in Ask, m.type = "end", UploadEndRqV2(c, m)
  PROVE  ServerOK' /\ toClient' \in [Conn -> Seq(Told)]
  <1>1. m.up \in Upload
    BY DEF Ask
  <1>2. CASE UNCHANGED <<toClient, server>>
    BY <1>2, ServerSame DEF TypeInv, WiresOK
  <1>3. CASE m.task \in DOMAIN tasks
    <2> DEFINE i == tasks[m.task].item
               ok == parts[i] = Whole(i)
    <2>1. i \in Item
      BY <1>3 DEF TypeInv, ServerOK
    <2>2. /\ Answered(c, Rs("end", m.up, IF ok THEN "ok" ELSE "bad", 0, 0))
          /\ stored' = IF ok THEN stored \cup {i} ELSE stored
          /\ parts' = [parts EXCEPT ![i] = << >>]
          /\ tasks' = Without({m.task}) /\ UNCHANGED nextTask
      BY <1>3 DEF UploadEndRqV2
    <2> HIDE DEF i, ok
    <2>3. Rs("end", m.up, IF ok THEN "ok" ELSE "bad", 0, 0) \in Told
      BY <1>1, BoundsAssumption DEF Rs, Told, EndTold, EndResult
    <2>4. toClient' \in [Conn -> Seq(Told)]
      BY <2>2, <2>3 DEF Answered, TypeInv, WiresOK
    <2>5. parts' \in [Item -> Seq(Item)] /\ \A j \in Item : Len(parts'[j]) <= Blocks
      <3>1. << >> \in Seq(Item) /\ Len(<< >>) <= Blocks
        BY BoundsAssumption
      <3>2. QED
        BY <2>1, <2>2, <3>1 DEF TypeInv, ServerOK
    <2>6. /\ tasks' \in [DOMAIN tasks' -> [item : Item, conn : Conn]]
          /\ DOMAIN tasks' \subseteq DOMAIN tasks
      BY <2>2 DEF Without, TypeInv, ServerOK
    <2>7. QED
      BY <2>1, <2>2, <2>4, <2>5, <2>6 DEF TypeInv, ServerOK
  <1>4. QED
    BY <1>2, <1>3 DEF UploadEndRqV2

LEMMA ServeTypes ==
  ASSUME TypeInv, NEW c \in Conn, Serve(c)
  PROVE  ServerOK' /\ WiresOK'
  <1>1. toServer[c] \in Seq(Ask) /\ toServer[c] # << >>
    BY DEF Serve, TypeInv, WiresOK
  <1>2. Head(toServer[c]) \in Ask /\ Tail(toServer[c]) \in Seq(Ask)
    BY <1>1
  <1>3. ServerOK' /\ toClient' \in [Conn -> Seq(Told)]
    <2>1. CASE Head(toServer[c]).type = "rq" /\ UploadV2Rq(c, Head(toServer[c]))
      BY <1>2, <2>1, RqTypes
    <2>2. CASE Head(toServer[c]).type = "block" /\ UploadBlockRqV2(Head(toServer[c]))
      BY <1>2, <2>2, BlockTypes DEF UploadBlockRqV2, TypeInv, WiresOK
    <2>3. CASE Head(toServer[c]).type = "end" /\ UploadEndRqV2(c, Head(toServer[c]))
      BY <1>2, <2>3, EndRqTypes
    <2>4. QED
      BY <2>1, <2>2, <2>3 DEF Serve
  <1>4. WiresOK'
    BY <1>2, <1>3 DEF Serve, TypeInv, WiresOK, net
  <1>5. QED
    BY <1>3, <1>4

LEMMA NetTypes ==
  ASSUME TypeInv, Net
  PROVE  TypeInv'
  <1>1. UNCHANGED <<jpg, chosen, enabled, asked, jobs, worker, said>>
    BY DEF Net, Receive, RecvEnd, SlotReadyData, GuiSend, Serve, Break, OnClientDisconnect,
       dialog
  <1>2. DialogOK'
    BY <1>1, DialogSame DEF TypeInv
  <1>3. CASE SlotReadyData
    BY <1>2, <1>3, SlotTypes, ServerSame DEF SlotReadyData, TypeInv
  <1>4. CASE UNCHANGED reply /\ ~SlotReadyData
    <2>1. WorkerOK'
      BY <1>1, <1>4, WorkerSame DEF TypeInv
    <2>2. CASE Receive \/ RecvEnd \/ GuiSend
      <3>1. ServerOK'
        BY <2>2, ServerSame DEF Receive, RecvEnd, GuiSend, TypeInv
      <3>2. ASSUME RecvEnd PROVE WiresOK'
        BY <3>2 DEF RecvEnd, TypeInv, WiresOK, wires, link
      <3>3. QED
        BY <1>2, <2>1, <2>2, <3>1, <3>2, ReceiveTypes, GuiTypes DEF TypeInv
    <2>3. ASSUME NEW c \in Conn, Serve(c) PROVE TypeInv'
      BY <1>2, <2>1, <2>3, ServeTypes DEF TypeInv
    <2>4. ASSUME NEW c \in Conn, Break(c) PROVE TypeInv'
      <3>1. WiresOK'
        BY <2>4 DEF Break, TypeInv, WiresOK, net
      <3>2. QED
        BY <1>2, <2>1, <2>4, <3>1, ServerSame DEF Break, TypeInv
    <2>5. ASSUME NEW c \in Conn, OnClientDisconnect(c) PROVE TypeInv'
      <3>1. WiresOK'
        BY <2>5 DEF OnClientDisconnect, TypeInv, WiresOK, net
      <3>2. /\ tasks' \in [DOMAIN tasks' -> [item : Item, conn : Conn]]
            /\ DOMAIN tasks' \subseteq DOMAIN tasks
        BY <2>5 DEF OnClientDisconnect, Without, TypeInv, ServerOK
      <3>3. ServerOK'
        BY <2>5, <3>2 DEF OnClientDisconnect, TypeInv, ServerOK
      <3>4. QED
        BY <1>2, <2>1, <3>1, <3>3 DEF TypeInv
    <2>6. QED
      BY <1>4, <2>2, <2>3, <2>4, <2>5 DEF Net
  <1>5. QED
    BY <1>3, <1>4 DEF Net, Receive, RecvEnd, GuiSend, Serve, Break, OnClientDisconnect

LEMMA TypesNext == TypeInv /\ [Next]_vars => TypeInv'
  <1> SUFFICES ASSUME TypeInv, [Next]_vars PROVE TypeInv'
    OBVIOUS
  <1>1. CASE UNCHANGED vars
    BY <1>1, DialogSame, WorkerSame, WiresSame, ServerSame DEF vars, dialog, TypeInv
  <1>2. QED
    BY <1>1, DialogTypes, WorkTypes, NetTypes DEF Next

(* The two flags of a wait, the cancel flag and those of the connection.    *)
LEMMA FlagsInit == Init => FlagsOK
  BY DEF Init, FlagsOK

LEMMA FlagsNext == FlagsOK /\ [Next]_vars => FlagsOK'
  <1> SUFFICES ASSUME FlagsOK, [Next]_vars PROVE FlagsOK'
    OBVIOUS
  <1>1. CASE SlotReadyData
    <2>1. /\ enabled' = enabled /\ canceled' = canceled /\ connected' = connected
          /\ alive' = alive
          /\ hsPending' = hsPending \/ hsPending' = FALSE
          /\ endPending' = endPending \/ endPending' = FALSE
      BY <1>1 DEF SlotReadyData, dialog, net, reply
    <2>2. \/ woken' = (woken \/ wpc = "hsWait")
          \/ woken' = (woken \/ wpc = "endWait")
          \/ woken' = woken
      BY <1>1 DEF SlotReadyData, reply
    <2>3. woken' \in BOOLEAN
      BY <2>2, Zenon DEF FlagsOK
    <2>4. QED
      BY <2>1, <2>3, Zenon DEF FlagsOK
  <1>2. CASE ~SlotReadyData
    <2>1. /\ enabled' \in {enabled, TRUE, FALSE} /\ canceled' \in {canceled, TRUE, FALSE}
          /\ hsPending' \in {hsPending, TRUE, FALSE} /\ endPending' \in {endPending, TRUE, FALSE}
          /\ woken' \in {woken, FALSE}
          /\ connected' \in {connected, TRUE, FALSE} /\ alive' \in {alive, FALSE}
      <3> USE <1>2 DEF Next, vars, dialog, reply, net, Dialog, Browse, BeginUpload, Reshow,
          CancelUpload, Work, TakeJob, Begin, WorkerReopen, HsSend, Wait, TimeOut, Expire, HsGot,
          SendBlock, BlocksEnd, After, EndSend, EndGot, Still, Net, Receive, RecvEnd, GuiSend,
          Serve, Break, OnClientDisconnect
      <3>1. enabled' \in {enabled, TRUE, FALSE} /\ canceled' \in {canceled, TRUE, FALSE}
        OBVIOUS
      <3>2. woken' \in {woken, FALSE}
        BY DEF EndUpload
      <3>3. hsPending' \in {hsPending, TRUE, FALSE} /\ endPending' \in {endPending, TRUE, FALSE}
        OBVIOUS
      <3>4. connected' \in {connected, TRUE, FALSE} /\ alive' \in {alive, FALSE}
        BY DEF SendData, Reopen, Connect, ConnectFails
      <3>5. QED
        BY <3>1, <3>2, <3>3, <3>4
    <2>2. ASSUME NEW f \in BOOLEAN, NEW g \in {f, TRUE, FALSE} PROVE g \in BOOLEAN
      BY Zenon
    <2>3. /\ enabled' \in BOOLEAN /\ canceled' \in BOOLEAN /\ woken' \in BOOLEAN
          /\ connected' \in BOOLEAN /\ alive' \in BOOLEAN
      BY <2>1, <2>2, Zenon DEF FlagsOK
    <2>4. hsPending' \in BOOLEAN /\ endPending' \in BOOLEAN
      BY <2>1, <2>2, Zenon DEF FlagsOK
    <2>5. QED
      BY <2>3, <2>4, Zenon DEF FlagsOK
  <1>3. QED
    BY <1>1, <1>2

(* The client's records, wires, files and locks keep their types.           *)
THEOREM ClientTypes == Spec => []TypeOK
  <1>1. TypeInv /\ FlagsOK => TypeOK
    <2> SUFFICES ASSUME TypeInv, FlagsOK PROVE TypeOK
      OBVIOUS
    <2>1. {hsPending, endPending, woken, canceled, connected, alive} \subseteq BOOLEAN
      BY Zenon DEF FlagsOK
    <2>2. \A q \in Seq(Ask) : \A k \in 1 .. Len(q) : q[k] \in Message
      <3>1. Ask \subseteq Message
        BY BoundsAssumption DEF Ask, Message
      <3>2. QED
        BY <3>1
    <2>3. \A q \in Seq(Told) : \A k \in 1 .. Len(q) : q[k] \in Answer
      <3>1. Told \subseteq Answer
        BY BoundsAssumption DEF Told, HsTold, EndTold, HsResult, EndResult, Answer, Result
      <3>2. QED
        BY <3>1
    <2>4. jobs \in Seq(Job) /\ Len(jobs) <= MaxJobs /\ chosen \in Job \cup {NoJob}
          /\ job \in Job \cup {NoJob} /\ enabled \in BOOLEAN
      <3>1. Pair \subseteq Job /\ jobs \in Seq(Pair) /\ Len(jobs) <= asked /\ asked \in 0 .. MaxJobs
            /\ MaxJobs \in Nat
        BY BoundsAssumption DEF Pair, TypeInv, DialogOK
      <3>2. jobs \in Seq(Job) /\ Len(jobs) <= MaxJobs
        BY <3>1
      <3>3. QED
        BY <3>1, <3>2 DEF TypeInv, DialogOK, WorkerOK, FlagsOK
    <2>5. /\ item \in Item \cup {NoItem}
          /\ up \in 0 .. 2 * MaxJobs
      <3>1. CASE wpc # "idle"
        BY <3>1, ItemInUse, BoundsAssumption DEF Upload
      <3>2. CASE wpc = "idle"
        BY <3>2, BoundsAssumption DEF TypeInv, WorkerOK, DialogOK, CallsMade
      <3>3. QED
        BY <3>1, <3>2
    <2>6. QED
      BY <2>1, <2>2, <2>3, <2>4, <2>5 DEF TypeOK, TypeInv, DialogOK, WorkerOK, WiresOK, ServerOK
  <1>2. QED
    BY <1>1, TypesInit, TypesNext, FlagsInit, FlagsNext, PTL DEF Spec

(* UploadDialog numbers its pictures from 0 and never removes any, and the *)
(* button stays enabled: what is asked for as the picture of a video       *)
(* still begins with a picture of that video (uploaddialog.cpp:165).       *)
THEOREM PictureIsItsVideo == Spec => []PictureOfVideo
  <1>1. TypeInv => PictureOfVideo
    BY DEF TypeInv, DialogOK, WorkerOK, Pair, PictureOfVideo
  <1>2. QED
    BY <1>1, TypesInit, TypesNext, PTL DEF Spec

-----------------------------------------------------------------------------
(* The order of the replies.                                               *)

(* What a reply or a request says of the call of UploadFile it belongs to; *)
(* a block says nothing.                                                   *)
Named(s) == {k \in 1 .. Len(s) : s[k].type # "block"}
InOrder(s) == \A j, k \in Named(s) : j < k => s[j].up <= s[k].up
Ups(s) == {s[k].up : k \in Named(s)}
Before(s, t) == \A x \in Ups(s), y \in Ups(t) : x <= y
Within(s, low, high) == \A x \in Ups(s) : x \in Nat /\ low <= x /\ x <= high

(* What the GUI thread, the client and the server have still to read, in   *)
(* this order: the calls come in theirs.                                   *)
Flow(g, t, s, low, high) ==
  /\ InOrder(g) /\ InOrder(t) /\ InOrder(s)
  /\ Before(g, t) /\ Before(g, s) /\ Before(t, s)
  /\ Within(g, low, high) /\ Within(t, low, high) /\ Within(s, low, high)

OrderInv ==
  /\ Flow(gui, toClient[conn], toServer[conn], hsRs.up, up)
  /\ hsRs.up <= up
  /\ \A c \in Conn : c > conn => toServer[c] = << >> /\ toClient[c] = << >>

LEMMA AppendUps ==
  ASSUME NEW S, NEW s \in Seq(S), NEW m \in S
  PROVE  /\ Ups(Append(s, m)) \subseteq Ups(s) \cup {m.up}
         /\ m.type = "block" => Ups(Append(s, m)) \subseteq Ups(s)
  BY DEF Ups, Named

LEMMA TailUps ==
  ASSUME NEW S, NEW s \in Seq(S), s # << >>
  PROVE  /\ Ups(Tail(s)) \subseteq Ups(s)
         /\ Head(s).type # "block" => Head(s).up \in Ups(s)
  BY DEF Ups, Named

LEMMA HeadFirst ==
  ASSUME NEW S, NEW s \in Seq(S), s # << >>, InOrder(s), Head(s).type # "block"
  PROVE  \A x \in Ups(Tail(s)) : Head(s).up <= x
  <1> SUFFICES ASSUME NEW k \in Named(Tail(s)) PROVE Head(s).up <= Tail(s)[k].up
    BY DEF Ups
  <1>1. 1 \in Named(s) /\ k + 1 \in Named(s) /\ 1 < k + 1
    BY DEF Named
  <1>2. s[1] = Head(s) /\ Tail(s)[k] = s[k + 1]
    BY DEF Named
  <1>3. QED
    BY <1>1, <1>2 DEF InOrder

LEMMA AppendOrder ==
  ASSUME NEW S, NEW s \in Seq(S), NEW m \in S, InOrder(s),
         m.type # "block" => \A x \in Ups(s) : x <= m.up
  PROVE  InOrder(Append(s, m))
  <1> SUFFICES ASSUME NEW j \in Named(Append(s, m)), NEW k \in Named(Append(s, m)), j < k
               PROVE  Append(s, m)[j].up <= Append(s, m)[k].up
    BY DEF InOrder
  <1>1. j \in 1 .. Len(s) + 1 /\ k \in 1 .. Len(s) + 1 /\ Len(s) \in Nat
    BY DEF Named
  <1>2. j \in Named(s) /\ Append(s, m)[j] = s[j]
    BY <1>1 DEF Named
  <1>3. CASE k \in 1 .. Len(s)
    <2>1. k \in Named(s) /\ Append(s, m)[k] = s[k]
      BY <1>3 DEF Named
    <2>2. QED
      BY <1>2, <2>1 DEF InOrder
  <1>4. CASE k = Len(s) + 1
    <2>1. Append(s, m)[k] = m /\ m.type # "block"
      BY <1>4 DEF Named
    <2>2. QED
      BY <1>2, <2>1 DEF Ups
  <1>5. QED
    BY <1>1, <1>3, <1>4

LEMMA TailOrder ==
  ASSUME NEW S, NEW s \in Seq(S), s # << >>, InOrder(s)
  PROVE  InOrder(Tail(s))
  <1> SUFFICES ASSUME NEW j \in Named(Tail(s)), NEW k \in Named(Tail(s)), j < k
               PROVE  Tail(s)[j].up <= Tail(s)[k].up
    BY DEF InOrder
  <1>1. /\ j + 1 \in Named(s) /\ Tail(s)[j] = s[j + 1]
        /\ k + 1 \in Named(s) /\ Tail(s)[k] = s[k + 1]
    BY DEF Named
  <1>2. j + 1 < k + 1
    BY DEF Named
  <1>3. QED
    BY <1>1, <1>2 DEF InOrder

(* A request of this call joins the end.                                   *)
LEMMA FlowSend ==
  ASSUME NEW g, NEW t, NEW s \in Seq(Ask), NEW m \in Ask, NEW low, NEW high \in Nat,
         Flow(g, t, s, low, high), m.type # "block" => m.up = high, low <= high
  PROVE  Flow(g, t, Append(s, m), low, high)
  <1>1. InOrder(Append(s, m))
    BY AppendOrder DEF Flow, Within
  <1>2. \A x \in Ups(Append(s, m)) : x \in Ups(s) \/ x = high
    BY AppendUps
  <1>3. Before(g, Append(s, m)) /\ Before(t, Append(s, m))
    BY <1>2 DEF Flow, Before, Within
  <1>4. Within(Append(s, m), low, high)
    BY <1>2 DEF Flow, Within
  <1>5. QED
    BY <1>1, <1>3, <1>4 DEF Flow

(* A request is read and not answered.                                     *)
LEMMA FlowLose ==
  ASSUME NEW g, NEW t, NEW s \in Seq(Ask), s # << >>, NEW low, NEW high,
         Flow(g, t, s, low, high)
  PROVE  Flow(g, t, Tail(s), low, high)
  <1>1. InOrder(Tail(s)) /\ Ups(Tail(s)) \subseteq Ups(s)
    BY TailUps, TailOrder DEF Flow
  <1>2. QED
    BY <1>1 DEF Flow, Before, Within

(* A request is read and answered.                                         *)
LEMMA FlowAnswer ==
  ASSUME NEW g, NEW t \in Seq(Told), NEW s \in Seq(Ask), s # << >>, NEW low, NEW high,
         Flow(g, t, s, low, high),
         NEW a \in Told, Head(s).type # "block", a.up = Head(s).up
  PROVE  Flow(g, Append(t, a), Tail(s), low, high)
  <1>1. Flow(g, t, Tail(s), low, high)
    BY FlowLose
  <1>2. a.up \in Ups(s) /\ \A x \in Ups(Tail(s)) : a.up <= x
    BY TailUps, HeadFirst DEF Flow
  <1>3. \A x \in Ups(Append(t, a)) : x \in Ups(t) \/ x = a.up
    BY AppendUps
  <1>4. InOrder(Append(t, a))
    BY <1>2, AppendOrder DEF Flow, Before
  <1>5. Before(g, Append(t, a)) /\ Within(Append(t, a), low, high)
    BY <1>2, <1>3 DEF Flow, Before, Within
  <1>6. Before(Append(t, a), Tail(s))
    BY <1>1, <1>2, <1>3 DEF Flow, Before
  <1>7. QED
    BY <1>1, <1>4, <1>5, <1>6 DEF Flow

(* A reply reaches the GUI thread's queue.                                 *)
LEMMA FlowReceive ==
  ASSUME NEW g \in Seq(Told), NEW t \in Seq(Told), t # << >>, NEW s, NEW low, NEW high,
         Flow(g, t, s, low, high)
  PROVE  Flow(Append(g, Head(t)), Tail(t), s, low, high)
  <1>1. Head(t) \in Told /\ Head(t).type # "block"
    BY DEF Told, HsTold, EndTold
  <1>2. Head(t).up \in Ups(t) /\ \A x \in Ups(Tail(t)) : Head(t).up <= x
    BY <1>1, TailUps, HeadFirst DEF Flow
  <1>3. InOrder(Tail(t)) /\ Ups(Tail(t)) \subseteq Ups(t)
    BY TailUps, TailOrder DEF Flow
  <1>4. \A x \in Ups(Append(g, Head(t))) : x \in Ups(g) \/ x = Head(t).up
    BY <1>1, AppendUps
  <1>5. InOrder(Append(g, Head(t)))
    BY <1>1, <1>2, AppendOrder DEF Flow, Before
  <1>6. Before(Append(g, Head(t)), s) /\ Within(Append(g, Head(t)), low, high)
    BY <1>2, <1>4 DEF Flow, Before, Within
  <1>7. Before(Append(g, Head(t)), Tail(t))
    BY <1>2, <1>3, <1>4 DEF Flow, Before
  <1>8. QED
    BY <1>3, <1>5, <1>6, <1>7 DEF Flow, Before, Within

(* The GUI thread takes a reply: what follows is not of an earlier call.    *)
LEMMA FlowTake ==
  ASSUME NEW g \in Seq(Told), g # << >>, NEW t, NEW s, NEW low, NEW high,
         Flow(g, t, s, low, high),
         NEW n \in {low, Head(g).up}
  PROVE  Flow(Tail(g), t, s, n, high) /\ low <= Head(g).up /\ Head(g).up <= high
  <1>1. Head(g) \in Told /\ Head(g).type # "block"
    BY DEF Told, HsTold, EndTold
  <1>2. Head(g).up \in Ups(g) /\ \A x \in Ups(Tail(g)) : Head(g).up <= x
    BY <1>1, TailUps, HeadFirst DEF Flow
  <1>3. InOrder(Tail(g)) /\ Ups(Tail(g)) \subseteq Ups(g)
    BY TailUps, TailOrder DEF Flow
  <1>4. Within(Tail(g), n, high) /\ Within(t, n, high) /\ Within(s, n, high)
    BY <1>2, <1>3 DEF Flow, Before, Within
  <1>5. QED
    BY <1>2, <1>3, <1>4 DEF Flow, Before, Within

(* A new connection has nothing on its way.                                *)
LEMMA FlowNew ==
  ASSUME NEW g, NEW t, NEW s, NEW low, NEW high, Flow(g, t, s, low, high)
  PROVE  /\ Flow(g, << >>, << >>, low, high)
         /\ Flow(g, t, << >>, low, high)
  <1>1. Named(<< >>) = {} /\ Ups(<< >>) = {}
    BY DEF Named, Ups
  <1>2. QED
    BY <1>1 DEF Flow, InOrder, Before, Within

(* A later call begins.                                                    *)
LEMMA FlowRaise ==
  ASSUME NEW g, NEW t, NEW s, NEW low, NEW high \in Nat, Flow(g, t, s, low, high),
         NEW n \in {high, high + 1}
  PROVE  Flow(g, t, s, low, n)
  BY DEF Flow, Within

-----------------------------------------------------------------------------
(* The order: the steps.                                                   *)

LEMMA OrderTypes ==
  ASSUME TypeInv
  PROVE  /\ gui \in Seq(Told) /\ conn \in Conn /\ up \in Nat /\ hsRs.up \in Nat
         /\ toClient \in [Conn -> Seq(Told)] /\ toServer \in [Conn -> Seq(Ask)]
  <1>1. hsRs.up \in 0 .. 2 * MaxJobs
    BY DEF TypeInv, WorkerOK, Kept
  <1>2. QED
    BY <1>1, BoundsAssumption DEF TypeInv, WiresOK, WorkerOK

LEMMA OrderInit == Init => OrderInv
  <1> SUFFICES ASSUME Init PROVE OrderInv
    OBVIOUS
  <1>1. Named(<< >>) = {} /\ Ups(<< >>) = {}
    BY DEF Named, Ups
  <1>2. conn \in Conn /\ toClient[conn] = << >> /\ toServer[conn] = << >>
    BY BoundsAssumption DEF Init, Conn
  <1>3. gui = << >> /\ hsRs.up = 0 /\ up = 0
    BY DEF Init, NoRs
  <1>4. Flow(gui, toClient[conn], toServer[conn], hsRs.up, up)
    BY <1>1, <1>2, <1>3 DEF Flow, InOrder, Before, Within
  <1>5. QED
    BY <1>3, <1>4 DEF Init, OrderInv

LEMMA OrderSame ==
  ASSUME TypeInv, OrderInv, UNCHANGED <<gui, toClient, toServer, conn, hsRs>>,
         up' \in {up, up + 1}
  PROVE  OrderInv'
  <1>1. Flow(gui, toClient[conn], toServer[conn], hsRs.up, up')
    BY OrderTypes, FlowRaise DEF OrderInv
  <1>2. QED
    BY <1>1, OrderTypes DEF OrderInv

LEMMA SendOrder ==
  ASSUME TypeInv, OrderInv, NEW m \in Ask, m.type # "block" => m.up = up, NEW r,
         SendData(m, r), UNCHANGED <<toClient, gui, hsRs>>, up' \in {up, up + 1}
  PROVE  OrderInv'
  <1>1. /\ Flow(gui, toClient[conn], toServer[conn], hsRs.up, up) /\ hsRs.up <= up
        /\ \A c \in Conn : c > conn => toServer[c] = << >> /\ toClient[c] = << >>
    BY DEF OrderInv
  <1>2. CASE UNCHANGED <<net, toServer>>
    BY <1>2, OrderSame DEF net
  <1>3. CASE UNCHANGED net /\ toServer' = [toServer EXCEPT ![conn] = Append(@, m)]
    <2>1. Flow(gui, toClient[conn], Append(toServer[conn], m), hsRs.up, up)
      BY <1>1, OrderTypes, FlowSend
    <2>2. Flow(gui, toClient[conn], Append(toServer[conn], m), hsRs.up, up')
      BY <2>1, OrderTypes, FlowRaise
    <2>3. conn' = conn /\ toServer'[conn] = Append(toServer[conn], m)
      BY <1>3, OrderTypes DEF net
    <2>4. \A c \in Conn : c > conn => toServer'[c] = << >> /\ toClient'[c] = << >>
      BY <1>1, <1>3, OrderTypes DEF Conn
    <2>5. QED
      BY <1>1, <2>2, <2>3, <2>4, OrderTypes DEF OrderInv
  <1>4. CASE conn' = conn + 1 /\ conn' \in Conn /\ toServer' = [toServer EXCEPT ![conn + 1] = <<m>>]
    <2>1. toClient[conn'] = << >> /\ <<m>> = Append(<< >>, m) /\ << >> \in Seq(Ask)
      BY <1>1, <1>4, OrderTypes DEF Conn
    <2>2. Flow(gui, << >>, << >>, hsRs.up, up)
      BY <1>1, FlowNew
    <2>3. Flow(gui, << >>, <<m>>, hsRs.up, up)
      BY <1>1, <2>1, <2>2, OrderTypes, FlowSend
    <2>4. Flow(gui, << >>, <<m>>, hsRs.up, up')
      BY <2>3, OrderTypes, FlowRaise
    <2>5. toServer'[conn'] = <<m>>
      BY <1>4, OrderTypes
    <2>6. \A c \in Conn : c > conn' => toServer'[c] = << >> /\ toClient'[c] = << >>
      BY <1>1, <1>4, OrderTypes DEF Conn
    <2>7. QED
      BY <1>1, <2>1, <2>4, <2>5, <2>6, OrderTypes DEF OrderInv
  <1>5. CASE ConnectFails("worker") /\ UNCHANGED toServer
    BY <1>5, OrderSame DEF ConnectFails
  <1>6. QED
    <2>1. Connect("worker") => conn' = conn + 1 /\ conn' \in Conn
      BY OrderTypes, BoundsAssumption DEF Connect, Conn
    <2>2. QED
      BY <1>2, <1>3, <1>4, <1>5, <2>1 DEF SendData, Transmit

LEMMA GuiOrder ==
  ASSUME TypeInv, OrderInv, GuiSend
  PROVE  OrderInv'
  <1>1. UNCHANGED <<gui, toClient, toServer, hsRs, up>>
    BY DEF GuiSend, worker, reply
  <1>2. CASE UNCHANGED conn
    BY <1>1, <1>2, OrderSame
  <1>3. CASE conn' = conn + 1 /\ conn' \in Conn
    <2>1. toClient'[conn'] = << >> /\ toServer'[conn'] = << >>
      BY <1>1, <1>3, OrderTypes DEF OrderInv, Conn
    <2>2. Flow(gui, << >>, << >>, hsRs.up, up)
      BY FlowNew DEF OrderInv
    <2>3. \A c \in Conn : c > conn' => toServer'[c] = << >> /\ toClient'[c] = << >>
      BY <1>1, <1>3, OrderTypes DEF OrderInv, Conn
    <2>4. QED
      BY <1>1, <2>1, <2>2, <2>3 DEF OrderInv
  <1>4. QED
    <2>1. Connect("gui") => conn' = conn + 1 /\ conn' \in Conn
      BY OrderTypes, BoundsAssumption DEF Connect, Conn
    <2>2. QED
      BY <1>2, <1>3, <2>1 DEF GuiSend, Reopen, ConnectFails

LEMMA ReceiveOrder ==
  ASSUME TypeInv, OrderInv, Receive
  PROVE  OrderInv'
  <1>1. /\ toClient[conn] # << >> /\ gui' = Append(gui, Head(toClient[conn]))
        /\ toClient' = [toClient EXCEPT ![conn] = Tail(@)]
        /\ UNCHANGED <<toServer, conn, hsRs, up>>
    BY DEF Receive, worker, reply, net, link
  <1>2. Flow(Append(gui, Head(toClient[conn])), Tail(toClient[conn]), toServer[conn], hsRs.up, up)
    BY <1>1, OrderTypes, FlowReceive DEF OrderInv
  <1>3. toClient'[conn] = Tail(toClient[conn])
    BY <1>1, OrderTypes
  <1>4. \A c \in Conn : c > conn => toServer'[c] = << >> /\ toClient'[c] = << >>
    BY <1>1, OrderTypes DEF OrderInv, Conn
  <1>5. QED
    BY <1>1, <1>2, <1>3, <1>4 DEF OrderInv

LEMMA SlotOrder ==
  ASSUME TypeInv, OrderInv, SlotReadyData
  PROVE  OrderInv'
  <1>1. /\ gui # << >> /\ gui' = Tail(gui) /\ UNCHANGED <<toClient, toServer, conn, up>>
        /\ hsRs'.up \in {hsRs.up, Head(gui).up}
    BY DEF SlotReadyData, worker, reply, net, link
  <1>2. Flow(Tail(gui), toClient[conn], toServer[conn], hsRs'.up, up) /\ Head(gui).up <= up
    BY <1>1, OrderTypes, FlowTake DEF OrderInv
  <1>3. QED
    BY <1>1, <1>2 DEF OrderInv

(* What the server does to its tasks and files, and what its answer says    *)
(* of them.                                                                *)
Grows ==
  /\ stored \subseteq stored'
  /\ nextTask' \in Nat /\ nextTask <= nextTask'
  /\ \A t \in DOMAIN tasks' : t < nextTask => t \in DOMAIN tasks /\ tasks'[t] = tasks[t]
AnswerRight(m, a) ==
  /\ a \in Told /\ m.type # "block" /\ a.up = m.up
  /\ m.type = "rq" =>
       /\ a.type = "hs"
       /\ a.result = "instant" => m.item \in stored'
       /\ a.result = "go" => /\ a.task < nextTask'
                             /\ a.task \in DOMAIN tasks' => tasks'[a.task].item = m.item
  /\ m.type = "end" =>
       /\ a.type = "end" /\ m.task \in DOMAIN tasks
       /\ a.result = "ok" => tasks[m.task].item \in stored'

LEMMA RqAnswer ==
  ASSUME TypeInv, NEW c \in Conn, NEW m \in Ask, m.type = "rq", UploadV2Rq(c, m)
  PROVE  Grows /\ \E a : AnswerRight(m, a) /\ Answered(c, a)
  <1>1. m.item \in Item /\ m.up \in Upload
    BY DEF Ask
  <1>2. Len(parts[m.item]) \in 0 .. Blocks
    BY <1>1 DEF TypeInv, ServerOK
  <1>3. nextTask \in Nat \ {0} /\ \A t \in DOMAIN tasks : t \in Nat /\ t < nextTask
    BY DEF TypeInv, ServerOK
  <1> DEFINE ans(result, t) == Rs("hs", m.up, result, t, Len(parts[m.item]))
  <1>4. \A result \in HsResult, t \in Nat : ans(result, t) \in Told
    BY <1>1, <1>2 DEF Rs, Told, HsTold
  <1>5. CASE m.item \in stored /\ UNCHANGED server /\ Answered(c, ans("instant", 0))
    <2>1. AnswerRight(m, ans("instant", 0))
      <3>1. ans("instant", 0) \in Told
        BY <1>4 DEF HsResult
      <3>2. QED
        BY <1>5, <3>1 DEF AnswerRight, Rs, server
    <2>2. QED
      BY <1>3, <1>5, <2>1 DEF Grows, server
  <1>6. ASSUME NEW result \in {"busy", "fail"}, UNCHANGED server, Answered(c, ans(result, 0))
        PROVE  Grows /\ \E a : AnswerRight(m, a) /\ Answered(c, a)
    <2>1. AnswerRight(m, ans(result, 0))
      <3>1. ans(result, 0) \in Told
        BY <1>4 DEF HsResult
      <3>2. QED
        BY <3>1 DEF AnswerRight, Rs
    <2>2. QED
      BY <1>3, <1>6, <2>1 DEF Grows, server
  <1>7. CASE /\ Answered(c, ans("go", nextTask))
             /\ tasks' = [t \in DOMAIN tasks \cup {nextTask} |->
                            IF t = nextTask THEN [item |-> m.item, conn |-> c] ELSE tasks[t]]
             /\ nextTask' = nextTask + 1
             /\ UNCHANGED <<parts, stored>>
    <2>1. AnswerRight(m, ans("go", nextTask))
      <3>1. ans("go", nextTask) \in Told
        BY <1>3, <1>4 DEF HsResult
      <3>2. nextTask < nextTask' /\ tasks'[nextTask].item = m.item
        BY <1>3, <1>7
      <3>3. QED
        BY <3>1, <3>2 DEF AnswerRight, Rs
    <2>2. Grows
      BY <1>3, <1>7 DEF Grows
    <2>3. QED
      BY <1>7, <2>1, <2>2
  <1>8. QED
    BY <1>5, <1>6, <1>7 DEF UploadV2Rq

LEMMA EndRqAnswer ==
  ASSUME TypeInv, NEW c \in Conn, NEW m \in Ask, m.type = "end", UploadEndRqV2(c, m)
  PROVE  Grows /\ (UNCHANGED toClient \/ \E a : AnswerRight(m, a) /\ Answered(c, a))
  <1>1. m.up \in Upload
    BY DEF Ask
  <1>2. nextTask \in Nat \ {0}
    BY DEF TypeInv, ServerOK
  <1>3. CASE UNCHANGED <<toClient, server>>
    BY <1>2, <1>3 DEF Grows, server
  <1>4. CASE m.task \in DOMAIN tasks
    <2> DEFINE i == tasks[m.task].item
               a == Rs("end", m.up, IF parts[i] = Whole(i) THEN "ok" ELSE "bad", 0, 0)
    <2>1. /\ Answered(c, a)
          /\ stored' = IF parts[i] = Whole(i) THEN stored \cup {i} ELSE stored
          /\ tasks' = Without({m.task}) /\ UNCHANGED nextTask
      BY <1>4 DEF UploadEndRqV2
    <2>2. a \in Told
      BY <1>1, BoundsAssumption DEF Rs, Told, EndTold, EndResult
    <2>3. a.result = "ok" => i \in stored'
      BY <2>1 DEF Rs
    <2>4. AnswerRight(m, a)
      BY <1>4, <2>2, <2>3 DEF AnswerRight, Rs
    <2>5. Grows
      BY <1>2, <2>1 DEF Grows, Without
    <2>6. QED
      BY <2>1, <2>4, <2>5
  <1>5. QED
    BY <1>3, <1>4 DEF UploadEndRqV2

LEMMA ServeEffect ==
  ASSUME TypeInv, NEW c \in Conn, Serve(c)
  PROVE  /\ Grows
         /\ toServer[c] \in Seq(Ask) /\ toServer[c] # << >>
         /\ toServer' = [toServer EXCEPT ![c] = Tail(@)]
         /\ \/ UNCHANGED toClient
            \/ \E a : AnswerRight(Head(toServer[c]), a) /\ Answered(c, a)
  <1>1. /\ toServer[c] \in Seq(Ask) /\ toServer[c] # << >>
        /\ toServer' = [toServer EXCEPT ![c] = Tail(@)]
    BY DEF Serve, TypeInv, WiresOK
  <1>2. Head(toServer[c]) \in Ask
    BY <1>1
  <1>3. CASE Head(toServer[c]).type = "rq" /\ UploadV2Rq(c, Head(toServer[c]))
    BY <1>1, <1>2, <1>3, RqAnswer
  <1>4. CASE UploadBlockRqV2(Head(toServer[c]))
    <2>1. UNCHANGED <<toClient, tasks, nextTask, stored>>
      BY <1>4 DEF UploadBlockRqV2
    <2>2. nextTask \in Nat
      BY DEF TypeInv, ServerOK
    <2>3. QED
      BY <1>1, <2>1, <2>2 DEF Grows
  <1>5. CASE Head(toServer[c]).type = "end" /\ UploadEndRqV2(c, Head(toServer[c]))
    BY <1>1, <1>2, <1>5, EndRqAnswer
  <1>6. QED
    BY <1>3, <1>4, <1>5 DEF Serve

LEMMA ServeOrder ==
  ASSUME TypeInv, OrderInv, NEW c \in Conn, Serve(c)
  PROVE  OrderInv'
  <1> DEFINE m == Head(toServer[c])
  <1>1. UNCHANGED <<gui, conn, hsRs, up>>
    BY DEF Serve, worker, reply, net
  <1>2. /\ toServer[c] \in Seq(Ask) /\ toServer[c] # << >>
        /\ toServer' = [toServer EXCEPT ![c] = Tail(@)]
        /\ \/ UNCHANGED toClient
           \/ \E a : AnswerRight(m, a) /\ Answered(c, a)
    BY ServeEffect
  <1>3. ~(c > conn)
    BY <1>2 DEF OrderInv
  <1>4. \A d \in Conn : d > conn => toServer'[d] = << >> /\ toClient'[d] = << >>
    BY <1>2, <1>3, OrderTypes DEF OrderInv, Conn, Answered
  <1>5. Flow(gui, toClient'[conn], toServer'[conn], hsRs.up, up)
    <2>1. CASE c # conn
      BY <1>2, <2>1, OrderTypes DEF OrderInv, Answered
    <2>2. CASE c = conn /\ UNCHANGED toClient
      BY <1>2, <2>2, OrderTypes, FlowLose DEF OrderInv
    <2>3. ASSUME c = conn, NEW a, AnswerRight(m, a), Answered(c, a)
          PROVE  Flow(gui, toClient'[conn], toServer'[conn], hsRs.up, up)
      <3>1. toClient'[conn] = Append(toClient[conn], a) /\ toServer'[conn] = Tail(toServer[conn])
        BY <1>2, <2>3, OrderTypes DEF Answered
      <3>2. a \in Told /\ m.type # "block" /\ a.up = m.up
        BY <2>3 DEF AnswerRight
      <3>3. QED
        BY <1>2, <2>3, <3>1, <3>2, OrderTypes, FlowAnswer DEF OrderInv
    <2>4. QED
      BY <1>2, <2>1, <2>2, <2>3
  <1>6. QED
    BY <1>1, <1>4, <1>5 DEF OrderInv

LEMMA DisconnectOrder ==
  ASSUME TypeInv, OrderInv, NEW c \in Conn, OnClientDisconnect(c)
  PROVE  OrderInv'
  <1>1. UNCHANGED <<gui, toClient, conn, hsRs, up>> /\ toServer' = [toServer EXCEPT ![c] = << >>]
    BY DEF OnClientDisconnect, worker, reply, net
  <1>2. Flow(gui, toClient[conn], toServer'[conn], hsRs.up, up)
    BY <1>1, OrderTypes, FlowNew DEF OrderInv
  <1>3. \A d \in Conn : d > conn => toServer'[d] = << >>
    BY <1>1, OrderTypes DEF OrderInv
  <1>4. QED
    BY <1>1, <1>2, <1>3 DEF OrderInv

LEMMA EndRaises == ASSUME NEW say, EndUpload(say) PROVE up' \in {up, up + 1}
  BY DEF EndUpload

(* Sending, and everything else the worker does.                           *)
LEMMA WorkOrder ==
  ASSUME TypeInv, OrderInv, Work
  PROVE  OrderInv'
  <1>1. UNCHANGED <<toClient, gui, hsRs>>
    BY DEF Work, TakeJob, Begin, WorkerReopen, HsSend, Wait, TimeOut, Expire, HsGot,
       SendBlock, BlocksEnd, After, EndSend, EndGot, Still, reply
  <1>2. up' \in {up, up + 1}
    BY EndRaises DEF Work, TakeJob, Begin, WorkerReopen, HsSend, Wait, TimeOut, Expire, HsGot,
       SendBlock, BlocksEnd, After, EndSend, EndGot, worker
  <1>3. CASE UNCHANGED <<toServer, conn>>
    BY <1>1, <1>2, <1>3, OrderSame
  <1>4. CASE HsSend
    <2>1. [type |-> "rq", up |-> up, item |-> item] \in Ask
      BY <1>4, ItemInUse DEF HsSend, Ask
    <2>2. QED
      BY <1>1, <1>2, <1>4, <2>1, SendOrder DEF HsSend
  <1>5. CASE SendBlock
    <2>1. PICK m \in Ask : m.type = "block" /\ \E r \in {-1, 1} : SendData(m, r)
      <3>1. wpc # "idle" /\ offset < Size(item) /\ offset \in 0 .. Blocks /\ task \in Nat
        BY <1>5 DEF SendBlock, TypeInv, WorkerOK
      <3>2. Size(item) \in 1 .. Blocks /\ Blocks \in Nat
        BY SizeType, BoundsAssumption
      <3>3. offset \in 0 .. Blocks - 1
        BY <3>1, <3>2
      <3>4. [type |-> "block", task |-> task, offset |-> offset, item |-> item] \in Ask
        BY <3>1, <3>3, ItemInUse DEF Ask
      <3>5. QED
        BY <1>5, <3>4 DEF SendBlock
    <2>2. QED
      BY <1>1, <1>2, <2>1, SendOrder
  <1>6. CASE EndSend
    <2>1. [type |-> "end", up |-> up, task |-> task] \in Ask
      BY <1>6, ItemInUse DEF EndSend, TypeInv, WorkerOK, Ask
    <2>2. QED
      BY <1>1, <1>2, <1>6, <2>1, SendOrder DEF EndSend
  <1>7. QED
    BY <1>3, <1>4, <1>5, <1>6 DEF Work, TakeJob, Begin, WorkerReopen, Reopen, Wait, TimeOut,
       Expire, HsGot, BlocksEnd, After, EndGot, net, link

LEMMA OrderNext == TypeInv /\ OrderInv /\ [Next]_vars => OrderInv'
  <1> SUFFICES ASSUME TypeInv, OrderInv, [Next]_vars PROVE OrderInv'
    OBVIOUS
  <1>1. CASE Dialog \/ RecvEnd \/ (\E c \in Conn : Break(c)) \/ UNCHANGED vars
    BY <1>1, OrderSame DEF Dialog, Browse, BeginUpload, Reshow, CancelUpload, RecvEnd, Break,
       vars, worker, reply, net, wires, link
  <1>2. QED
    BY <1>1, WorkOrder, GuiOrder, ReceiveOrder, SlotOrder, ServeOrder, DisconnectOrder
       DEF Next, Net

-----------------------------------------------------------------------------
(* The flags are set in their phases only.                                 *)

HsPhase == {"hsSend", "hsSent", "hsWait", "hsExpired"}
EndPhase == {"endSend", "endSent", "endWait", "endExpired"}
PhaseInv ==
  /\ hsPending => wpc \in HsPhase
  /\ endPending => wpc \in EndPhase
  /\ woken => \/ wpc = "hsWait" /\ ~hsPending
              \/ wpc = "endWait" /\ ~endPending

LEMMA PhaseInit == Init => PhaseInv
  BY DEF Init, PhaseInv

(* An upload ends with no flag set.                                        *)
LEMMA PhaseEnds ==
  ASSUME NEW say, EndUpload(say), ~hsPending', ~endPending'
  PROVE  PhaseInv'
  BY DEF EndUpload, PhaseInv

LEMMA PhaseSame ==
  ASSUME PhaseInv, UNCHANGED <<wpc, hsPending, endPending, woken>>
  PROVE  PhaseInv'
  BY DEF PhaseInv

LEMMA PhaseWork ==
  ASSUME PhaseInv, Work
  PROVE  PhaseInv'
  <1>1. CASE TakeJob \/ WorkerReopen
    BY <1>1, PhaseSame DEF TakeJob, WorkerReopen, reply, worker, PhaseInv, HsPhase, EndPhase
  <1>2. CASE HsSend \/ Wait \/ TimeOut \/ EndSend \/ BlocksEnd
    BY <1>2 DEF HsSend, Wait, TimeOut, EndSend, BlocksEnd, reply, PhaseInv, HsPhase, EndPhase
  <1>3. CASE Begin
    <2>1. CASE EndUpload("noFile") /\ UNCHANGED <<hsPending, endPending>>
      BY <1>3, <2>1, PhaseEnds DEF Begin, PhaseInv, HsPhase, EndPhase
    <2>2. CASE wpc' = "hsSend" /\ UNCHANGED <<endPending, woken>>
      BY <1>3, <2>2 DEF Begin, PhaseInv, HsPhase, EndPhase
    <2>3. QED
      BY <1>3, <2>1, <2>2 DEF Begin
  <1>4. CASE Expire
    <2>1. EndUpload("timeout") \/ EndUpload("endTimeout")
      BY <1>4 DEF Expire
    <2>2. ~hsPending' /\ ~endPending'
      BY <1>4 DEF Expire, PhaseInv, HsPhase, EndPhase
    <2>3. QED
      BY <2>1, <2>2, PhaseEnds
  <1>5. CASE HsGot
    <2>1. ~hsPending' /\ ~endPending'
      BY <1>5 DEF HsGot, PhaseInv, HsPhase, EndPhase
    <2>2. CASE \E say \in Said : EndUpload(say)
      BY <2>1, <2>2, PhaseEnds
    <2>3. CASE wpc' = "blocks" /\ woken' = FALSE
      BY <2>1, <2>3 DEF PhaseInv
    <2>4. QED
      BY <1>5, <2>2, <2>3 DEF HsGot, Said
  <1>6. CASE SendBlock
    <2>1. ~hsPending' /\ ~endPending' /\ ~woken
      BY <1>6 DEF SendBlock, PhaseInv, HsPhase, EndPhase
    <2>2. CASE EndUpload("paused")
      BY <2>1, <2>2, PhaseEnds
    <2>3. CASE UNCHANGED <<wpc, woken>>
      BY <2>1, <2>3 DEF PhaseInv
    <2>4. QED
      BY <1>6, <2>2, <2>3 DEF SendBlock
  <1>7. CASE After
    <2>1. ~hsPending' /\ ~woken /\ ~endPending
      BY <1>7 DEF After, PhaseInv, HsPhase, EndPhase
    <2>2. CASE EndUpload("canceled") /\ UNCHANGED endPending
      BY <2>1, <2>2, PhaseEnds
    <2>3. CASE wpc' = "endSend" /\ UNCHANGED woken
      BY <2>1, <2>3 DEF PhaseInv, HsPhase, EndPhase
    <2>4. QED
      BY <1>7, <2>2, <2>3 DEF After
  <1>8. CASE EndGot
    <2>1. ~hsPending' /\ ~endPending'
      BY <1>8 DEF EndGot, PhaseInv, HsPhase, EndPhase
    <2>2. QED
      BY <1>8, <2>1, PhaseEnds DEF EndGot
  <1>9. QED
    BY <1>1, <1>2, <1>3, <1>4, <1>5, <1>6, <1>7, <1>8 DEF Work

LEMMA PhaseSlot ==
  ASSUME PhaseInv, SlotReadyData
  PROVE  PhaseInv'
  <1>1. UNCHANGED wpc
    BY DEF SlotReadyData, worker
  <1>2. \/ hsPending /\ ~hsPending' /\ woken' = (woken \/ wpc = "hsWait") /\ UNCHANGED endPending
        \/ endPending /\ ~endPending' /\ woken' = (woken \/ wpc = "endWait") /\ UNCHANGED hsPending
        \/ UNCHANGED <<hsPending, endPending, woken>>
    BY DEF SlotReadyData, reply
  <1>3. CASE hsPending /\ ~hsPending' /\ woken' = (woken \/ wpc = "hsWait") /\ UNCHANGED endPending
    <2>1. wpc \in HsPhase /\ ~endPending /\ ~endPending'
      BY <1>3 DEF PhaseInv, HsPhase, EndPhase
    <2>2. woken => wpc = "hsWait"
      BY <2>1 DEF PhaseInv, HsPhase
    <2>3. woken' => wpc = "hsWait"
      BY <1>3, <2>2, Zenon
    <2>4. QED
      BY <1>1, <1>3, <2>1, <2>3 DEF PhaseInv
  <1>4. CASE endPending /\ ~endPending' /\ woken' = (woken \/ wpc = "endWait") /\ UNCHANGED hsPending
    <2>1. wpc \in EndPhase /\ ~hsPending /\ ~hsPending'
      BY <1>4 DEF PhaseInv, HsPhase, EndPhase
    <2>2. woken => wpc = "endWait"
      BY <2>1 DEF PhaseInv, EndPhase
    <2>3. woken' => wpc = "endWait"
      BY <1>4, <2>2, Zenon
    <2>4. QED
      BY <1>1, <1>4, <2>1, <2>3 DEF PhaseInv
  <1>5. CASE UNCHANGED <<hsPending, endPending, woken>>
    BY <1>1, <1>5, PhaseSame
  <1>6. QED
    BY <1>2, <1>3, <1>4, <1>5

LEMMA PhaseNext == PhaseInv /\ [Next]_vars => PhaseInv'
  <1> SUFFICES ASSUME PhaseInv, [Next]_vars PROVE PhaseInv'
    OBVIOUS
  <1>1. CASE UNCHANGED <<worker, reply>>
    BY <1>1, PhaseSame DEF worker, reply
  <1>2. CASE Dialog \/ Receive \/ RecvEnd \/ GuiSend \/ UNCHANGED vars
    BY <1>1, <1>2 DEF Dialog, Browse, BeginUpload, Reshow, CancelUpload, Receive, RecvEnd,
       GuiSend, vars
  <1>3. CASE \E c \in Conn : Serve(c) \/ Break(c) \/ OnClientDisconnect(c)
    BY <1>1, <1>3 DEF Serve, Break, OnClientDisconnect
  <1>4. QED
    BY <1>2, <1>3, PhaseWork, PhaseSlot DEF Next, Net

-----------------------------------------------------------------------------
(* The truth of the replies.                                               *)

Elems(s) == {s[k] : k \in 1 .. Len(s)}

(* No END of this call is on its way before it has been sent.              *)
Unsent == {"begin", "hsSend", "hsSent", "hsWait", "hsExpired", "blocks", "after", "endSend"}
Mine(t) == t < nextTask /\ (t \in DOMAIN tasks => tasks[t].item = item)
Stored == item \in stored

(* What a reply to a handshake and one to an END say of this call; what a   *)
(* request of this call asks for.                                          *)
HsTrue(h) == h.up = up => /\ h.result = "instant" => Stored
                          /\ h.result = "go" => Mine(h.task)
EndTrue(e) == e.up = up => /\ wpc \notin Unsent
                           /\ hsRs.up = up /\ e.result = "ok" => Stored
ReplyTrue(m) == IF m.type = "hs" THEN HsTrue(m) ELSE EndTrue(m)
AskTrue(m) == m.type # "block" /\ m.up = up =>
                IF m.type = "rq" THEN m.item = item
                ELSE wpc \notin Unsent /\ (hsRs.up = up => Mine(m.task))

TaskTrue == wpc \in {"blocks", "after", "endSend"} /\ hsRs.up = up => Mine(task)
GotTrue == wpc = "endWait" /\ woken /\ hsRs.up = up /\ endRs.result = "ok" => Stored
Replies == Elems(gui) \cup Elems(toClient[conn])
Asks == Elems(toServer[conn])
TruthInv ==
  wpc # "idle" => /\ \A m \in Replies : ReplyTrue(m)
                  /\ \A m \in Asks : AskTrue(m)
                  /\ HsTrue(hsRs) /\ TaskTrue /\ GotTrue

LEMMA Members ==
  ASSUME NEW S, NEW s \in Seq(S)
  PROVE  /\ Elems(s) \subseteq S /\ Elems(<< >>) = {}
         /\ \A m \in S : Elems(Append(s, m)) \subseteq Elems(s) \cup {m}
         /\ s # << >> => Elems(Tail(s)) \subseteq Elems(s) /\ Head(s) \in Elems(s)
  BY DEF Elems

LEMMA ReplyTypes ==
  ASSUME TypeInv
  PROVE  Replies \subseteq Told /\ Asks \subseteq Ask
  BY OrderTypes, Members DEF Replies, Asks

LEMMA MineKept ==
  ASSUME TypeInv, Grows, UNCHANGED item
  PROVE  \A t \in Nat : Mine(t) => Mine(t)'
  <1>1. nextTask \in Nat
    BY DEF TypeInv, ServerOK
  <1>2. QED
    BY <1>1 DEF Grows, Mine

(* Within a call, what was true stays true.                                *)
LEMMA TruthKept ==
  ASSUME TypeInv, TypeInv', TruthInv, Grows, wpc # "idle", UNCHANGED <<item, up, hsRs>>,
         wpc' \in Unsent => wpc \in Unsent,
         \A m \in Replies' : m \in Replies \/ ReplyTrue(m)',
         \A m \in Asks' : m \in Asks \/ AskTrue(m)',
         TaskTrue', GotTrue'
  PROVE  TruthInv'
  <1>1. Stored => Stored'
    BY DEF Stored, Grows
  <1>2. \A t \in Nat : Mine(t) => Mine(t)'
    BY MineKept
  <1>3. hsRs.task \in Nat
    BY DEF TypeInv, WorkerOK, Kept
  <1>4. HsTrue(hsRs)'
    BY <1>1, <1>2, <1>3 DEF TruthInv, HsTrue
  <1>5. ASSUME NEW m \in Replies' PROVE ReplyTrue(m)'
    <2>1. CASE ReplyTrue(m)'
      BY <2>1
    <2>2. CASE m \in Replies
      <3>1. ReplyTrue(m) /\ m \in Told
        BY <2>2, ReplyTypes DEF TruthInv
      <3>2. CASE m.type = "hs"
        <4>1. m.task \in Nat
          BY <3>1, <3>2 DEF Told, HsTold, EndTold
        <4>2. QED
          BY <1>1, <1>2, <3>1, <3>2, <4>1 DEF ReplyTrue, HsTrue
      <3>3. CASE m.type # "hs"
        BY <1>1, <3>1, <3>3 DEF ReplyTrue, EndTrue
      <3>4. QED
        BY <3>2, <3>3
    <2>3. QED
      BY <1>5, <2>1, <2>2
  <1>6. ASSUME NEW m \in Asks' PROVE AskTrue(m)'
    <2>1. CASE AskTrue(m)'
      BY <2>1
    <2>2. CASE m \in Asks
      <3>1. AskTrue(m) /\ m \in Ask
        BY <2>2, ReplyTypes DEF TruthInv
      <3>2. m.type = "end" => m.task \in Nat
        BY <3>1 DEF Ask
      <3>3. m.type \in {"rq", "block", "end"}
        BY <3>1 DEF Ask
      <3>4. QED
        BY <1>2, <3>1, <3>2, <3>3 DEF AskTrue
    <2>3. QED
      BY <1>6, <2>1, <2>2
  <1>7. QED
    BY <1>4, <1>5, <1>6 DEF TruthInv

(* Nothing on its way belongs to a call that begins.                       *)
LEMMA TruthBegins ==
  ASSUME TypeInv, OrderInv, UNCHANGED <<gui, toClient, toServer, conn, hsRs>>,
         up' = up + 1, wpc' = "begin"
  PROVE  TruthInv'
  <1>1. up \in Nat /\ hsRs.up \in Nat /\ hsRs.up <= up
    BY OrderTypes DEF OrderInv
  <1>2. ASSUME NEW m \in Replies PROVE m.up # up'
    <2>1. m \in Told
      BY <1>2, ReplyTypes
    <2>2. m.up \in Ups(gui) \cup Ups(toClient[conn])
      <3>1. m.type # "block"
        BY <2>1 DEF Told, HsTold, EndTold
      <3>2. QED
        BY <1>2, <3>1 DEF Replies, Elems, Ups, Named
    <2>3. QED
      BY <1>1, <2>2 DEF OrderInv, Flow, Within
  <1>3. ASSUME NEW m \in Asks, m.type # "block" PROVE m.up # up'
    <2>1. m.up \in Ups(toServer[conn])
      BY <1>3 DEF Asks, Elems, Ups, Named
    <2>2. QED
      BY <1>1, <2>1 DEF OrderInv, Flow, Within
  <1>4. Replies' = Replies /\ Asks' = Asks
    BY DEF Replies, Asks
  <1>5. \A m \in Replies' : ReplyTrue(m)'
    BY <1>2, <1>4 DEF ReplyTrue, HsTrue, EndTrue
  <1>6. \A m \in Asks' : AskTrue(m)'
    BY <1>3, <1>4 DEF AskTrue
  <1>7. HsTrue(hsRs)' /\ TaskTrue' /\ GotTrue'
    BY <1>1 DEF HsTrue, TaskTrue, GotTrue
  <1>8. QED
    BY <1>5, <1>6, <1>7 DEF TruthInv

LEMMA TruthEnds ==
  ASSUME TypeInv, OrderInv, UNCHANGED <<gui, toClient, toServer, conn, hsRs>>,
         NEW say, EndUpload(say)
  PROVE  TruthInv'
  <1>1. CASE wpc' = "idle"
    BY <1>1 DEF TruthInv
  <1>2. CASE wpc' = "begin" /\ up' = up + 1
    BY <1>2, TruthBegins
  <1>3. QED
    BY <1>1, <1>2 DEF EndUpload

LEMMA GrowsSame ==
  ASSUME TypeInv, UNCHANGED server
  PROVE  Grows
  BY DEF TypeInv, ServerOK, Grows, server

(* A step of the worker that sends nothing and stays in its call.          *)
LEMMA TruthRests ==
  ASSUME TypeInv, TypeInv', TruthInv, wpc # "idle", UNCHANGED <<item, up, hsRs, server>>,
         UNCHANGED <<gui, toClient, toServer, conn>>,
         wpc' \in Unsent => wpc \in Unsent, TaskTrue', GotTrue'
  PROVE  TruthInv'
  <1>1. Replies' = Replies /\ Asks' = Asks
    BY DEF Replies, Asks
  <1>2. QED
    BY <1>1, TruthKept, GrowsSame

(* What a sent packet adds to what the server has to read.                 *)
LEMMA SendAsks ==
  ASSUME TypeInv, OrderInv, NEW m \in Ask, NEW r, SendData(m, r), UNCHANGED <<toClient, gui>>
  PROVE  Replies' \subseteq Replies /\ Asks' \subseteq Asks \cup {m}
  <1>1. CASE UNCHANGED <<net, toServer>>
    BY <1>1 DEF net, Replies, Asks
  <1>2. CASE UNCHANGED net /\ toServer' = [toServer EXCEPT ![conn] = Append(@, m)]
    <2>1. toServer'[conn'] = Append(toServer[conn], m) /\ toServer[conn] \in Seq(Ask)
      BY <1>2, OrderTypes DEF net
    <2>2. QED
      BY <1>2, <2>1, Members DEF net, Replies, Asks
  <1>3. CASE conn' = conn + 1 /\ conn' \in Conn /\ toServer' = [toServer EXCEPT ![conn + 1] = <<m>>]
    <2>1. toClient'[conn'] = << >> /\ toServer'[conn'] = <<m>>
      BY <1>3, OrderTypes DEF OrderInv, Conn
    <2>2. Elems(<<m>>) = {m} /\ Elems(<< >>) = {}
      BY DEF Elems
    <2>3. QED
      BY <2>1, <2>2 DEF Replies, Asks
  <1>4. CASE ConnectFails("worker") /\ UNCHANGED toServer
    BY <1>4 DEF ConnectFails, Replies, Asks
  <1>5. QED
    <2>1. Connect("worker") => conn' = conn + 1 /\ conn' \in Conn
      BY OrderTypes, BoundsAssumption DEF Connect, Conn
    <2>2. QED
      BY <1>1, <1>2, <1>3, <1>4, <2>1 DEF SendData, Transmit

Truth == TypeInv /\ OrderInv /\ PhaseInv /\ TruthInv

LEMMA TruthHsSend ==
  ASSUME Truth, TypeInv', HsSend
  PROVE  TruthInv'
  <1>1. /\ wpc = "hsSend" /\ wpc' = "hsSent"
        /\ UNCHANGED <<item, up, hsRs, server, toClient, gui>>
    BY DEF HsSend, reply, Still
  <1> DEFINE m == [type |-> "rq", up |-> up, item |-> item]
  <1>2. m \in Ask
    BY <1>1, ItemInUse DEF Truth, Ask
  <1>3. PICK r \in {-1, 1} : SendData(m, r)
    BY DEF HsSend
  <1>4. Replies' \subseteq Replies /\ Asks' \subseteq Asks \cup {m}
    BY <1>1, <1>2, <1>3, SendAsks DEF Truth
  <1>5. ASSUME NEW n, n = m PROVE AskTrue(n)'
    BY <1>1, <1>5 DEF AskTrue
  <1>6. TaskTrue' /\ GotTrue' /\ wpc \in Unsent
    BY <1>1 DEF TaskTrue, GotTrue, Unsent
  <1> HIDE DEF m
  <1>7. ASSUME NEW n \in Asks' PROVE n \in Asks \/ AskTrue(n)'
    BY <1>4, <1>5, <1>7
  <1>8. QED
    BY <1>1, <1>4, <1>6, <1>7, TruthKept, GrowsSame DEF Truth

LEMMA TruthEndSend ==
  ASSUME Truth, TypeInv', EndSend
  PROVE  TruthInv'
  <1>1. /\ wpc = "endSend" /\ wpc' = "endSent"
        /\ UNCHANGED <<item, up, task, hsRs, server, toClient, gui>>
    BY DEF EndSend, reply, Still
  <1> DEFINE m == [type |-> "end", up |-> up, task |-> task]
  <1>2. m \in Ask
    BY <1>1, ItemInUse DEF Truth, TypeInv, WorkerOK, Ask
  <1>3. PICK r \in {-1, 1} : SendData(m, r)
    BY DEF EndSend
  <1>4. Replies' \subseteq Replies /\ Asks' \subseteq Asks \cup {m}
    BY <1>1, <1>2, <1>3, SendAsks DEF Truth
  <1>5. ASSUME NEW n, n = m PROVE AskTrue(n)'
    <2>1. hsRs.up = up => Mine(task)
      BY <1>1 DEF Truth, TruthInv, TaskTrue
    <2>2. Mine(task) => Mine(task)'
      BY <1>1 DEF Mine, server
    <2>3. QED
      BY <1>1, <1>5, <2>1, <2>2 DEF AskTrue, Unsent, Mine
  <1>6. TaskTrue' /\ GotTrue' /\ wpc' \notin Unsent
    BY <1>1 DEF TaskTrue, GotTrue, Unsent
  <1> HIDE DEF m
  <1>7. ASSUME NEW n \in Asks' PROVE n \in Asks \/ AskTrue(n)'
    BY <1>4, <1>5, <1>7
  <1>8. QED
    BY <1>1, <1>4, <1>6, <1>7, TruthKept, GrowsSame DEF Truth

LEMMA TruthSendBlock ==
  ASSUME Truth, TypeInv', SendBlock
  PROVE  TruthInv'
  <1> DEFINE m == [type |-> "block", task |-> task, offset |-> offset, item |-> item]
  <1>1. PICK r \in {-1, 1} :
          /\ SendData(m, r)
          /\ IF Sent(r) THEN UNCHANGED <<wpc, job, item, up, task, woken, said>>
                        ELSE EndUpload("paused")
    BY DEF SendBlock
  <1>2. /\ wpc = "blocks" /\ UNCHANGED <<hsRs, endRs, server, toClient, gui>>
        /\ UNCHANGED <<wpc, item, up, task>>
    BY <1>1 DEF SendBlock, Sent, Still
  <1>3. m \in Ask
    <2>1. offset < Size(item) /\ offset \in 0 .. Blocks /\ task \in Nat
      BY DEF SendBlock, Truth, TypeInv, WorkerOK
    <2>2. Size(item) \in 1 .. Blocks /\ Blocks \in Nat
      BY SizeType, BoundsAssumption
    <2>3. offset \in 0 .. Blocks - 1
      BY <2>1, <2>2
    <2>4. QED
      BY <1>2, <2>1, <2>3, ItemInUse DEF Truth, Ask
  <1>4. Replies' \subseteq Replies /\ Asks' \subseteq Asks \cup {m}
    BY <1>1, <1>2, <1>3, SendAsks DEF Truth
  <1>5. ASSUME NEW n, n = m PROVE AskTrue(n)'
    BY <1>5 DEF AskTrue
  <1>6. TaskTrue' /\ GotTrue'
    <2>1. TaskTrue
      BY <1>2 DEF Truth, TruthInv
    <2>2. QED
      BY <1>2, <2>1 DEF TaskTrue, GotTrue, Mine, server
  <1> HIDE DEF m
  <1>7. ASSUME NEW n \in Asks' PROVE n \in Asks \/ AskTrue(n)'
    BY <1>4, <1>5, <1>7
  <1>8. QED
    BY <1>2, <1>4, <1>6, <1>7, TruthKept, GrowsSame DEF Truth

(* The worker, when it sends nothing.                                      *)
LEMMA TruthQuiet ==
  ASSUME Truth, TypeInv', Work, ~HsSend, ~SendBlock, ~EndSend
  PROVE  TruthInv'
  <1>1. UNCHANGED <<gui, toClient, toServer, conn, hsRs, server>>
    BY DEF Work, TakeJob, Begin, WorkerReopen, Reopen, Wait, TimeOut, Expire, HsGot, BlocksEnd,
       After, EndGot, Still, reply, net, link
  <1>2. CASE TakeJob
    BY <1>1, <1>2, TruthBegins DEF TakeJob, Truth
  <1>3. CASE \E say \in Said : EndUpload(say)
    BY <1>1, <1>3, TruthEnds DEF Truth
  <1>4. CASE EndUpload(endRs.result)
    BY <1>1, <1>4, TruthEnds DEF Truth
  <1>5. CASE WorkerReopen \/ Wait \/ TimeOut \/ BlocksEnd
    <2>1. UNCHANGED <<item, up, task, woken, endRs>> /\ wpc # "idle"
      BY <1>5 DEF WorkerReopen, Wait, TimeOut, BlocksEnd, worker, reply
    <2>2. /\ wpc' \in Unsent => wpc \in Unsent
          /\ wpc' \in {"blocks", "after", "endSend"} => wpc \in {"blocks", "after", "endSend"}
          /\ wpc' = "endWait" => wpc = "endWait" \/ ~woken
      BY <1>5 DEF WorkerReopen, Wait, TimeOut, BlocksEnd, worker, Unsent, Truth, PhaseInv
    <2>3. TaskTrue /\ GotTrue
      BY <2>1 DEF Truth, TruthInv
    <2>4. TaskTrue' /\ GotTrue'
      BY <1>1, <2>1, <2>2, <2>3 DEF TaskTrue, GotTrue, Mine, Stored, server
    <2>5. QED
      BY <1>1, <2>1, <2>2, <2>4, TruthRests DEF Truth
  <1>6. CASE Begin /\ wpc' = "hsSend" /\ UNCHANGED <<item, up>>
    BY <1>1, <1>6, TruthRests DEF Begin, Truth, Unsent, TaskTrue, GotTrue
  <1>7. CASE /\ HsGot /\ hsRs.result = "go" /\ task' = hsRs.task /\ wpc' = "blocks"
             /\ UNCHANGED <<item, up>>
    <2>1. wpc = "hsWait"
      BY <1>7 DEF HsGot
    <2>2. hsRs.up = up => Mine(hsRs.task)
      BY <1>7, <2>1 DEF Truth, TruthInv, HsTrue
    <2>3. TaskTrue' /\ GotTrue'
      BY <1>1, <1>7, <2>2 DEF TaskTrue, GotTrue, Mine, server
    <2>4. QED
      BY <1>1, <1>7, <2>1, <2>3, TruthRests DEF Truth, Unsent
  <1>8. CASE After /\ wpc' = "endSend" /\ UNCHANGED <<item, up, task>>
    <2>1. wpc = "after" /\ TaskTrue
      BY <1>8 DEF After, Truth, TruthInv
    <2>2. TaskTrue' /\ GotTrue'
      BY <1>1, <1>8, <2>1 DEF TaskTrue, GotTrue, Mine, server
    <2>3. QED
      BY <1>1, <1>8, <2>1, <2>2, TruthRests DEF Truth, Unsent
  <1>9. QED
    BY <1>2, <1>3, <1>4, <1>5, <1>6, <1>7, <1>8
       DEF Work, Begin, Expire, HsGot, After, EndGot, Said

(* A step of another thread or of the server that leaves the worker and     *)
(* what it was told alone.                                                 *)
LEMMA TruthApart ==
  ASSUME Truth, TypeInv', Grows, UNCHANGED <<worker, reply>>,
         \A m \in Replies' : m \in Replies \/ ReplyTrue(m)',
         Asks' \subseteq Asks
  PROVE  TruthInv'
  <1>1. CASE wpc = "idle"
    BY <1>1 DEF worker, TruthInv
  <1>2. CASE wpc # "idle"
    <2>1. TaskTrue /\ GotTrue /\ task \in Nat
      BY <1>2 DEF Truth, TruthInv, TypeInv, WorkerOK
    <2>2. Mine(task) => Mine(task)'
      <3>1. \A t \in Nat : Mine(t) => Mine(t)'
        BY MineKept DEF Truth, worker
      <3>2. QED
        BY <2>1, <3>1 DEF worker, Mine
    <2>3. TaskTrue'
      BY <2>1, <2>2 DEF TaskTrue, worker, reply
    <2>4. GotTrue'
      BY <2>1 DEF GotTrue, Stored, Grows, worker, reply
    <2>5. QED
      BY <1>2, <2>3, <2>4, TruthKept DEF Truth, worker, reply
  <1>3. QED
    BY <1>1, <1>2

LEMMA TruthServe ==
  ASSUME Truth, TypeInv', NEW c \in Conn, Serve(c)
  PROVE  TruthInv'
  <1> DEFINE m == Head(toServer[c])
  <1>1. UNCHANGED <<gui, conn, worker, reply>>
    BY DEF Serve, net
  <1>2. /\ Grows
        /\ toServer[c] \in Seq(Ask) /\ toServer[c] # << >>
        /\ toServer' = [toServer EXCEPT ![c] = Tail(@)]
        /\ UNCHANGED toClient \/ \E a : AnswerRight(m, a) /\ Answered(c, a)
    BY ServeEffect DEF Truth
  <1>3. Asks' \subseteq Asks
    BY <1>1, <1>2, OrderTypes, Members DEF Truth, Asks
  <1>4. CASE wpc = "idle"
    BY <1>1, <1>4 DEF worker, TruthInv
  <1>5. CASE wpc # "idle"
    <2>1. CASE UNCHANGED toClient
      BY <1>1, <1>2, <1>3, <2>1, TruthApart DEF Replies
    <2>2. ASSUME NEW a, AnswerRight(m, a), Answered(c, a) PROVE TruthInv'
      <3>1. CASE c # conn
        <4>1. Replies' = Replies
          BY <1>1, <2>2, <3>1, OrderTypes DEF Truth, Answered, Replies
        <4>2. QED
          BY <1>1, <1>2, <1>3, <4>1, TruthApart
      <3>2. CASE c = conn
        <4>1. m \in Asks /\ m \in Ask
          BY <1>2, <3>2, Members DEF Asks
        <4>2. AskTrue(m)
          BY <1>5, <4>1 DEF Truth, TruthInv
        <4>3. toClient'[conn] = Append(toClient[conn], a) /\ a \in Told
          BY <2>2, <3>2, OrderTypes DEF Truth, Answered, AnswerRight
        <4>4. Replies' \subseteq Replies \cup {a}
          BY <1>1, <4>3, OrderTypes, Members DEF Truth, Replies
        <4>5. UNCHANGED <<item, up, wpc>> /\ UNCHANGED hsRs
          BY <1>1 DEF worker, reply
        <4>6. ReplyTrue(a)'
          <5>1. CASE m.type = "rq"
            <6>1. a.type = "hs" /\ a.up = m.up
              BY <2>2, <5>1 DEF AnswerRight
            <6>2. ASSUME a.up = up PROVE m.item = item
              BY <4>2, <5>1, <6>1, <6>2 DEF AskTrue
            <6>3. HsTrue(a)'
              BY <2>2, <4>5, <5>1, <6>1, <6>2 DEF HsTrue, AnswerRight, Mine, Stored
            <6>4. QED
              BY <6>1, <6>3 DEF ReplyTrue
          <5>2. CASE m.type = "end"
            <6>1. a.type = "end" /\ a.up = m.up /\ m.task \in DOMAIN tasks
                  /\ (a.result = "ok" => tasks[m.task].item \in stored')
              BY <2>2, <5>2 DEF AnswerRight
            <6>2. ASSUME a.up = up
                  PROVE  wpc \notin Unsent /\ (hsRs.up = up => tasks[m.task].item = item)
              BY <4>2, <5>2, <6>1, <6>2 DEF AskTrue, Mine
            <6>3. EndTrue(a)'
              BY <4>5, <6>1, <6>2 DEF EndTrue, Stored
            <6>4. QED
              BY <6>1, <6>3 DEF ReplyTrue
          <5>3. QED
            BY <2>2, <4>1, <5>1, <5>2 DEF Ask, AnswerRight
        <4>7. QED
          BY <1>1, <1>2, <1>3, <4>4, <4>6, TruthApart
      <3>3. QED
        BY <3>1, <3>2
    <2>3. QED
      BY <1>2, <2>1, <2>2
  <1>6. QED
    BY <1>4, <1>5

LEMMA TruthSlot ==
  ASSUME Truth, TypeInv', SlotReadyData
  PROVE  TruthInv'
  <1> DEFINE m == Head(gui)
  <1>1. /\ gui # << >> /\ gui' = Tail(gui)
        /\ UNCHANGED <<wpc, item, up, task, toClient, toServer, conn, server>>
    BY DEF SlotReadyData, worker, net, link
  <1>2. m \in Told /\ m \in Replies /\ Replies' \subseteq Replies /\ Asks' = Asks
    BY <1>1, OrderTypes, Members DEF Truth, Replies, Asks
  <1>3. CASE wpc = "idle"
    BY <1>1, <1>3 DEF TruthInv
  <1>4. CASE wpc # "idle"
    <2>1. /\ \A n \in Replies : ReplyTrue(n)
          /\ \A n \in Asks : AskTrue(n)
          /\ HsTrue(hsRs) /\ TaskTrue /\ GotTrue
      BY <1>4 DEF Truth, TruthInv
    <2>2. CASE UNCHANGED <<hsRs, endRs, woken>>
      <3>1. TaskTrue' /\ GotTrue'
        BY <1>1, <2>1, <2>2 DEF TaskTrue, GotTrue, Mine, Stored, server
      <3>2. QED
        BY <1>1, <1>2, <1>4, <2>2, <3>1, TruthKept, GrowsSame DEF Truth
    <2>3. CASE /\ m.type = "hs" /\ hsPending
               /\ hsRs' = [up |-> m.up, result |-> m.result, task |-> m.task, from |-> m.from]
      <3>1. wpc \in HsPhase
        BY <2>3 DEF Truth, PhaseInv
      <3>2. wpc \in Unsent /\ wpc \notin {"blocks", "after", "endSend", "endWait"}
        BY <3>1 DEF HsPhase, Unsent
      <3>3. HsTrue(m)
        BY <1>2, <2>1, <2>3 DEF ReplyTrue
      <3>4. HsTrue(hsRs)'
        BY <1>1, <2>3, <3>3 DEF HsTrue, Mine, Stored, server
      <3>5. ASSUME NEW n \in Replies PROVE ReplyTrue(n)'
        <4>1. ReplyTrue(n)
          BY <2>1
        <4>2. QED
          BY <1>1, <3>2, <4>1 DEF ReplyTrue, HsTrue, EndTrue, Mine, Stored, server
      <3>6. ASSUME NEW n \in Asks PROVE AskTrue(n)'
        <4>1. AskTrue(n)
          BY <2>1
        <4>2. QED
          BY <1>1, <3>2, <4>1 DEF AskTrue
      <3>7. TaskTrue' /\ GotTrue'
        BY <1>1, <3>2 DEF TaskTrue, GotTrue
      <3>8. QED
        BY <1>2, <3>4, <3>5, <3>6, <3>7 DEF TruthInv
    <2>4. CASE /\ m.type = "end" /\ endPending /\ UNCHANGED hsRs
               /\ endRs' = [up |-> m.up, result |-> m.result, task |-> m.task, from |-> m.from]
      <3>1. hsRs.up <= m.up /\ m.up <= up /\ m.up \in Nat /\ hsRs.up \in Nat /\ up \in Nat
        <4>1. m.up \in Nat
          BY <1>2, BoundsAssumption DEF Told, HsTold, EndTold, Upload
        <4>2. hsRs.up <= m.up /\ m.up <= up
          BY <1>1, OrderTypes, FlowTake DEF Truth, OrderInv
        <4>3. QED
          BY <4>1, <4>2, OrderTypes DEF Truth
      <3>2. ASSUME hsRs.up = up, m.result = "ok" PROVE Stored
        <4>1. m.up = up
          BY <3>1, <3>2
        <4>2. EndTrue(m)
          BY <1>2, <2>1, <2>4 DEF ReplyTrue
        <4>3. QED
          BY <3>2, <4>1, <4>2 DEF EndTrue
      <3>3. GotTrue'
        BY <1>1, <2>4, <3>2 DEF GotTrue, Stored, server
      <3>4. TaskTrue'
        BY <1>1, <2>1, <2>4 DEF TaskTrue, Mine, server
      <3>5. QED
        BY <1>1, <1>2, <1>4, <2>4, <3>3, <3>4, TruthKept, GrowsSame DEF Truth
    <2>5. QED
      BY <2>2, <2>3, <2>4 DEF SlotReadyData, reply
  <1>5. QED
    BY <1>3, <1>4

LEMMA TruthNet ==
  ASSUME Truth, TypeInv', Net
  PROVE  TruthInv'
  <1>1. CASE Receive
    <2>1. /\ toClient[conn] # << >> /\ gui' = Append(gui, Head(toClient[conn]))
          /\ toClient' = [toClient EXCEPT ![conn] = Tail(@)]
          /\ UNCHANGED <<toServer, conn, worker, reply, server>>
      BY <1>1 DEF Receive, net, link
    <2>2. toClient[conn] \in Seq(Told) /\ gui \in Seq(Told) /\ toClient'[conn] = Tail(toClient[conn])
      BY <2>1, OrderTypes DEF Truth
    <2>3. Head(toClient[conn]) \in Elems(toClient[conn]) /\ Head(toClient[conn]) \in Told
      BY <2>1, <2>2, Members
    <2>4. Elems(gui') \subseteq Elems(gui) \cup {Head(toClient[conn])}
      BY <2>1, <2>2, <2>3, Members
    <2>5. Elems(toClient'[conn]) \subseteq Elems(toClient[conn])
      BY <2>1, <2>2, Members
    <2>6. Replies' \subseteq Replies /\ Asks' = Asks
      BY <2>1, <2>3, <2>4, <2>5 DEF Replies, Asks
    <2>7. QED
      BY <2>1, <2>6, TruthApart, GrowsSame DEF Truth
  <1>2. CASE GuiSend
    <2>1. UNCHANGED <<gui, toClient, toServer, worker, reply, server>>
      BY <1>2 DEF GuiSend
    <2>2. CASE UNCHANGED conn
      BY <2>1, <2>2, TruthApart, GrowsSame DEF Truth, Replies, Asks
    <2>3. CASE conn' = conn + 1 /\ conn' \in Conn
      <3>1. toClient'[conn'] = << >> /\ toServer'[conn'] = << >>
        BY <2>1, <2>3, OrderTypes DEF Truth, OrderInv, Conn
      <3>2. Replies' \subseteq Replies /\ Asks' \subseteq Asks
        BY <2>1, <3>1 DEF Replies, Asks, Elems
      <3>3. QED
        BY <2>1, <3>2, TruthApart, GrowsSame DEF Truth
    <2>4. QED
      <3>1. Connect("gui") => conn' = conn + 1 /\ conn' \in Conn
        BY OrderTypes, BoundsAssumption DEF Connect, Conn, Truth
      <3>2. QED
        BY <1>2, <2>2, <2>3, <3>1 DEF GuiSend, Reopen, ConnectFails
  <1>3. CASE RecvEnd \/ \E c \in Conn : Break(c)
    BY <1>3, TruthApart, GrowsSame DEF RecvEnd, Break, Truth, Replies, Asks, net, wires, link
  <1>4. ASSUME NEW c \in Conn, OnClientDisconnect(c) PROVE TruthInv'
    <2>1. /\ UNCHANGED <<gui, toClient, conn, worker, reply, stored, nextTask>>
          /\ toServer' = [toServer EXCEPT ![c] = << >>]
          /\ tasks' = Without({t \in DOMAIN tasks : tasks[t].conn = c})
      BY <1>4 DEF OnClientDisconnect, net
    <2>2. Grows
      BY <2>1 DEF Grows, Without, Truth, TypeInv, ServerOK
    <2>3. Replies' = Replies /\ Asks' \subseteq Asks
      BY <2>1, OrderTypes, Members DEF Truth, Replies, Asks
    <2>4. QED
      BY <2>1, <2>2, <2>3, TruthApart
  <1>5. QED
    BY <1>1, <1>2, <1>3, <1>4, TruthServe, TruthSlot DEF Net

LEMMA TruthNext == Truth /\ [Next]_vars => Truth'
  <1> SUFFICES ASSUME Truth, [Next]_vars PROVE Truth'
    OBVIOUS
  <1>1. TypeInv' /\ OrderInv' /\ PhaseInv'
    BY TypesNext, OrderNext, PhaseNext DEF Truth
  <1>2. TruthInv'
    <2>1. CASE Dialog \/ UNCHANGED vars
      <3>1. UNCHANGED <<gui, toClient, toServer, conn, worker, reply, server>>
        BY <2>1 DEF Dialog, Browse, BeginUpload, Reshow, CancelUpload, vars, net, wires, link
      <3>2. QED
        BY <1>1, <3>1, TruthApart, GrowsSame DEF Truth, Replies, Asks
    <2>2. QED
      BY <1>1, <2>1, TruthHsSend, TruthSendBlock, TruthEndSend, TruthQuiet, TruthNet DEF Next, Work
  <1>3. QED
    BY <1>1, <1>2 DEF Truth

(* What the worker says of an upload whose handshake was answered.         *)
LEMMA SaysTrue ==
  ASSUME Truth, [Next]_vars, said = "none", said' \in {"ok", "instant"}, hsRs.up = up
  PROVE  item \in stored
  <1>1. Work
    BY DEF Next, vars, Dialog, Browse, BeginUpload, Reshow, CancelUpload, Net, Receive, RecvEnd,
       SlotReadyData, GuiSend, Serve, Break, OnClientDisconnect
  <1>2. \A say : EndUpload(say) => said' = say
    BY DEF EndUpload
  <1>3. HsGot \/ EndGot
    BY <1>1, <1>2 DEF Work, TakeJob, Begin, WorkerReopen, HsSend, Wait, TimeOut, Expire,
       SendBlock, BlocksEnd, After, EndSend
  <1>4. CASE HsGot
    <2>1. wpc = "hsWait" /\ hsRs.result = "instant"
      BY <1>2, <1>4 DEF HsGot
    <2>2. QED
      BY <2>1 DEF Truth, TruthInv, HsTrue, Stored
  <1>5. CASE EndGot
    <2>1. wpc = "endWait" /\ woken /\ said' = endRs.result
      BY <1>2, <1>5 DEF EndGot
    <2>2. endRs.result = "ok"
      BY <2>1 DEF Truth, TypeInv, WorkerOK, Kept, EndResult
    <2>3. QED
      BY <2>1, <2>2 DEF Truth, TruthInv, GotTrue, Stored
  <1>6. QED
    BY <1>3, <1>4, <1>5

(* Replies carry no name of the request they answer (onlinedialog.cpp:209, *)
(* 219): whatever timed out, was lost or came late, an upload whose        *)
(* handshake was its own is called done only when the server has the file. *)
THEOREM TruthTold == Spec => ToldTheTruth
  <1>1. Init => Truth
    <2>1. Init => TruthInv
      BY DEF Init, TruthInv
    <2>2. QED
      BY <2>1, TypesInit, OrderInit, PhaseInit DEF Truth
  <1>2. Truth /\ [Next]_vars =>
          [(said = "none" /\ said' \in {"ok", "instant"} /\ hsRs.up = up) => item \in stored]_vars
    BY SaysTrue
  <1>3. QED
    BY <1>1, <1>2, TruthNext, PTL DEF Spec, ToldTheTruth
=============================================================================
