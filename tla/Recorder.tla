------------------------------ MODULE Recorder ------------------------------
(***************************************************************************)
(* Recording to a file (RecorderDialog) and pushing a live stream          *)
(* (LiveDialog): SaveVideoFileThread, PicInPic_Read and Audio_Read.        *)
(* Four actors: the GUI thread, which runs the dialogs' buttons, the audio *)
(* timer and the slots that queue frames; the capture thread, which asks   *)
(* the GUI thread for a picture of the desktop and waits for it; the       *)
(* encoding thread (SaveVideoFileThread::run); and the user.               *)
(*                                                                         *)
(* RecorderDialog uses one SaveVideoFileThread for all its takes and does  *)
(* not wait for its thread; LiveDialog makes one per take and waits.  A    *)
(* frame is the take it was captured in and its time; one video frame      *)
(* lasts as long as one audio frame.                                       *)
(***************************************************************************)
EXTENDS Naturals, Sequences, FiniteSets

CONSTANTS
  Modes,       \* of {"record", "live"}: the dialogs that may be in use
  MaxTakes,    \* bound: starts
  MaxFrames,   \* bound: pictures of the camera per start
  MaxAudio     \* bound: audio frames per start

ASSUME ModesAssumption == Modes \subseteq {"record", "live"}
ASSUME BoundsAssumption == {MaxTakes, MaxFrames, MaxAudio} \subseteq Nat

VARIABLES
  mode,
  take,                 \* starts so far
  gui,                  \* the GUI thread: free, or in QThread::wait
  object,               \* is there a SaveVideoFileThread
  oc, finished,         \* whose output context is open; takes with a trailer
  enc, isStop,          \* run(), and its flag
  vnext, vpts, anext,   \* next_pts of both streams, video_pts
  videoQ, audioQ, last, \* m_videoDataList, m_audioDataList (its length), lastVideoNode
  beginFlag, clock,     \* m_videoBeginFlag, the time of the newest frame
  shot, capStop, camera,\* PicInPic_Read::run, its isStop, cap.isOpened()
  mic,                  \* the timer of Audio_Read
  events,               \* SIG_sendVideoFrameData in the GUI's event queue
  asked,                \* was this take stopped
  pictures, sounds      \* captured since the last start

vars == <<mode, take, gui, object, oc, finished, enc, isStop, vnext, vpts, anext, videoQ, audioQ,
          last, beginFlag, clock, shot, capStop, camera, mic, events, asked, pictures, sounds>>
file == <<oc, finished>>
encoder == <<enc, vnext, vpts, anext, last>>
queues == <<videoQ, audioQ, beginFlag, clock>>
capture == <<shot, capStop, camera, events, pictures>>
dialog == <<mode, take, gui, object, asked>>

Take == 1 .. MaxTakes
Frame == [take : Take, time : Nat]
NoFrame == [take |-> 0, time |-> 0]

TypeOK ==
  /\ mode \in Modes /\ take \in 0 .. MaxTakes /\ gui \in {"free", "wait"}
  /\ {object, isStop, beginFlag, capStop, camera, mic, asked} \subseteq BOOLEAN
  /\ oc \in 0 .. take /\ finished \subseteq 1 .. take
  /\ enc \in {"off", "first", "firstCheck", "second", "secondCheck", "trailer"}
  /\ {vnext, vpts, anext, clock, audioQ} \subseteq Nat
  /\ videoQ \in Seq(Frame) /\ last \in Frame \cup {NoFrame}
  /\ events \in Seq(Take)
  /\ shot \in {"off", "check", "read", "desk", "convert"}
  /\ pictures \in 0 .. MaxFrames /\ sounds \in 0 .. MaxAudio

(* What the constructors set; PicInPic_Read leaves its isStop as it is.    *)
Init ==
  /\ mode \in Modes /\ take = 0 /\ gui = "free" /\ object = (mode = "record") /\ asked = FALSE
  /\ oc = 0 /\ finished = {}
  /\ enc = "off" /\ isStop = FALSE /\ vnext = 0 /\ vpts = 0 /\ anext = 0
  /\ videoQ = << >> /\ audioQ = 0 /\ last = NoFrame /\ beginFlag = FALSE /\ clock = 0
  /\ shot = "off" /\ capStop \in BOOLEAN /\ camera = FALSE /\ mic = FALSE /\ events = << >>
  /\ pictures = 0 /\ sounds = 0

-----------------------------------------------------------------------------
(* The GUI thread.                                                         *)

(* The members run() and the slots use: those of a new object, or those of *)
(* the object as the take before left them.                                *)
Kept == UNCHANGED <<isStop, vnext, vpts, anext, videoQ, audioQ, last, clock, events>>
New ==
  /\ isStop' = FALSE /\ vnext' = 0 /\ vpts' = 0 /\ anext' = 0
  /\ videoQ' = << >> /\ audioQ' = 0 /\ last' = NoFrame /\ clock' = 0 /\ events' = << >>
LiveReused == Kept
Instance == (mode = "live" /\ New) \/ (mode = "record" /\ Kept)

(* slot_setInfo.  The output or its header may fail: then run() is not     *)
(* started; start() of a thread that runs does nothing, but the context it *)
(* writes to is another one now.                                           *)
SetInfo == oc' = take' /\ enc' \in {enc, IF enc = "off" THEN "first" ELSE enc}

(* The thread is started before its isStop is reset and may see it as it   *)
(* was: of a new object, anything.  There may be no camera.                *)
OpenCamera ==
  \/ /\ camera' = TRUE /\ capStop' = FALSE
     /\ \/ shot' = IF mode = "record" /\ shot # "off" THEN shot ELSE "check"
        \/ shot' = "off" /\ (mode = "live" \/ (capStop /\ shot = "off"))
  \/ /\ camera' = FALSE
     /\ IF mode = "live" THEN shot' = "off" /\ capStop' \in BOOLEAN
                         ELSE UNCHANGED <<shot, capStop>>
OpenAudio == mic' = TRUE

(* The buttons "start"; when slot_setInfo failed the rest goes on.         *)
Start ==
  /\ gui = "free" /\ take < MaxTakes /\ (mode = "live" => ~object)
  /\ take' = take + 1 /\ object' = TRUE /\ asked' = FALSE
  /\ Instance /\ SetInfo /\ OpenCamera /\ OpenAudio
  /\ beginFlag' = TRUE /\ pictures' = 0 /\ sounds' = 0
  /\ UNCHANGED <<mode, gui, finished>>

(* slot_closeVideo; LiveDialog waits for run() after it.                   *)
Stop ==
  /\ gui = "free" /\ object
  /\ capStop' = TRUE /\ camera' = FALSE /\ mic' = FALSE /\ isStop' = TRUE /\ asked' = TRUE
  /\ gui' = IF mode = "live" THEN "wait" ELSE "free"
  /\ UNCHANGED <<mode, take, object, file, encoder, queues, shot, events, pictures, sounds>>

(* wait() returns and the object is deleted, with the signals sent to it.  *)
StopLive ==
  /\ gui = "wait" /\ enc = "off"
  /\ gui' = "free" /\ object' = FALSE /\ events' = << >>
  /\ UNCHANGED <<mode, take, asked, file, encoder, isStop, queues, shot, capStop, camera, pictures,
                 mic, sounds>>

(* The frames of a live stream that was stopped have no receiver.          *)
SlotWriteVideoFrameData ==
  /\ gui = "free" /\ object /\ events # << >>
  /\ events' = Tail(events)
  /\ beginFlag' = FALSE
  /\ clock' \in IF beginFlag THEN {0} ELSE {clock, clock + 1}
  /\ videoQ' = Append(videoQ, [take |-> Head(events), time |-> clock'])
  /\ UNCHANGED <<dialog, file, encoder, isStop, audioQ, shot, capStop, camera, pictures, mic, sounds>>

(* Audio that comes before the first picture is dropped.                   *)
Dropped == beginFlag
SlotWriteAudioFrameData ==
  /\ gui = "free" /\ mic /\ sounds < MaxAudio
  /\ sounds' = sounds + 1
  /\ audioQ' = IF Dropped THEN audioQ ELSE audioQ + 1
  /\ UNCHANGED <<dialog, file, encoder, isStop, videoQ, beginFlag, clock, capture, mic>>

-----------------------------------------------------------------------------
(* The capture thread.                                                     *)

Shoot(from, to) == shot = from /\ shot' = to
Capturing == UNCHANGED <<dialog, file, encoder, isStop, queues, capStop, camera, mic, sounds>>

CaptureCheck ==
  /\ Shoot("check", IF capStop THEN "off" ELSE "read")
  /\ UNCHANGED <<events, pictures>> /\ Capturing

(* cap.read fails when the camera was released.                            *)
CaptureRead ==
  /\ \/ Shoot("read", "desk") /\ camera /\ pictures < MaxFrames /\ pictures' = pictures + 1
     \/ Shoot("read", "check") /\ ~camera /\ UNCHANGED pictures
  /\ UNCHANGED events /\ Capturing

(* A blocking call into the GUI thread.                                    *)
SlotGetDeskImg ==
  /\ gui = "free"
  /\ Shoot("desk", "convert")
  /\ UNCHANGED <<events, pictures>> /\ Capturing

(* No picture of the desktop, or none that can be converted: no frame.     *)
CaptureEmit ==
  /\ Shoot("convert", "check")
  /\ events' \in {Append(events, take), events}
  /\ UNCHANGED pictures /\ Capturing

-----------------------------------------------------------------------------
(* The encoding thread.                                                    *)

Still == UNCHANGED <<vnext, vpts, anext, last, videoQ, audioQ>>
Encoding == UNCHANGED <<dialog, isStop, beginFlag, clock, capture, mic, sounds>>

(* videoDataQuene_get: frames older than the next time go, but the newest. *)
Oldest(q, time) ==
  CHOOSE k \in 1 .. Len(q) : /\ k = Len(q) \/ time <= q[k].time
                             /\ \A j \in 1 .. k - 1 : time > q[j].time

(* Without a new picture the last one is written again; video_pts moves    *)
(* when the encoder gives out a packet.                                    *)
WriteVideoFrame ==
  /\ UNCHANGED <<anext, audioQ>>
  /\ IF videoQ = << >>
     THEN UNCHANGED <<videoQ, last>>
     ELSE LET k == Oldest(videoQ, vpts) IN
          /\ last' = videoQ[k]
          /\ videoQ' = SubSeq(videoQ, k + 1, Len(videoQ))
  /\ IF last' = NoFrame THEN UNCHANGED <<vnext, vpts>>
                        ELSE vnext' = vnext + 1 /\ vpts' \in {vpts, vnext'}

WriteAudioAlways ==
  UNCHANGED <<vnext, vpts, videoQ, last>> /\ audioQ' = audioQ - 1 /\ anext' = anext + 1
WriteAudioFrame ==
  /\ UNCHANGED <<vnext, vpts, videoQ, last>>
  /\ IF audioQ = 0 THEN UNCHANGED <<audioQ, anext>>
                   ELSE audioQ' = audioQ - 1 /\ anext' = anext + 1

OneEmpty == audioQ = 0 \/ videoQ = << >>
BothEmpty == audioQ = 0 /\ videoQ = << >>

(* The stream that is behind is written, video first.                      *)
EncodeFirst ==
  /\ enc = "first" /\ enc' = "firstCheck"
  /\ IF vnext <= anext THEN WriteVideoFrame ELSE WriteAudioFrame
  /\ UNCHANGED file /\ Encoding
FirstCheck ==
  /\ enc = "firstCheck"
  /\ enc' = IF isStop /\ OneEmpty THEN "second" ELSE "first"
  /\ UNCHANGED file /\ Still /\ Encoding

(* The rest of one queue; with a frame in both, nothing.                   *)
DrainAudio == IF OneEmpty /\ audioQ # 0 THEN WriteAudioFrame ELSE Still
Drain ==
  \/ OneEmpty /\ audioQ # 0 /\ WriteAudioFrame
  \/ OneEmpty /\ audioQ = 0 /\ videoQ # << >> /\ WriteVideoFrame
  \/ (BothEmpty \/ ~OneEmpty) /\ Still
EncodeSecond ==
  /\ enc = "second" /\ enc' = "secondCheck"
  /\ Drain
  /\ UNCHANGED file /\ Encoding
WrittenOne == OneEmpty
Written == BothEmpty
SecondCheck ==
  /\ enc = "secondCheck"
  /\ enc' = IF Written THEN "trailer" ELSE "second"
  /\ UNCHANGED file /\ Still /\ Encoding

WriteTrailer ==
  /\ enc = "trailer" /\ enc' = "off"
  /\ finished' = finished \cup {oc} /\ oc' = 0
  /\ Still /\ Encoding

-----------------------------------------------------------------------------
Gui == StopLive \/ SlotWriteVideoFrameData \/ SlotWriteAudioFrameData
Capture == CaptureCheck \/ CaptureRead \/ SlotGetDeskImg \/ CaptureEmit
Encode == EncodeFirst \/ FirstCheck \/ EncodeSecond \/ SecondCheck \/ WriteTrailer

Next == Start \/ Stop \/ Gui \/ Capture \/ Encode

Spec == Init /\ [][Next]_vars /\ WF_vars(StopLive) /\ WF_vars(Encode)

-----------------------------------------------------------------------------
(* Properties.                                                             *)

(* A live take has an object of its own: no frame of the take before is    *)
(* queued in it or sent again, and the encoder leaves its first loop only  *)
(* because this take was stopped (startLivePush).                          *)
OwnTake ==
  mode = "live" =>
    /\ \A i \in DOMAIN events : events[i] = take
    /\ \A i \in DOMAIN videoQ : videoQ[i].take = take
    /\ last.take \in {0, take}
    /\ enc \in {"second", "secondCheck", "trailer"} => asked

(* A live stream gets its trailer only when every frame queued was written *)
(* (the second loop of run).                                               *)
NothingLost == mode = "live" /\ enc = "trailer" => BothEmpty

(* QThread::wait in the GUI thread returns, whatever is in the queues.     *)
WaitReturns == gui = "wait" ~> gui = "free"
=============================================================================
