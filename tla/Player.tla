------------------------------- MODULE Player -------------------------------
(***************************************************************************)
(* Playing a file or a stream: PlayerDialog (the GUI thread), VideoPlayer::*)
(* run (the reading thread), video_thread, and the callback of the audio   *)
(* device.  They share VideoState, whose flags no lock protects, and the   *)
(* two packet queues, each with a lock of its own.                         *)
(*                                                                         *)
(* A file is Length frames of every stream it has, one of each per unit of *)
(* time; a packet is its time, or the flush mark.  A seek goes to the last *)
(* key frame before its target and does not fail.  The streams are muxed   *)
(* in any way: which one the next frame is of is open.                     *)
(***************************************************************************)
EXTENDS Naturals, Sequences, FiniteSets

CONSTANTS
  Kinds,      \* of {"av", "a", "v", "bad"}: streams of the files, or none
  Length,     \* frames of a stream
  KeyFrames,  \* times of the key frames
  MaxVideo, MaxAudio,  \* MAX_VIDEO_SIZE and MAX_AUDIO_SIZE, in packets
  MaxPlays,   \* bound: files started
  MaxOrders   \* bound: files started and seeks

ASSUME KindsAssumption == Kinds \subseteq {"av", "a", "v", "bad"}
ASSUME LengthAssumption ==
  /\ {Length, MaxPlays, MaxOrders} \subseteq Nat /\ {MaxVideo, MaxAudio} \subseteq Nat \ {0}
  /\ 0 \in KeyFrames /\ KeyFrames \subseteq 0 .. Length - 1

VARIABLES
  kind,
  gui, next,                      \* in the loop of stop(true); what it does after that
  pstate,                         \* m_playerState
  reader, vpos, apos,             \* run(): where it is; frames it has read
  video, vpkt,                    \* video_thread; the packet it holds
  devices, audioID,               \* the packet a device's callback holds; the device known
  vq, aq,                         \* the packet queues
  quit, isPause, readFinished, readThreadFinished, videoThreadFinished,
  seekReq, seekPos, seekTime, seekA, seekV,
  vclock, aclock,                 \* video_clock, audio_clock
  plays, seeks                    \* files started; seeks

dialog == <<gui, next, plays>>
flags == <<quit, isPause, readFinished, readThreadFinished, videoThreadFinished>>
seeking == <<seekReq, seekPos, seekTime, seekA, seekV>>
queues == <<vq, aq>>
threads == <<reader, vpos, apos, video, vpkt, devices, audioID>>
bounds == <<kind, seeks>>
vars == <<dialog, pstate, threads, queues, flags, seeking, vclock, aclock, bounds>>

FLUSH == Length
None == Length + 1
Closed == Length + 2
Time == 0 .. Length - 1
Packet == Time \cup {FLUSH}
Play == 1 .. MaxPlays

TypeOK ==
  /\ kind \in Kinds /\ pstate \in {"Playing", "Pause", "Stop"}
  /\ gui \in {"free", "stopping"} /\ next \in {"nothing", "play"}
  /\ reader \in {"off", "starting", "opening", "loop", "flushed", "read", "recycle", "join", "ending"}
  /\ video \in {"off", "get", "sync", "decode"} /\ vpkt \in Time \cup {None}
  /\ devices \in [Play -> Time \cup {None, Closed}] /\ audioID \in 0 .. MaxPlays
  /\ vq \in Seq(Packet) /\ Len(vq) <= MaxVideo + 1 /\ aq \in Seq(Packet) /\ Len(aq) <= MaxAudio + 1
  /\ {quit, isPause, readFinished, readThreadFinished, videoThreadFinished, seekReq, seekA, seekV}
       \subseteq BOOLEAN
  /\ {seekPos, seekTime} \subseteq Time /\ {vclock, aclock} \subseteq 0 .. Length
  /\ {vpos, apos} \subseteq 0 .. Length
  /\ plays \in 0 .. MaxPlays /\ seeks \in 0 .. MaxOrders

(* VideoState's constructor.                                               *)
Init ==
  /\ kind \in Kinds /\ gui = "free" /\ next = "nothing" /\ pstate = "Stop"
  /\ reader = "off" /\ vpos = 0 /\ apos = 0 /\ video = "off" /\ vpkt = None
  /\ devices = [d \in Play |-> Closed] /\ audioID = 0 /\ vq = << >> /\ aq = << >>
  /\ quit = FALSE /\ isPause = FALSE
  /\ readFinished = TRUE /\ readThreadFinished = TRUE /\ videoThreadFinished = TRUE
  /\ seekReq = FALSE /\ seekPos = 0 /\ seekTime = 0 /\ seekA = FALSE /\ seekV = FALSE
  /\ vclock = 0 /\ aclock = 0
  /\ plays = 0 /\ seeks = 0

HasVideo == kind \in {"av", "v"}
HasAudio == kind \in {"av", "a"}

-----------------------------------------------------------------------------
(* The GUI thread.                                                         *)

(* The end of slot_PlayUrl, slot_PlayVideoWithId and on_pb_start_clicked:  *)
(* start() does nothing while run() is running.                            *)
Begin ==
  /\ plays' = plays + 1 /\ UNCHANGED seeks
  /\ pstate' = "Playing"
  /\ reader' = IF reader = "off" THEN "starting" ELSE reader
Threads == UNCHANGED <<vpos, apos, video, vpkt, queues, seeking, vclock, aclock, kind>>

PressPlay ==
  /\ gui = "free" /\ plays < MaxPlays /\ plays + seeks < MaxOrders
  /\ IF pstate = "Stop"
     THEN Begin /\ UNCHANGED <<gui, next, flags>>
     ELSE /\ quit' = TRUE /\ gui' = "stopping" /\ next' = "play"
          /\ UNCHANGED <<plays, seeks, pstate, reader, isPause, readFinished,
                         readThreadFinished, videoThreadFinished>>
  /\ UNCHANGED <<devices, audioID>> /\ Threads

PressStop ==
  /\ gui = "free"
  /\ quit' = TRUE /\ gui' = "stopping" /\ next' = "nothing"
  /\ UNCHANGED <<plays, seeks, pstate, reader, devices, audioID, isPause, readFinished,
                 readThreadFinished, videoThreadFinished>> /\ Threads

(* The loop of stop(true) ends: the device is closed.                      *)
Stopped ==
  /\ gui = "stopping" /\ readThreadFinished
  /\ gui' = "free" /\ next' = "nothing"
  /\ devices' = [d \in Play |-> IF d = audioID THEN Closed ELSE devices[d]] /\ audioID' = 0
  /\ IF next = "play" THEN Begin
                      ELSE pstate' = "Stop" /\ UNCHANGED <<plays, seeks, reader>>
  /\ UNCHANGED flags /\ Threads

Controls == UNCHANGED <<dialog, threads, queues, quit, readFinished, readThreadFinished,
                        videoThreadFinished, seekTime, seekA, seekV, vclock, aclock, kind>>
PressPause ==
  /\ gui = "free" /\ pstate = "Playing"
  /\ isPause' = TRUE /\ pstate' = "Pause"
  /\ UNCHANGED <<seekReq, seekPos, seeks>> /\ Controls
PressResume ==
  /\ gui = "free" /\ pstate = "Pause"
  /\ isPause' = FALSE /\ pstate' = "Playing"
  /\ UNCHANGED <<seekReq, seekPos, seeks>> /\ Controls
(* A seek while nothing is open is undone by Memset and left out.          *)
Seek(t) ==
  /\ gui = "free" /\ plays + seeks < MaxOrders /\ reader \notin {"off", "starting", "join", "ending"}
  /\ IF seekReq THEN UNCHANGED <<seekReq, seekPos>> ELSE seekReq' = TRUE /\ seekPos' = t
  /\ seeks' = seeks + 1
  /\ UNCHANGED <<isPause, pstate>> /\ Controls

-----------------------------------------------------------------------------
(* The reading thread.                                                     *)

Reader(from, to) == reader = from /\ reader' = to
Reading == UNCHANGED <<dialog, bounds>>

Memset ==
  /\ Reader("starting", "opening")
  /\ quit' = FALSE /\ isPause' = FALSE
  /\ readFinished' = FALSE /\ readThreadFinished' = FALSE /\ videoThreadFinished' = FALSE
  /\ seekReq' = FALSE /\ seekPos' = 0 /\ seekTime' = 0 /\ seekA' = FALSE /\ seekV' = FALSE
  /\ vclock' = 0 /\ aclock' = 0 /\ vq' = << >> /\ aq' = << >> /\ audioID' = 0
  /\ UNCHANGED <<pstate, vpos, apos, video, vpkt, devices>> /\ Reading

(* A file that cannot be opened ends the thread, and only the thread.      *)
Opening ==
  /\ reader = "opening"
  /\ IF kind = "bad"
     THEN reader' = "off" /\ UNCHANGED <<vpos, apos, video, devices, audioID>>
     ELSE /\ reader' = "loop" /\ vpos' = 0 /\ apos' = 0
          /\ video' = IF kind = "av" THEN "get" ELSE video
          /\ devices' = IF HasAudio THEN [devices EXCEPT ![plays] = None] ELSE devices
          /\ audioID' = IF HasAudio THEN plays ELSE audioID
  /\ UNCHANGED <<pstate, vpkt, queues, flags, seeking, vclock, aclock>> /\ Reading

(* Nothing is read while a queue is full, but the order to stop is seen.   *)
RoomAlways == TRUE
Room == (HasAudio => Len(aq) <= MaxAudio) /\ (HasVideo => Len(vq) <= MaxVideo)
StopSeenLate == quit /\ Room
StopSeen == quit
Running == Room /\ ~quit

Quits ==
  /\ StopSeen /\ Reader("loop", "recycle")
  /\ UNCHANGED <<pstate, vpos, apos, video, vpkt, devices, audioID, queues, flags, seeking, vclock, aclock>>
  /\ Reading

KeyBefore(t) == CHOOSE k \in KeyFrames : k <= t /\ \A l \in KeyFrames : l <= t => l <= k
SeekFrame ==
  /\ Running /\ seekReq /\ Reader("loop", "flushed")
  /\ vpos' = KeyBefore(seekPos) /\ apos' = KeyBefore(seekPos)
  /\ aq' = IF HasAudio THEN <<FLUSH>> ELSE aq
  /\ IF HasVideo THEN vq' = <<FLUSH>> /\ vclock' = 0 ELSE UNCHANGED <<vq, vclock>>
  /\ UNCHANGED <<pstate, video, vpkt, devices, audioID, flags, seeking, aclock>> /\ Reading

SeekFlags ==
  /\ Reader("flushed", "read")
  /\ seekReq' = FALSE /\ seekTime' = seekPos /\ seekA' = TRUE /\ seekV' = TRUE
  /\ UNCHANGED <<pstate, vpos, apos, video, vpkt, devices, audioID, queues, flags, seekPos, vclock, aclock>>
  /\ Reading

(* At the end of the file, after a while.                                  *)
Finished == ~seekA /\ ~seekV
Read ==
  /\ reader = "read" \/ (reader = "loop" /\ Running /\ ~seekReq)
  /\ \/ /\ vpos < Length /\ vpos' = vpos + 1 /\ reader' = "loop"
        /\ vq' = IF HasVideo THEN Append(vq, vpos) ELSE vq
        /\ UNCHANGED <<apos, aq, readFinished>>
     \/ /\ apos < Length /\ apos' = apos + 1 /\ reader' = "loop"
        /\ aq' = IF HasAudio THEN Append(aq, apos) ELSE aq
        /\ UNCHANGED <<vpos, vq, readFinished>>
     \/ /\ vpos = Length /\ apos = Length
        /\ readFinished' = (readFinished \/ Finished)
        /\ reader' = IF quit THEN "recycle" ELSE "loop"
        /\ UNCHANGED <<vpos, apos, vq, aq>>
  /\ UNCHANGED <<pstate, video, vpkt, devices, audioID, quit, isPause, readThreadFinished,
                 videoThreadFinished, seeking, vclock, aclock>> /\ Reading

Recycle ==
  /\ Reader("recycle", "join") /\ vq' = << >> /\ aq' = << >>
  /\ UNCHANGED <<pstate, vpos, apos, video, vpkt, devices, audioID, flags, seeking, vclock, aclock>>
  /\ Reading

(* The decoders are closed.                                                *)
JoinNone == TRUE
Joined == HasVideo => videoThreadFinished
Join ==
  /\ Joined /\ Reader("join", "ending") /\ readThreadFinished' = TRUE
  /\ UNCHANGED <<pstate, vpos, apos, video, vpkt, devices, audioID, queues, quit, isPause, readFinished,
                 videoThreadFinished, seeking, vclock, aclock>> /\ Reading

(* What nobody reads again before Memset is reset here, for fewer states.  *)
Ending ==
  /\ Reader("ending", "off") /\ pstate' = "Stop"
  /\ vpos' = 0 /\ apos' = 0 /\ vclock' = 0 /\ aclock' = 0
  /\ seekReq' = FALSE /\ seekPos' = 0 /\ seekTime' = 0 /\ seekA' = FALSE /\ seekV' = FALSE
  /\ UNCHANGED <<video, vpkt, devices, audioID, queues, flags>>
  /\ Reading

-----------------------------------------------------------------------------
(* video_thread.                                                           *)

Decoding == UNCHANGED <<dialog, pstate, reader, vpos, apos, devices, audioID, aq, isPause, readFinished,
                        readThreadFinished, seekReq, seekPos, seekTime, seekA, aclock, bounds>>
End ==
  /\ video' = "off" /\ vpkt' = None /\ quit' = TRUE /\ videoThreadFinished' = TRUE
  /\ UNCHANGED <<vq, seekV, vclock>>

VideoGet ==
  /\ video = "get"
  /\ \/ quit /\ End
     \/ ~quit /\ ~isPause /\ vq = << >> /\ ~seekV /\ readFinished /\ aq = << >> /\ End
     \/ /\ ~quit /\ ~isPause /\ vq # << >> /\ vq' = Tail(vq)
        /\ IF Head(vq) = FLUSH
           THEN vclock' = 0 /\ UNCHANGED <<video, vpkt>>
           ELSE video' = "sync" /\ vpkt' = Head(vq) /\ UNCHANGED vclock
        /\ UNCHANGED <<quit, videoThreadFinished, seekV>>
  /\ Decoding

(* A picture waits for the sound, unless there is none to come.            *)
InTimeOnly == vclock <= aclock
InTime == aq = << >> \/ vclock <= aclock
Sync ==
  /\ video = "sync" /\ (quit \/ InTime) /\ video' = "decode"
  /\ UNCHANGED <<vpkt, vq, quit, videoThreadFinished, seekV, vclock>> /\ Decoding

(* Pictures before the target of a seek are not shown; a packet that       *)
(* cannot be decoded ends the playback.                                    *)
Decode ==
  /\ video = "decode"
  /\ \/ End
     \/ /\ video' = "get" /\ vpkt' = None /\ vclock' = vpkt + 1
        /\ seekV' = (seekV /\ vpkt < seekTime)
        /\ UNCHANGED <<vq, quit, videoThreadFinished>>
  /\ Decoding

(* timer_callback: a file without sound.                                   *)
TimerCallback ==
  /\ kind = "v" /\ vq # << >> /\ vq' = Tail(vq)
  /\ vclock' = IF Head(vq) = FLUSH THEN vclock ELSE Head(vq) + 1
  /\ UNCHANGED <<video, vpkt, quit, videoThreadFinished, seekV>> /\ Decoding

-----------------------------------------------------------------------------
(* audio_callback and audio_decode_frame, for every device that was opened *)
(* and not closed: after a playback that ended by itself the next one has  *)
(* two.                                                                    *)

Sounding == UNCHANGED <<dialog, pstate, reader, vpos, apos, video, vpkt, audioID, vq, flags,
                        seekReq, seekPos, seekTime, seekV, vclock, bounds>>
AudioGet(d) ==
  /\ devices[d] = None /\ ~isPause /\ ~quit /\ aq # << >> /\ aq' = Tail(aq)
  /\ devices' = IF Head(aq) = FLUSH THEN devices ELSE [devices EXCEPT ![d] = Head(aq)]
  /\ UNCHANGED <<seekA, aclock>> /\ Sounding
AudioDecode(d) ==
  /\ devices[d] \in Time /\ devices' = [devices EXCEPT ![d] = None]
  /\ IF quit THEN UNCHANGED <<seekA, aclock>>
             ELSE aclock' = devices[d] /\ seekA' = (seekA /\ devices[d] < seekTime)
  /\ UNCHANGED aq /\ Sounding

-----------------------------------------------------------------------------
User == PressPlay \/ PressStop \/ PressPause \/ PressResume \/ \E t \in Time : Seek(t)
ReadThread == Memset \/ Opening \/ Quits \/ SeekFrame \/ SeekFlags \/ Read \/ Recycle \/ Join \/ Ending
VideoThread == VideoGet \/ Sync \/ Decode \/ TimerCallback
Audio(d) == AudioGet(d) \/ AudioDecode(d)
Next == User \/ Stopped \/ ReadThread \/ VideoThread \/ \E d \in Play : Audio(d)

Spec == /\ Init /\ [][Next]_vars
        /\ WF_vars(Stopped) /\ WF_vars(ReadThread) /\ WF_vars(VideoThread)
        /\ \A d \in Play : WF_vars(Audio(d))

-----------------------------------------------------------------------------
(* Properties.                                                             *)

(* The reading thread closes the decoders when the video thread has ended, *)
(* however it ended (run, "recycle").                                      *)
DecoderOutlivesVideo == reader = "ending" => video = "off"

(* The GUI comes back from stop(true), whatever the threads wait for; a    *)
(* file with sound and pictures.                                           *)
StopReturns == gui = "stopping" /\ kind = "av" ~> gui = "free"

(* A playback that is not paused ends: the picture waits for the sound,    *)
(* the sound for packets, the reader for room in either queue, but never   *)
(* all three for each other, before or after seeks.                        *)
PlaybackEnds == video = "get" ~> video = "off" \/ isPause
=============================================================================
