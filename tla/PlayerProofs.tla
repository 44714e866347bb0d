---------------------------- MODULE PlayerProofs ----------------------------
(***************************************************************************)
(* Theorems about Player, for files of any length and key frames, queues   *)
(* of any size and any number of playbacks, stops and seeks: the decoders  *)
(* are closed only when the video thread has ended, and a queue grows      *)
(* beyond its limit by one packet at most.                                 *)
(***************************************************************************)
EXTENDS Player, WellFoundedInduction, TLAPS

(* The video thread runs only between the opening of a file and the join;  *)
(* once it has ended it is not started again before the next opening; and  *)
(* only a file with sound and pictures has one.  Kept: what Memset resets  *)
(* is still so when the file is opened.                                    *)
WithVideo == {"loop", "flushed", "read", "recycle", "join"}
OnlyWhileOpen == video # "off" => reader \in WithVideo
EndedStays == videoThreadFinished /\ reader \in WithVideo => video = "off"
OnlyAv == video # "off" => kind = "av"
Kept == reader = "opening" => ~videoThreadFinished
VideoInv == OnlyWhileOpen /\ EndedStays /\ OnlyAv /\ Kept

LEMMA VideoInvInit == Init => VideoInv
  BY DEF Init, VideoInv, OnlyWhileOpen, EndedStays, OnlyAv, Kept, WithVideo

(* A press of "play" or "stop" starts the reader from "off" at most.       *)
LEMMA UserKeeps ==
  ASSUME VideoInv, User \/ Stopped
  PROVE  VideoInv'
  <1>1. UNCHANGED <<video, videoThreadFinished, kind>>
        /\ (reader' = reader \/ (reader = "off" /\ reader' = "starting"))
    BY DEF User, PressPlay, PressStop, PressPause, PressResume, Seek, Stopped, Begin, Threads,
           Controls, flags, threads, bounds, dialog, seeking, queues
  <1>2. QED
    BY <1>1 DEF VideoInv, OnlyWhileOpen, EndedStays, OnlyAv, Kept, WithVideo

(* The steps of the reader up to the loop.                                 *)
LEMMA OpenKeeps ==
  ASSUME VideoInv, Memset \/ Opening
  PROVE  VideoInv'
  <1>1. CASE Memset
    BY <1>1 DEF Memset, Reader, Reading, bounds, VideoInv, OnlyWhileOpen, EndedStays, OnlyAv, Kept,
                WithVideo
  <1>2. CASE Opening
    <2>1. /\ reader = "opening" /\ video = "off" /\ ~videoThreadFinished
          /\ UNCHANGED <<videoThreadFinished, kind>>
      BY <1>2 DEF Opening, Reading, bounds, flags, VideoInv, OnlyWhileOpen, Kept, WithVideo
    <2>2. \/ reader' = "off" /\ video' = "off"
          \/ reader' = "loop" /\ (video' # "off" => kind = "av")
      BY <1>2, <2>1 DEF Opening
    <2>3. QED
      BY <2>1, <2>2 DEF VideoInv, OnlyWhileOpen, EndedStays, OnlyAv, Kept, WithVideo
  <1>3. QED
    BY <1>1, <1>2

(* The reader's loop and its end leave the video thread alone.             *)
LEMMA LoopKeeps ==
  ASSUME VideoInv, Quits \/ SeekFrame \/ SeekFlags \/ Read \/ Recycle
  PROVE  VideoInv'
  <1>1. /\ reader \in WithVideo /\ reader' \in WithVideo
        /\ UNCHANGED <<video, videoThreadFinished, kind>>
    BY DEF Quits, SeekFrame, SeekFlags, Read, Recycle, Reader, Reading, bounds, flags, WithVideo
  <1>2. QED
    BY <1>1 DEF VideoInv, OnlyWhileOpen, EndedStays, OnlyAv, Kept, WithVideo

LEMMA JoinKeeps ==
  ASSUME VideoInv, Join \/ Ending
  PROVE  VideoInv'
  <1>1. CASE Join
    <2>1. reader = "join" /\ reader' = "ending" /\ UNCHANGED <<video, videoThreadFinished, kind>>
      BY <1>1 DEF Join, Reader, Reading, bounds
    <2>2. video = "off"
      BY <1>1, <2>1 DEF Join, Joined, HasVideo, VideoInv, EndedStays, OnlyAv, WithVideo
    <2>3. QED
      BY <2>1, <2>2 DEF VideoInv, OnlyWhileOpen, EndedStays, OnlyAv, Kept, WithVideo
  <1>2. CASE Ending
    BY <1>2 DEF Ending, Reader, Reading, bounds, flags, VideoInv, OnlyWhileOpen, EndedStays, OnlyAv,
                Kept, WithVideo
  <1>3. QED
    BY <1>1, <1>2

(* The video thread goes on, or ends and says so.                          *)
LEMMA VideoKeeps ==
  ASSUME VideoInv, VideoThread
  PROVE  VideoInv'
  <1>1. UNCHANGED <<reader, kind>>
    BY DEF VideoThread, VideoGet, Sync, Decode, TimerCallback, Decoding, bounds
  <1>2. \/ video' = "off" /\ video # "off"
        \/ video' # "off" /\ video # "off" /\ UNCHANGED videoThreadFinished
        \/ UNCHANGED <<video, videoThreadFinished>>
    BY DEF VideoThread, VideoGet, Sync, Decode, TimerCallback, End
  <1>3. QED
    BY <1>1, <1>2 DEF VideoInv, OnlyWhileOpen, EndedStays, OnlyAv, Kept, WithVideo

LEMMA VideoInvNext == VideoInv /\ [Next]_vars => VideoInv'
  <1> SUFFICES ASSUME VideoInv, [Next]_vars PROVE VideoInv'
    OBVIOUS
  <1>1. CASE User \/ Stopped
    BY <1>1, UserKeeps
  <1>2. CASE ReadThread
    BY <1>2, OpenKeeps, LoopKeeps, JoinKeeps DEF ReadThread
  <1>3. CASE VideoThread
    BY <1>3, VideoKeeps
  <1>4. CASE \E d \in Play : Audio(d)
    BY <1>4 DEF Audio, AudioGet, AudioDecode, Sounding, flags, bounds, VideoInv, OnlyWhileOpen,
                EndedStays, OnlyAv, Kept
  <1>5. CASE UNCHANGED vars
    BY <1>5 DEF vars, threads, flags, bounds, VideoInv, OnlyWhileOpen, EndedStays, OnlyAv, Kept
  <1>6. QED
    BY <1>1, <1>2, <1>3, <1>4, <1>5 DEF Next

(* The reading thread closes the decoders (run, "recycle") when nobody     *)
(* decodes any more, whatever the user does and however the file ends.     *)
THEOREM DecodersSafe == Spec => []DecoderOutlivesVideo
  <1>1. VideoInv => DecoderOutlivesVideo
    BY DEF VideoInv, OnlyWhileOpen, DecoderOutlivesVideo, WithVideo
  <1>2. QED
    BY <1>1, VideoInvInit, VideoInvNext, PTL DEF Spec

-----------------------------------------------------------------------------
(* The types, and with them the limits of the queues.  A packet is read    *)
(* after a seek without a look at them: the queues were flushed.           *)

Shape ==
  /\ kind \in Kinds /\ pstate \in {"Playing", "Pause", "Stop"}
  /\ gui \in {"free", "stopping"} /\ next \in {"nothing", "play"}
  /\ reader \in {"off", "starting", "opening", "loop", "flushed", "read", "recycle", "join", "ending"}
  /\ video \in {"off", "get", "sync", "decode"} /\ vpkt \in Time \cup {None}
  /\ devices \in [Play -> Time \cup {None, Closed}] /\ audioID \in 0 .. MaxPlays
  /\ seekPos \in Time /\ seekTime \in Time /\ vclock \in 0 .. Length /\ aclock \in 0 .. Length
  /\ vpos \in 0 .. Length /\ apos \in 0 .. Length
  /\ plays \in 0 .. MaxPlays /\ seeks \in 0 .. MaxOrders
  /\ video \in {"sync", "decode"} => vpkt \in Time
  /\ gui = "free" => next = "nothing"
  /\ next = "play" => plays < MaxPlays

Limits(q, has, max, at) ==
  /\ q \in Seq(Packet) /\ Len(q) <= max + 1
  /\ ~has => q = << >>
  /\ at \in {"flushed", "read"} => Len(q) <= 1
Filled == Limits(vq, HasVideo, MaxVideo, reader) /\ Limits(aq, HasAudio, MaxAudio, reader)

BoolFlags ==
  /\ quit \in BOOLEAN /\ isPause \in BOOLEAN /\ readFinished \in BOOLEAN
  /\ readThreadFinished \in BOOLEAN /\ videoThreadFinished \in BOOLEAN
  /\ seekReq \in BOOLEAN /\ seekA \in BOOLEAN /\ seekV \in BOOLEAN

LEMMA Sizes ==
  /\ Length \in Nat /\ MaxVideo \in Nat /\ MaxAudio \in Nat /\ MaxPlays \in Nat /\ MaxOrders \in Nat
  /\ Length >= 1 /\ MaxVideo >= 1 /\ MaxAudio >= 1
  /\ 0 \in Time
  BY LengthAssumption DEF Time

LEMMA Minimum ==
  ASSUME NEW S, S \subseteq Nat, S # {}
  PROVE  \E k \in S : \A j \in S : k <= j
  <1>1. \E k \in S : \A j \in S : ~(<<j, k>> \in OpToRel(<, Nat))
    BY NatLessThanWellFounded, WFMin, Zenon
  <1>2. PICK k \in S : \A j \in S : ~(<<j, k>> \in OpToRel(<, Nat))
    BY <1>1
  <1>3. ASSUME NEW j \in S PROVE k <= j
    <2>1. j \in Nat /\ k \in Nat /\ ~(j < k)
      BY <1>2, <1>3 DEF OpToRel
    <2>2. QED
      BY <2>1
  <1>4. QED
    BY <1>3

(* There is a last key frame before every time: the first frame is one.    *)
LEMMA KeyBeforeIn ==
  ASSUME NEW t \in Time
  PROVE  KeyBefore(t) \in KeyFrames /\ KeyBefore(t) <= t
  <1> DEFINE D == {t - k : k \in {k \in KeyFrames : k <= t}}
  <1>1. t \in Nat /\ KeyFrames \subseteq Nat /\ 0 \in KeyFrames
    BY Sizes, LengthAssumption DEF Time
  <1>2. D \subseteq Nat /\ D # {}
    <2>1. t - 0 \in D
      BY <1>1
    <2>2. \A k \in KeyFrames : k <= t => t - k \in Nat
      BY <1>1
    <2>3. QED
      BY <2>1, <2>2
  <1>3. PICK m \in D : \A j \in D : m <= j
    BY <1>2, Minimum
  <1>4. PICK k \in KeyFrames : k <= t /\ m = t - k
    BY <1>3
  <1>5. ASSUME NEW l \in KeyFrames, l <= t PROVE l <= k
    <2>1. t - k <= t - l
      BY <1>3, <1>4, <1>5
    <2>2. QED
      BY <1>1, <2>1
  <1>6. QED
    BY <1>4, <1>5 DEF KeyBefore

LEMMA ShapeInit == Init => Shape /\ Filled
  BY Sizes DEF Init, Shape, Filled, Limits, Time, Packet, Play

LEMMA UserShape ==
  ASSUME Shape, User \/ Stopped
  PROVE  Shape'
  <1>1. CASE PressPlay \/ PressStop
    BY <1>1, Sizes DEF PressPlay, PressStop, Begin, Threads, seeking, Shape
  <1>2. CASE Stopped
    <2>1. devices' \in [Play -> Time \cup {None, Closed}]
      BY <1>2 DEF Stopped, Shape
    <2>2. QED
      BY <1>2, <2>1, Sizes DEF Stopped, Begin, Threads, seeking, Shape
  <1>3. CASE PressPause \/ PressResume \/ \E t \in Time : Seek(t)
    BY <1>3, Sizes DEF PressPause, PressResume, Seek, Controls, dialog, threads, Shape
  <1>4. QED
    BY <1>1, <1>2, <1>3 DEF User

LEMMA ReaderShape ==
  ASSUME Shape, ReadThread
  PROVE  Shape'
  <1>1. CASE Memset \/ Ending
    BY <1>1, Sizes DEF Memset, Ending, Reader, Reading, dialog, bounds, Shape
  <1>2. CASE Opening
    <2>1. devices' \in [Play -> Time \cup {None, Closed}]
      BY <1>2 DEF Opening, Shape
    <2>2. QED
      BY <1>2, <2>1, Sizes DEF Opening, Reading, dialog, bounds, seeking, Shape
  <1>3. CASE SeekFrame
    <2>1. seekPos \in Time
      BY DEF Shape
    <2>2. KeyBefore(seekPos) \in KeyFrames /\ KeyFrames \subseteq 0 .. Length - 1
      BY <2>1, KeyBeforeIn, LengthAssumption
    <2>3. KeyBefore(seekPos) \in 0 .. Length
      <3>1. \A k \in KeyFrames : k \in 0 .. Length
        BY <2>2, Sizes
      <3>2. QED
        BY <2>2, <3>1
    <2>4. QED
      BY <1>3, <2>3, Sizes DEF SeekFrame, Reader, Reading, dialog, bounds, seeking, Shape
  <1>4. CASE Read
    BY <1>4, Sizes DEF Read, Reading, dialog, bounds, seeking, Shape
  <1>5. CASE Quits \/ SeekFlags \/ Recycle \/ Join
    BY <1>5 DEF Quits, SeekFlags, Recycle, Join, Reader, Reading, dialog, bounds, seeking, Shape
  <1>6. QED
    BY <1>1, <1>2, <1>3, <1>4, <1>5 DEF ReadThread

LEMMA TakenPacket ==
  ASSUME NEW q \in Seq(Packet), q # << >>
  PROVE  /\ Head(q) \in Packet /\ Tail(q) \in Seq(Packet) /\ Len(Tail(q)) = Len(q) - 1
         /\ Len(q) \in Nat
         /\ Head(q) # FLUSH => Head(q) \in Time /\ Head(q) + 1 \in 0 .. Length
  <1>1. Head(q) \in Packet /\ Tail(q) \in Seq(Packet) /\ Len(Tail(q)) = Len(q) - 1 /\ Len(q) \in Nat
    OBVIOUS
  <1>2. QED
    BY <1>1, Sizes DEF Packet, Time

LEMMA PlayShape ==
  ASSUME Shape, Filled, VideoThread \/ \E d \in Play : Audio(d)
  PROVE  Shape'
  <1>1. vq \in Seq(Packet) /\ aq \in Seq(Packet)
    BY DEF Filled, Limits
  <1>2. \A t \in Time : t \in 0 .. Length /\ t + 1 \in 0 .. Length
    BY Sizes DEF Time
  <1>3. CASE VideoGet
    <2>1. vq # << >> => Head(vq) = FLUSH \/ Head(vq) \in Time
      BY <1>1, TakenPacket
    <2>2. QED
      BY <1>3, <2>1, Sizes DEF VideoGet, End, Decoding, dialog, bounds, Shape
  <1>4. CASE Sync
    BY <1>4 DEF Sync, Decoding, dialog, bounds, Shape
  <1>5. CASE Decode
    BY <1>2, <1>5 DEF Decode, End, Decoding, dialog, bounds, Shape
  <1>6. CASE TimerCallback
    <2>1. vclock' \in 0 .. Length
      BY <1>1, <1>6, TakenPacket DEF TimerCallback, Shape
    <2>2. QED
      BY <1>6, <2>1 DEF TimerCallback, Decoding, dialog, bounds, Shape
  <1>7. ASSUME NEW d \in Play, AudioGet(d) PROVE Shape'
    <2>1. devices' \in [Play -> Time \cup {None, Closed}]
      BY <1>1, <1>7, TakenPacket DEF AudioGet, Shape
    <2>2. QED
      BY <1>7, <2>1 DEF AudioGet, Sounding, dialog, bounds, Shape
  <1>8. ASSUME NEW d \in Play, AudioDecode(d) PROVE Shape'
    <2>1. devices' \in [Play -> Time \cup {None, Closed}] /\ aclock' \in 0 .. Length
      BY <1>2, <1>8 DEF AudioDecode, Shape
    <2>2. QED
      BY <1>8, <2>1 DEF AudioDecode, Sounding, dialog, bounds, Shape
  <1>9. QED
    BY <1>3, <1>4, <1>5, <1>6, <1>7, <1>8 DEF VideoThread, Audio

(* What the threads do to a queue.                                         *)
LEMMA EmptyQueue ==
  ASSUME NEW has, NEW max \in Nat, NEW at
  PROVE  Limits(<< >>, has, max, at)
  BY DEF Limits

LEMMA FlushedQueue ==
  ASSUME NEW has, has, NEW max \in Nat, NEW at
  PROVE  Limits(<<FLUSH>>, has, max, at)
  BY DEF Limits, Packet

LEMMA OnePacketLess ==
  ASSUME NEW q, NEW has, NEW max \in Nat, NEW at, Limits(q, has, max, at), q # << >>
  PROVE  Limits(Tail(q), has, max, at)
  BY DEF Limits

LEMMA OnePacketMore ==
  ASSUME NEW q, NEW has, has, NEW max \in Nat, NEW at, Limits(q, has, max, at), Len(q) <= max,
         NEW x \in Packet
  PROVE  Limits(Append(q, x), has, max, "loop")
  BY DEF Limits

LEMMA SameQueue ==
  ASSUME NEW q, NEW has, NEW max, NEW at, Limits(q, has, max, at),
         NEW to, to \in {"flushed", "read"} => at \in {"flushed", "read"}
  PROVE  Limits(q, has, max, to)
  BY DEF Limits

LEMMA UserFilled ==
  ASSUME Filled, User \/ Stopped
  PROVE  Filled'
  <1>1. /\ UNCHANGED <<vq, aq, kind>>
        /\ reader' = reader \/ reader' = "starting"
    BY DEF User, PressPlay, PressStop, PressPause, PressResume, Seek, Stopped, Begin, Threads,
           Controls, threads, queues
  <1>2. UNCHANGED <<HasVideo, HasAudio>>
    BY <1>1 DEF HasVideo, HasAudio
  <1>3. Limits(vq, HasVideo, MaxVideo, reader') /\ Limits(aq, HasAudio, MaxAudio, reader')
    BY <1>1, SameQueue DEF Filled
  <1>4. QED
    BY <1>1, <1>2, <1>3 DEF Filled

LEMMA ReaderFilled ==
  ASSUME Shape, Filled, ReadThread
  PROVE  Filled'
  <1>1. UNCHANGED kind
    BY DEF ReadThread, Memset, Opening, Quits, SeekFrame, SeekFlags, Read, Recycle, Join, Ending,
           Reading, bounds
  <1>2. UNCHANGED <<HasVideo, HasAudio>>
    BY <1>1 DEF HasVideo, HasAudio
  <1>3. SUFFICES Limits(vq', HasVideo, MaxVideo, reader') /\ Limits(aq', HasAudio, MaxAudio, reader')
    BY <1>2 DEF Filled
  <1>4. Limits(vq, HasVideo, MaxVideo, reader) /\ Limits(aq, HasAudio, MaxAudio, reader)
    BY DEF Filled
  <1>5. CASE Memset \/ Recycle
    <2>1. vq' = << >> /\ aq' = << >>
      BY <1>5 DEF Memset, Recycle
    <2>2. QED
      BY <2>1, EmptyQueue, Sizes
  <1>6. CASE Opening \/ Quits \/ SeekFlags \/ Join \/ Ending
    <2>1. /\ UNCHANGED <<vq, aq>>
          /\ reader' \in {"flushed", "read"} => reader \in {"flushed", "read"}
      BY <1>6 DEF Opening, Quits, SeekFlags, Join, Ending, Reader, queues
    <2>2. QED
      BY <1>4, <2>1, SameQueue
  <1>7. CASE SeekFrame
    <2>1. /\ (HasVideo /\ vq' = <<FLUSH>>) \/ (~HasVideo /\ vq' = vq)
          /\ (HasAudio /\ aq' = <<FLUSH>>) \/ (~HasAudio /\ aq' = aq)
      BY <1>7 DEF SeekFrame
    <2>2. /\ ~HasVideo => vq = << >>
          /\ ~HasAudio => aq = << >>
      BY <1>4 DEF Limits
    <2>3. QED
      BY <2>1, <2>2, EmptyQueue, FlushedQueue, Sizes
  <1>8. CASE Read
    <2>1. /\ HasVideo => Len(vq) <= MaxVideo
          /\ HasAudio => Len(aq) <= MaxAudio
      <3>1. CASE reader = "read"
        BY <1>4, <3>1, Sizes DEF Limits
      <3>2. CASE Room
        BY <3>2 DEF Room
      <3>3. QED
        BY <1>8, <3>1, <3>2 DEF Read, Running
    <2>2. reader' \in {"loop", "recycle"}
      BY <1>8 DEF Read
    <2>3. /\ vq' = vq \/ (HasVideo /\ vpos \in Packet /\ vq' = Append(vq, vpos) /\ reader' = "loop")
          /\ aq' = aq \/ (HasAudio /\ apos \in Packet /\ aq' = Append(aq, apos) /\ reader' = "loop")
      <3>1. /\ vpos < Length => vpos \in Packet
            /\ apos < Length => apos \in Packet
        BY Sizes DEF Shape, Packet, Time
      <3>2. QED
        BY <1>8, <3>1 DEF Read
    <2>4. Limits(vq', HasVideo, MaxVideo, reader')
      BY <1>4, <2>1, <2>2, <2>3, OnePacketMore, SameQueue, Sizes
    <2>5. Limits(aq', HasAudio, MaxAudio, reader')
      BY <1>4, <2>1, <2>2, <2>3, OnePacketMore, SameQueue, Sizes
    <2>6. QED
      BY <2>4, <2>5
  <1>9. QED
    BY <1>5, <1>6, <1>7, <1>8 DEF ReadThread

LEMMA PlayFilled ==
  ASSUME Filled, VideoThread \/ \E d \in Play : Audio(d)
  PROVE  Filled'
  <1>1. /\ UNCHANGED <<reader, kind>>
        /\ vq' = vq \/ (vq # << >> /\ vq' = Tail(vq))
        /\ aq' = aq \/ (aq # << >> /\ aq' = Tail(aq))
    BY DEF VideoThread, VideoGet, Sync, Decode, TimerCallback, End, Decoding, Audio, AudioGet,
           AudioDecode, Sounding, bounds
  <1>2. UNCHANGED <<HasVideo, HasAudio>>
    BY <1>1 DEF HasVideo, HasAudio
  <1>3. Limits(vq, HasVideo, MaxVideo, reader) /\ Limits(aq, HasAudio, MaxAudio, reader)
    BY DEF Filled
  <1>4. Limits(vq', HasVideo, MaxVideo, reader) /\ Limits(aq', HasAudio, MaxAudio, reader)
    BY <1>1, <1>3, OnePacketLess, Sizes
  <1>5. QED
    BY <1>1, <1>2, <1>4 DEF Filled

(* A flag is assigned a constant or a comparison, or keeps its value.      *)
LEMMA FlagsInit == Init => BoolFlags
  BY Zenon DEF Init, BoolFlags

LEMMA FlagsKept == BoolFlags /\ [Next]_vars => BoolFlags'
  <1> SUFFICES ASSUME BoolFlags, [Next]_vars PROVE BoolFlags'
    OBVIOUS
  <1>1. /\ quit' \in {quit, TRUE, FALSE} /\ isPause' \in {isPause, TRUE, FALSE}
        /\ readFinished' \in {readFinished, TRUE, FALSE}
        /\ readThreadFinished' \in {readThreadFinished, TRUE, FALSE}
        /\ videoThreadFinished' \in {videoThreadFinished, TRUE, FALSE}
        /\ seekReq' \in {seekReq, TRUE, FALSE} /\ seekA' \in {seekA, TRUE, FALSE}
        /\ seekV' \in {seekV, TRUE, FALSE}
    <2>1. CASE User \/ Stopped
      BY <2>1 DEF User, PressPlay, PressStop, PressPause, PressResume, Seek, Stopped, Begin, Threads,
                  Controls, flags, seeking
    <2>2. CASE ReadThread
      BY <2>2 DEF ReadThread, Memset, Opening, Quits, SeekFrame, SeekFlags, Read, Recycle, Join, Ending,
                  Reading, flags, seeking
    <2>3. CASE VideoThread
      BY <2>3 DEF VideoThread, VideoGet, Sync, Decode, TimerCallback, End, Decoding, flags, seeking
    <2>4. CASE \E d \in Play : Audio(d)
      BY <2>4 DEF Audio, AudioGet, AudioDecode, Sounding, flags, seeking
    <2>5. CASE UNCHANGED vars
      BY <2>5 DEF vars, flags, seeking
    <2>6. QED
      BY <2>1, <2>2, <2>3, <2>4, <2>5 DEF Next
  <1>2. /\ quit' \in BOOLEAN /\ isPause' \in BOOLEAN /\ readFinished' \in BOOLEAN
        /\ readThreadFinished' \in BOOLEAN
    BY <1>1, Zenon DEF BoolFlags
  <1>3. /\ videoThreadFinished' \in BOOLEAN /\ seekReq' \in BOOLEAN /\ seekA' \in BOOLEAN
        /\ seekV' \in BOOLEAN
    BY <1>1, Zenon DEF BoolFlags
  <1>4. QED
    BY <1>2, <1>3, Zenon DEF BoolFlags

LEMMA StutterKeeps == Shape /\ Filled /\ UNCHANGED vars => Shape' /\ Filled'
  <1> SUFFICES ASSUME Shape, Filled, UNCHANGED vars PROVE Shape' /\ Filled'
    OBVIOUS
  <1>1. Shape'
    BY DEF Shape, vars, dialog, threads, seeking, bounds
  <1>2. UNCHANGED <<vq, aq, reader, kind>>
    BY DEF vars, queues, threads, bounds
  <1>3. QED
    BY <1>1, <1>2 DEF Filled, HasVideo, HasAudio

LEMMA ShapeNext == Shape /\ Filled /\ [Next]_vars => Shape' /\ Filled'
  <1> SUFFICES ASSUME Shape, Filled, [Next]_vars PROVE Shape' /\ Filled'
    OBVIOUS
  <1>1. CASE User \/ Stopped
    BY <1>1, UserShape, UserFilled
  <1>2. CASE ReadThread
    BY <1>2, ReaderShape, ReaderFilled
  <1>3. CASE VideoThread \/ \E d \in Play : Audio(d)
    BY <1>3, PlayShape, PlayFilled
  <1>4. CASE UNCHANGED vars
    BY <1>4, StutterKeeps
  <1>5. QED
    BY <1>1, <1>2, <1>3, <1>4 DEF Next

(* The variables keep their types; above all, a queue holds one packet     *)
(* more than its limit at most, although the limits are looked at before a *)
(* seek and the packet after it is read without another look (run).        *)
THEOREM PlayerTypes == Spec => []TypeOK
  <1>1. Shape /\ Filled /\ BoolFlags => TypeOK
    <2> SUFFICES ASSUME Shape, Filled, BoolFlags PROVE TypeOK
      OBVIOUS
    <2>1. {quit, isPause, readFinished, readThreadFinished, videoThreadFinished, seekReq, seekA, seekV}
            \subseteq BOOLEAN
      BY Zenon DEF BoolFlags
    <2>2. vq \in Seq(Packet) /\ Len(vq) <= MaxVideo + 1 /\ aq \in Seq(Packet) /\ Len(aq) <= MaxAudio + 1
      BY DEF Filled, Limits
    <2>3. QED
      BY <2>1, <2>2 DEF Shape, TypeOK
  <1>2. QED
    BY <1>1, ShapeInit, FlagsInit, ShapeNext, FlagsKept, PTL DEF Spec
=============================================================================
