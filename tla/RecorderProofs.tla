--------------------------- MODULE RecorderProofs ---------------------------
(***************************************************************************)
(* Theorems about Recorder, for any numbers of takes, pictures and sounds: *)
(* its types, and that a live take sends its own frames and all of them.   *)
(***************************************************************************)
EXTENDS Recorder, WellFoundedInduction, TLAPS

(* Threads run only in a take; its frames are of takes there were.         *)
InTake == /\ enc # "off" => oc # 0
          /\ take = 0 => shot = "off" /\ events = << >> /\ ~camera
Types == TypeOK /\ InTake

LEMMA TypesInit == Init => Types
  <1> SUFFICES ASSUME Init PROVE Types
    OBVIOUS
  <1>1. {object, isStop, beginFlag, capStop, camera, mic, asked} \subseteq BOOLEAN
    BY Zenon DEF Init
  <1>2. events \in Seq(Take) /\ videoQ \in Seq(Frame)
    BY DEF Init
  <1>3. /\ mode \in Modes /\ take \in 0 .. MaxTakes /\ gui \in {"free", "wait"}
        /\ oc \in 0 .. take /\ finished \subseteq 1 .. take /\ enc = "off" /\ shot = "off"
        /\ {vnext, vpts, anext, clock, audioQ} \subseteq Nat
        /\ pictures \in 0 .. MaxFrames /\ sounds \in 0 .. MaxAudio
    BY BoundsAssumption DEF Init
  <1>4. last = NoFrame /\ InTake
    BY DEF Init, InTake
  <1>5. QED
    BY <1>1, <1>2, <1>3, <1>4 DEF Types, TypeOK

-----------------------------------------------------------------------------
(* Sequences and the choice of a frame.                                    *)

LEMMA Least ==
  ASSUME NEW S, S \subseteq Nat, S # {}
  PROVE  \E k \in S : \A j \in S : k <= j
  <1>1. \E k \in S : \A j \in S : ~(<<j, k>> \in OpToRel(<, Nat))
    BY NatLessThanWellFounded, WFMin, Zenon
  <1>2. PICK k \in S : \A j \in S : ~(<<j, k>> \in OpToRel(<, Nat))
    BY <1>1
  <1>3. ASSUME NEW j \in S PROVE k <= j
    <2>1. j \in Nat /\ k \in Nat /\ ~(j < k)
      BY <1>2, <1>3 DEF OpToRel
    <2>2. QED
      BY <2>1
  <1>4. QED
    BY <1>3

(* videoDataQuene_get of a queue that holds a frame finds one.             *)
LEMMA OldestFrame ==
  ASSUME NEW q \in Seq(Frame), q # << >>, NEW time \in Nat
  PROVE  Oldest(q, time) \in 1 .. Len(q)
  <1> DEFINE S == {k \in 1 .. Len(q) : k = Len(q) \/ time <= q[k].time}
  <1>1. S \subseteq Nat /\ Len(q) \in S
    OBVIOUS
  <1>2. PICK k \in S : \A j \in S : k <= j
    BY <1>1, Least
  <1>3. ASSUME NEW j \in 1 .. k - 1 PROVE time > q[j].time
    <2>1. j \in 1 .. Len(q) /\ j \notin S /\ j # Len(q)
      BY <1>2
    <2>2. q[j] \in Frame
      BY <2>1
    <2>3. q[j].time \in Nat
      BY <2>2 DEF Frame
    <2>4. QED
      BY <2>1, <2>3
  <1>4. k \in 1 .. Len(q) /\ (k = Len(q) \/ time <= q[k].time)
    BY <1>2
  <1>5. QED
    BY <1>3, <1>4 DEF Oldest

LEMMA Rest ==
  ASSUME NEW S, NEW q \in Seq(S), NEW k \in 1 .. Len(q)
  PROVE  /\ SubSeq(q, k + 1, Len(q)) \in Seq(S)
         /\ \A i \in DOMAIN SubSeq(q, k + 1, Len(q)) :
              \E j \in DOMAIN q : SubSeq(q, k + 1, Len(q))[i] = q[j]
  OBVIOUS

(* What one write takes from the queues and leaves.                        *)
LEMMA VideoWritten ==
  ASSUME Types, WriteVideoFrame
  PROVE  /\ UNCHANGED <<anext, audioQ>>
         /\ videoQ' \in Seq(Frame) /\ last' \in Frame \cup {NoFrame} /\ {vnext', vpts'} \subseteq Nat
         /\ \A i \in DOMAIN videoQ' : \E j \in DOMAIN videoQ : videoQ'[i] = videoQ[j]
         /\ last' = last \/ \E j \in DOMAIN videoQ : last' = videoQ[j]
         /\ videoQ = << >> => videoQ' = << >>
  <1>1. UNCHANGED <<anext, audioQ>> /\ {vnext', vpts'} \subseteq Nat
    BY DEF WriteVideoFrame, Types, TypeOK
  <1>2. CASE videoQ = << >>
    BY <1>1, <1>2 DEF WriteVideoFrame, Types, TypeOK
  <1>3. CASE videoQ # << >>
    <2> DEFINE k == Oldest(videoQ, vpts)
    <2>1. videoQ \in Seq(Frame) /\ k \in 1 .. Len(videoQ)
      BY <1>3, OldestFrame DEF Types, TypeOK
    <2>2. last' = videoQ[k] /\ videoQ' = SubSeq(videoQ, k + 1, Len(videoQ))
      BY <1>3 DEF WriteVideoFrame
    <2> HIDE DEF k
    <2>3. videoQ' \in Seq(Frame) /\ videoQ[k] \in Frame
          /\ \A i \in DOMAIN videoQ' : \E j \in DOMAIN videoQ : videoQ'[i] = videoQ[j]
      BY <2>1, <2>2, Rest
    <2>4. QED
      BY <1>1, <1>3, <2>1, <2>2, <2>3
  <1>4. QED
    BY <1>2, <1>3

LEMMA AudioWritten ==
  ASSUME Types, WriteAudioFrame
  PROVE  UNCHANGED <<vnext, vpts, videoQ, last>> /\ audioQ' \in Nat /\ anext' \in Nat
         /\ (audioQ = 0 => audioQ' = 0)
  BY DEF WriteAudioFrame, Types, TypeOK

-----------------------------------------------------------------------------
(* The types in parts: the flags, which Zenon proves; the stages and the   *)
(* counters; and what is made of frames.                                   *)
Flags == {object, isStop, beginFlag, capStop, camera, mic, asked} \subseteq BOOLEAN
Counts ==
  /\ mode \in Modes /\ take \in 0 .. MaxTakes /\ gui \in {"free", "wait"}
  /\ oc \in 0 .. take /\ finished \subseteq 1 .. take
  /\ enc \in {"off", "first", "firstCheck", "second", "secondCheck", "trailer"}
  /\ {vnext, vpts, anext, clock, audioQ} \subseteq Nat
  /\ shot \in {"off", "check", "read", "desk", "convert"}
  /\ pictures \in 0 .. MaxFrames /\ sounds \in 0 .. MaxAudio
Frames == videoQ \in Seq(Frame) /\ last \in Frame \cup {NoFrame} /\ events \in Seq(Take)

LEMMA TypeParts == TypeOK <=> Flags /\ Counts /\ Frames
  BY Zenon DEF TypeOK, Flags, Counts, Frames

LEMMA FlagsNext == Flags /\ [Next]_vars => Flags'
  <1> SUFFICES ASSUME Flags, [Next]_vars PROVE Flags'
    OBVIOUS
  <1>1. CASE Start
    <2>1. isStop' \in {isStop, FALSE}
      BY <1>1, Zenon DEF Start, Instance, New, Kept
    <2>2. camera' \in BOOLEAN /\ capStop' \in {capStop, TRUE, FALSE} /\ mic' = TRUE
      BY <1>1, Zenon DEF Start, OpenCamera, OpenAudio
    <2>3. object' = TRUE /\ asked' = FALSE /\ beginFlag' = TRUE
      BY <1>1 DEF Start
    <2>4. QED
      BY <2>1, <2>2, <2>3, Zenon DEF Flags
  <1>2. CASE Stop
    BY <1>2, Zenon DEF Stop, Flags, queues
  <1>3. CASE StopLive
    BY <1>3, Zenon DEF StopLive, Flags, queues
  <1>4. CASE SlotWriteVideoFrameData
    BY <1>4, Zenon DEF SlotWriteVideoFrameData, Flags, dialog
  <1>5. CASE SlotWriteAudioFrameData
    BY <1>5, Zenon DEF SlotWriteAudioFrameData, Flags, dialog, capture
  <1>6. CASE Capture
    <2>1. Capturing
      BY <1>6 DEF Capture, CaptureCheck, CaptureRead, SlotGetDeskImg, CaptureEmit
    <2>2. QED
      BY <2>1, Zenon DEF Capturing, dialog, queues, Flags
  <1>7. CASE Encode
    <2>1. Encoding
      BY <1>7 DEF Encode, EncodeFirst, FirstCheck, EncodeSecond, SecondCheck, WriteTrailer
    <2>2. QED
      BY <2>1, Zenon DEF Encoding, dialog, capture, Flags
  <1>8. CASE UNCHANGED vars
    BY <1>8, Zenon DEF vars, Flags
  <1>9. QED
    BY <1>1, <1>2, <1>3, <1>4, <1>5, <1>6, <1>7, <1>8, Zenon DEF Next, Gui

-----------------------------------------------------------------------------
(* One lemma per thread.                                                   *)

Stages == Counts /\ Frames /\ InTake

LEMMA StartTypes == Types /\ Start => Stages'
  <1> SUFFICES ASSUME Types, Start PROVE Stages'
    OBVIOUS
  <1>1. Stages
    BY TypeParts DEF Types, Stages
  <1>2. take' = take + 1 /\ take' \in 1 .. MaxTakes /\ oc' = take' /\ UNCHANGED <<mode, gui, finished>>
        /\ enc' \in {enc, "first"} /\ pictures' = 0 /\ sounds' = 0
    BY <1>1, BoundsAssumption DEF Start, SetInfo, Stages, Counts
  <1>3. shot' \in {"check", "off", shot}
    BY DEF Start, OpenCamera
  <1>4. /\ {vnext', vpts', anext', clock', audioQ'} \subseteq Nat
        /\ videoQ' \in Seq(Frame) /\ last' \in Frame \cup {NoFrame} /\ events' \in Seq(Take)
    <2>1. CASE New
      BY <2>1 DEF New
    <2>2. CASE Kept
      BY <1>1, <2>2 DEF Kept, Stages, Counts, Frames
    <2>3. QED
      BY <2>1, <2>2 DEF Start, Instance
  <1>5. Counts'
    <2>1. 1 .. take \subseteq 1 .. take' /\ take \in Nat /\ take' \in 0 .. MaxTakes /\ oc' \in 0 .. take'
      BY <1>1, <1>2, BoundsAssumption DEF Counts, Stages
    <2>2. finished' \subseteq 1 .. take'
      BY <1>1, <1>2, <2>1 DEF Counts, Stages
    <2>3. pictures' \in 0 .. MaxFrames /\ sounds' \in 0 .. MaxAudio
      BY <1>2, BoundsAssumption
    <2>4. QED
      BY <1>1, <1>2, <1>3, <1>4, <2>1, <2>2, <2>3 DEF Counts, Stages
  <1>6. Frames' /\ InTake'
    BY <1>2, <1>4 DEF Frames, InTake
  <1>7. QED
    BY <1>5, <1>6 DEF Stages

LEMMA GuiTypes == Types /\ (Stop \/ Gui) => Stages'
  <1> SUFFICES ASSUME Types, Stop \/ Gui PROVE Stages'
    OBVIOUS
  <1>1. Stages
    BY TypeParts DEF Types, Stages
  <1>2. CASE Stop
    BY <1>1, <1>2 DEF Stop, file, encoder, queues, Stages, Counts, Frames, InTake
  <1>3. CASE StopLive
    BY <1>1, <1>3 DEF StopLive, file, encoder, queues, Stages, Counts, Frames, InTake
  <1>4. CASE SlotWriteVideoFrameData
    <2>1. UNCHANGED <<dialog, file, encoder, audioQ, shot, camera, pictures, sounds>>
          /\ events' = Tail(events) /\ events # << >>
      BY <1>4 DEF SlotWriteVideoFrameData
    <2>2. clock' \in Nat /\ Head(events) \in Take /\ events' \in Seq(Take)
      BY <1>1, <1>4, <2>1 DEF SlotWriteVideoFrameData, Stages, Counts, Frames
    <2>3. videoQ' \in Seq(Frame)
      BY <1>1, <1>4, <2>2 DEF SlotWriteVideoFrameData, Stages, Frames, Frame
    <2>4. QED
      BY <1>1, <2>1, <2>2, <2>3 DEF dialog, file, encoder, Stages, Counts, Frames, InTake
  <1>5. CASE SlotWriteAudioFrameData
    <2>1. audioQ' \in Nat /\ sounds' \in 0 .. MaxAudio
      BY <1>1, <1>5, BoundsAssumption DEF SlotWriteAudioFrameData, Dropped, Stages, Counts
    <2>2. UNCHANGED <<dialog, file, encoder, videoQ, clock, capture>>
      BY <1>5 DEF SlotWriteAudioFrameData
    <2>3. QED
      BY <1>1, <2>1, <2>2 DEF dialog, file, encoder, capture, Stages, Counts, Frames, InTake
  <1>6. QED
    BY <1>2, <1>3, <1>4, <1>5 DEF Gui

LEMMA CaptureTypes == Types /\ Capture => Stages'
  <1> SUFFICES ASSUME Types, Capture PROVE Stages'
    OBVIOUS
  <1>1. Stages
    BY TypeParts DEF Types, Stages
  <1>2. Capturing
    BY DEF Capture, CaptureCheck, CaptureRead, SlotGetDeskImg, CaptureEmit
  <1>3. shot # "off" /\ shot' \in {"off", "check", "read", "desk", "convert"}
    BY DEF Capture, CaptureCheck, CaptureRead, SlotGetDeskImg, CaptureEmit, Shoot
  <1>4. take \in Take
    BY <1>1, <1>3, BoundsAssumption DEF Stages, Counts, InTake, Take
  <1>5. events' \in Seq(Take)
    <2>1. events' \in {Append(events, take), events}
      BY DEF Capture, CaptureCheck, CaptureRead, SlotGetDeskImg, CaptureEmit
    <2>2. QED
      BY <1>1, <1>4, <2>1 DEF Stages, Frames
  <1>6. pictures' \in 0 .. MaxFrames
    <2>1. pictures' = pictures \/ (pictures < MaxFrames /\ pictures' = pictures + 1)
      BY DEF Capture, CaptureCheck, CaptureRead, SlotGetDeskImg, CaptureEmit
    <2>2. QED
      BY <1>1, <2>1, BoundsAssumption DEF Stages, Counts
  <1>7. QED
    BY <1>1, <1>2, <1>3, <1>4, <1>5, <1>6 DEF Capturing, dialog, file, encoder, queues, Stages, Counts,
       Frames, InTake, Take

(* What the encoding thread may do to the queues.                          *)
LEMMA EncodeQueues ==
  ASSUME Types, Encode
  PROVE  /\ videoQ' \in Seq(Frame) /\ last' \in Frame \cup {NoFrame}
         /\ {vnext', vpts', anext', audioQ'} \subseteq Nat
         /\ \A i \in DOMAIN videoQ' : \E j \in DOMAIN videoQ : videoQ'[i] = videoQ[j]
         /\ last' = last \/ \E j \in DOMAIN videoQ : last' = videoQ[j]
         /\ enc \in {"firstCheck", "secondCheck", "trailer"} => Still
  <1>1. Counts /\ Frames
    BY TypeParts DEF Types
  <1>2. Still \/ WriteVideoFrame \/ WriteAudioFrame
    BY DEF Encode, EncodeFirst, FirstCheck, EncodeSecond, Drain, SecondCheck, WriteTrailer
  <1>3. enc \in {"firstCheck", "secondCheck", "trailer"} => Still
    BY DEF Encode, EncodeFirst, FirstCheck, EncodeSecond, SecondCheck, WriteTrailer
  <1>4. CASE Still
    BY <1>1, <1>3, <1>4 DEF Still, Counts, Frames
  <1>5. CASE WriteVideoFrame
    BY <1>1, <1>3, <1>5, VideoWritten DEF Counts
  <1>6. CASE WriteAudioFrame
    BY <1>1, <1>3, <1>6, AudioWritten DEF Counts, Frames
  <1>7. QED
    BY <1>2, <1>4, <1>5, <1>6

LEMMA EncodeTypes == Types /\ Encode => Stages'
  <1> SUFFICES ASSUME Types, Encode PROVE Stages'
    OBVIOUS
  <1>1. Stages
    BY TypeParts DEF Types, Stages
  <1>2. Encoding
    BY DEF Encode, EncodeFirst, FirstCheck, EncodeSecond, SecondCheck, WriteTrailer
  <1>3. /\ enc # "off" /\ oc # 0
        /\ enc' \in {"off", "first", "firstCheck", "second", "secondCheck", "trailer"}
    BY <1>1 DEF Encode, EncodeFirst, FirstCheck, EncodeSecond, SecondCheck, WriteTrailer, Stages, InTake
  <1>4. UNCHANGED file \/ (enc' = "off" /\ finished' = finished \cup {oc} /\ oc' = 0)
    BY DEF Encode, EncodeFirst, FirstCheck, EncodeSecond, SecondCheck, WriteTrailer
  <1>5. oc' \in 0 .. take /\ finished' \subseteq 1 .. take /\ (enc' # "off" => oc' # 0)
    <2>1. oc \in 1 .. take /\ finished \subseteq 1 .. take
      BY <1>1, <1>3 DEF Stages, Counts
    <2>2. finished \cup {oc} \subseteq 1 .. take /\ 0 \in 0 .. take
      BY <1>1, <2>1 DEF Stages, Counts
    <2>3. QED
      BY <1>1, <1>3, <1>4, <2>1, <2>2 DEF file, Stages, Counts
  <1>6. QED
    BY <1>1, <1>2, <1>3, <1>5, EncodeQueues DEF Encoding, dialog, capture, Stages, Counts, Frames, InTake

LEMMA TypesNext == Types /\ [Next]_vars => Types'
  <1> SUFFICES ASSUME Types, [Next]_vars PROVE Types'
    OBVIOUS
  <1>1. Flags'
    BY TypeParts, FlagsNext DEF Types
  <1>2. ASSUME UNCHANGED vars PROVE Stages'
    <2>1. Stages
      BY TypeParts DEF Types, Stages
    <2>2. QED
      BY <1>2, <2>1 DEF vars, Stages, Counts, Frames, InTake
  <1>3. ASSUME Next PROVE Stages'
    BY <1>3, StartTypes, GuiTypes, CaptureTypes, EncodeTypes DEF Next
  <1>4. Stages'
    BY <1>2, <1>3
  <1>5. QED
    BY <1>1, <1>4, Zenon DEF Types, TypeOK, Stages, Flags, Counts, Frames

(* Every reachable state of the recorder has its types: the queues hold    *)
(* frames of takes there were, the file that is open or finished belongs   *)
(* to one of them (SaveVideoFileThread, PicInPic_Read).                    *)
THEOREM RecorderTypes == Spec => []TypeOK
  <1>1. Types => TypeOK
    BY DEF Types
  <1>2. QED
    BY <1>1, TypesInit, TypesNext, PTL DEF Spec

-----------------------------------------------------------------------------
(* A live take.  The object lives from the start to the return of wait();  *)
(* its isStop is set only together with the GUI thread's wait, in which no *)
(* frame is queued: so the queues that were found empty stay empty.        *)
Draining == {"second", "secondCheck", "trailer"}
OwnFrames ==
  /\ \A i \in DOMAIN events : events[i] = take
  /\ \A i \in DOMAIN videoQ : videoQ[i].take = take
  /\ last.take \in {0, take}
Stopping ==
  /\ enc \in Draining => isStop
  /\ object /\ isStop => gui = "wait" /\ asked
  /\ gui = "wait" => object /\ isStop /\ asked
  /\ ~object => enc = "off" /\ gui = "free"
  /\ enc = "trailer" => BothEmpty
Live == mode = "live" => OwnFrames /\ Stopping
LiveInv == Types /\ Live

LEMMA LiveInit == Init => LiveInv
  <1>1. Init => Live
    BY DEF Init, Live, OwnFrames, Stopping, Draining, NoFrame
  <1>2. QED
    BY <1>1, TypesInit DEF LiveInv

LEMMA LiveStart == LiveInv /\ Start => Live'
  <1> SUFFICES ASSUME LiveInv, Start, mode' = "live" PROVE OwnFrames' /\ Stopping'
    BY DEF Live
  <1>1. mode = "live" /\ enc = "off" /\ gui' = "free" /\ object' = TRUE
    BY DEF Start, LiveInv, Live, Stopping
  <1>2. enc' \in {"off", "first"} /\ New
    BY <1>1 DEF Start, SetInfo, Instance
  <1>3. OwnFrames'
    BY <1>2 DEF New, OwnFrames, NoFrame
  <1>4. Stopping'
    BY <1>1, <1>2 DEF New, Stopping, Draining
  <1>5. QED
    BY <1>3, <1>4

LEMMA LiveGui == LiveInv /\ (Stop \/ Gui) => Live'
  <1> SUFFICES ASSUME LiveInv, Stop \/ Gui, mode' = "live" PROVE OwnFrames' /\ Stopping'
    BY DEF Live
  <1>1. mode = "live" /\ OwnFrames /\ Stopping /\ Counts /\ Frames
    BY TypeParts DEF LiveInv, Live, Types, Stop, Gui, StopLive, SlotWriteVideoFrameData,
       SlotWriteAudioFrameData, dialog
  <1>2. CASE Stop
    BY <1>1, <1>2 DEF Stop, OwnFrames, Stopping, Draining, BothEmpty, encoder, queues
  <1>3. CASE StopLive
    BY <1>1, <1>3 DEF StopLive, OwnFrames, Stopping, Draining, BothEmpty, encoder, queues
  <1>4. CASE SlotWriteVideoFrameData
    <2>1. /\ events # << >> /\ events' = Tail(events) /\ gui = "free" /\ object
          /\ videoQ' = Append(videoQ, [take |-> Head(events), time |-> clock'])
          /\ UNCHANGED <<take, gui, object, asked, enc, last, isStop>>
      BY <1>4 DEF SlotWriteVideoFrameData, dialog, encoder
    <2>2. events[1] = take /\ Head(events) = take
      BY <1>1, <2>1 DEF OwnFrames, Frames
    <2>3. \A i \in DOMAIN events' : events'[i] = take'
      BY <1>1, <2>1 DEF OwnFrames, Frames
    <2>4. \A i \in DOMAIN videoQ' : videoQ'[i].take = take'
      BY <1>1, <2>1, <2>2 DEF OwnFrames, Frames
    <2>5. enc \notin Draining
      BY <1>1, <2>1 DEF Stopping
    <2>6. QED
      BY <1>1, <2>1, <2>3, <2>4, <2>5 DEF OwnFrames, Stopping, Draining
  <1>5. CASE SlotWriteAudioFrameData
    <2>1. gui = "free" /\ UNCHANGED <<take, gui, object, asked, enc, last, isStop, events, videoQ>>
      BY <1>5 DEF SlotWriteAudioFrameData, dialog, encoder, capture
    <2>2. enc \notin Draining
      BY <1>1, <2>1 DEF Stopping, Draining
    <2>3. QED
      BY <1>1, <2>1, <2>2 DEF OwnFrames, Stopping, Draining
  <1>6. QED
    BY <1>2, <1>3, <1>4, <1>5 DEF Gui

LEMMA LiveCapture == LiveInv /\ Capture => Live'
  <1> SUFFICES ASSUME LiveInv, Capture, mode' = "live" PROVE OwnFrames' /\ Stopping'
    BY DEF Live
  <1>1. Capturing /\ events' \in {Append(events, take), events}
    BY DEF Capture, CaptureCheck, CaptureRead, SlotGetDeskImg, CaptureEmit
  <1>2. /\ UNCHANGED <<take, gui, object, asked, enc, last, isStop, videoQ, audioQ>>
        /\ OwnFrames /\ Stopping /\ Frames
    BY <1>1, TypeParts DEF Capturing, dialog, encoder, queues, LiveInv, Live, Types
  <1>3. \A i \in DOMAIN events' : events'[i] = take'
    BY <1>1, <1>2 DEF OwnFrames, Frames
  <1>4. QED
    BY <1>2, <1>3 DEF OwnFrames, Stopping, BothEmpty

LEMMA LiveEncode == LiveInv /\ Encode => Live'
  <1> SUFFICES ASSUME LiveInv, Encode, mode' = "live" PROVE OwnFrames' /\ Stopping'
    BY DEF Live
  <1>1. Encoding
    BY DEF Encode, EncodeFirst, FirstCheck, EncodeSecond, SecondCheck, WriteTrailer
  <1>2. UNCHANGED <<take, gui, object, asked, isStop, events>> /\ OwnFrames /\ Stopping /\ Types
    BY <1>1 DEF Encoding, dialog, capture, LiveInv, Live
  <1>3. OwnFrames'
    BY <1>2, EncodeQueues DEF OwnFrames
  <1>4. /\ enc # "off"
        /\ enc' \in Draining => enc \in Draining \/ isStop
        /\ enc' = "trailer" => BothEmpty /\ Still
    BY DEF Encode, EncodeFirst, FirstCheck, EncodeSecond, SecondCheck, WriteTrailer, Draining, Written
  <1>5. enc' = "trailer" => BothEmpty'
    BY <1>4 DEF BothEmpty, Still
  <1>6. QED
    BY <1>2, <1>3, <1>4, <1>5 DEF Stopping

LEMMA LiveNext == LiveInv /\ [Next]_vars => LiveInv'
  <1> SUFFICES ASSUME LiveInv, [Next]_vars PROVE LiveInv'
    OBVIOUS
  <1>1. Types'
    BY TypesNext DEF LiveInv
  <1>2. ASSUME UNCHANGED vars PROVE Live'
    BY <1>2 DEF vars, LiveInv, Live, OwnFrames, Stopping, BothEmpty
  <1>3. ASSUME Next PROVE Live'
    BY <1>3, LiveStart, LiveGui, LiveCapture, LiveEncode DEF Next
  <1>4. QED
    BY <1>1, <1>2, <1>3 DEF LiveInv

LEMMA LiveAlways == Spec => []LiveInv
  BY LiveInit, LiveNext, PTL DEF Spec

(* A live take sends its own frames only, and its encoder leaves the first *)
(* loop only because this take was stopped (LiveDialog::startLivePush      *)
(* makes an object per take, stopLivePush waits for it).                   *)
THEOREM LiveTakesOwn == Spec => []OwnTake
  <1>1. LiveInv => OwnTake
    BY DEF LiveInv, Live, OwnFrames, Stopping, Draining, OwnTake
  <1>2. QED
    BY <1>1, LiveAlways, PTL

(* A live stream gets its trailer only with both queues empty: none of its *)
(* frames is left unwritten (the second loop of run).                      *)
THEOREM LiveLosesNothing == Spec => []NothingLost
  <1>1. LiveInv => NothingLost
    BY DEF LiveInv, Live, Stopping, NothingLost
  <1>2. QED
    BY <1>1, LiveAlways, PTL
=============================================================================
