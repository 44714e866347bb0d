SPECIFICATION Spec
CONSTANTS
  Kinds <- MCKinds
  Length = 2
  KeyFrames <- MCKeyFrames
  MaxVideo = 1
  MaxAudio = 1
  MaxPlays = 2
  MaxOrders = 2
CHECK_DEADLOCK FALSE
INVARIANT TypeOK
INVARIANT DecoderOutlivesVideo
 
 
