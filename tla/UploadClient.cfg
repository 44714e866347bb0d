CONSTANTS
  v1 = v1
  v2 = v2
  Video = {v1, v2}
  NoVideo = NoVideo
  KeyFrames <- OneKeyFrame
  Frames <- OneOrTwoFrames
  MaxPics = 2
  Blocks = 2
  MaxJobs = 1
  MaxConn = 2
  MaxBrowse = 2
SPECIFICATION Spec
INVARIANT TypeOK
INVARIANT NoLostWakeUp
INVARIANT PictureOfVideo
CHECK_DEADLOCK FALSE
PROPERTY ToldTheTruth
 
