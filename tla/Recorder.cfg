SPECIFICATION Spec
CONSTANTS
  Modes <- MCModes
  MaxTakes = 2
  MaxFrames = 2
  MaxAudio = 2
CHECK_DEADLOCK FALSE
INVARIANT TypeOK
INVARIANT OwnTake
 
 
