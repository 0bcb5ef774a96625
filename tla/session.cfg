SPECIFICATION Spec
CONSTANTS
  FrameKinds = {"binary", "text", "tooBig"}
  MaxFrames = 2
  MaxChunks = 1
INVARIANTS OneWriter TornDownAtRelease StreamsInOrder CleanEndLosesNothing
