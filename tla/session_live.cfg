SPECIFICATION PromptSpec
CONSTANTS
  FrameKinds = {"binary"}
  MaxFrames = 1
  MaxChunks = 1
PROPERTY SessionEnds
