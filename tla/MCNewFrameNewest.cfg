SPECIFICATION FairSpec
CONSTANTS
  timer = timer
  Writer = Writer
  recogn = recogn
  Readers <- MCReaders
  Displays <- MCDisplays
  Lens = {1}
  FRAME_BUF_SIZE = 2
  IntMax = 5
  MaxFrames = 2
  None = None
PROPERTY NewestFrameShown
