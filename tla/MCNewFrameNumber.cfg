SPECIFICATION Spec
CONSTANTS
  timer = timer
  Writer = Writer
  recogn = recogn
  Readers <- MCReaders
  Displays <- MCDisplays
  Lens = {1, 3}
  FRAME_BUF_SIZE = 2
  IntMax = 5
  MaxFrames = 3
  None = None
INVARIANT ReturnNamesFrame
