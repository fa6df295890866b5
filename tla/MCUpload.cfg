SPECIFICATION Spec
CONSTANTS
  h1 = h1
  h2 = h2
  Handles <- MCHandles
  Files <- MCFiles
  Formats <- MCFormats
  Chunk = 4
  DetectBytes = 8
  MinDetectionBytes = 4
  CarHead = 6
  MinCarBytes = 3
  TarHead = 2
  Nobody = Nobody
CHECK_DEADLOCK FALSE
INVARIANTS
  UploadTypeOK
  DetectionKeepsPosition
  DetectsByContents
  HandlesKeepTheirPlace
PROPERTIES
  CallsReturn
