SPECIFICATION Spec
CONSTANTS
  Byte = {0, 1, 15, 63, 64, 127, 128, 191, 255}
  SignedChar = TRUE
  MaxLen = 4
  Base = 2
  PACKET_MAGIC1 = 1
  PACKET_MAGIC2 = 2
  MaxBuf = 15
  ArgvSize = 3
  ArgbufSize = 4
  MaxWords = 4
  MaxBytes = 6
INVARIANTS EncodesBase64 TokenSurvives ParseInvertsBuild QuotingWorks
CHECK_DEADLOCK FALSE
