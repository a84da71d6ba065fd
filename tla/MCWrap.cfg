\* The timing wheel and the kfifo ring buffer.
SPECIFICATION Spec
CONSTANTS
  Timer = {t1}
  TVR_SIZE = 2
  TVN_SIZE = 4
  LongMod = 512
  Delays = {511, 0, 1, 2, 7, 8, 31, 32, 127, 128, 255}
  MaxLag = 1
  Byte = {0, 1}
  size = 4
  UintMod = 8
  MaxLen = 3
INVARIANTS WheelKeepsTime
PROPERTIES KfifoImplementsFifo
