SPECIFICATION CodecSpec
CONSTANTS
  Messages <- CodecMessages
  Consts <- CodecConsts
  Values <- CodecValues
  Leftovers <- CodecLeftovers
  Noise <- CodecNoise
  Arrivals <- CodecArrivals
INVARIANTS
  RoundTrip
  CutShort
  NoOverrun
  ValidDecoded
CHECK_DEADLOCK FALSE
