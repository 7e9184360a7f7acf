SPECIFICATION ChanSpec
SYMMETRY ChanSymmetry
CONSTANTS
  Item = {i1, i2}
  Receiver = {r1, r2, r3}
  Capacities = {1, 2}
  MaxChannels = 2
INVARIANTS
  ChannelSound
PROPERTY ItemsLeaveByRecv
CHECK_DEADLOCK FALSE
