CONSTANTS
  PushCall = {p1, p2, p3, p4}
  PullCall = {c1, c2, c3}
  Capacity = 2
  NoItem = NoItem
SPECIFICATION ChannelFairSpec
INVARIANTS
  ItemsAreConserved
  OvershootIsWoken
PROPERTIES
  WokenAreAdmitted
CHECK_DEADLOCK FALSE
