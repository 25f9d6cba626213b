SPECIFICATION Spec
CONSTANTS
  MaxOrders = 3
  PaymentLags = {12, 60}
  ShippingLags = {60, 400}
  Interval = 2
  Duration = 9
  MaxSlow = 1
  MaxFaults = 1
INVARIANTS
  NoEventIsLost
  LifecycleInOrder
  LoopKeepsTime
CHECK_DEADLOCK FALSE
