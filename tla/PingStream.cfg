SPECIFICATION Spec
CONSTANTS
  SeqMod = 16
  InitSeqnos = {3, 13}
  SenderWindow = 2
  ReceiverWindow = 2
  InputLen = 3
  MaxPayload = 1
  HeaderLen = 1
  OrderCapacity = 4
  MaxOrdered = 1
  Mtu = 2
  RecvMtu = 2
  ReadBufSize = 6
  AckWaitCapacity = 2
  Tries = 2
  RecvTries = 2
INVARIANTS
  DeliveredInOrder
  AckedWasReceived
  ClosedMeansDelivered
  NewDataIsInWindow
  WaitlistHasRoom
