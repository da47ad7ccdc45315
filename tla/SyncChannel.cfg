SPECIFICATION FairSpec
CONSTANTS
  Senders = {s1, s2}
  Receivers = {r1, r2}
  MaxSend = 3
  MaxRecv = 3
  MaxSpurious = 1
INVARIANTS TypeOK Rendezvous HandedOnce
PROPERTIES CloseEndsScheduler
