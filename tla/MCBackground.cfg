SPECIFICATION MCSpec
CONSTANTS
  ann=ann ben=ben cho=cho f1=f1 f2=f2 m1=m1 m2=m2 p1=p1 p2=p2 t1=t1 t2=t2 r1=r1 r2=r2 r3=r3
  Requests = {r1, r2, r3}
  Nothing = Nothing
  MaxLost = 1
  Files = {f1, f2}
  MaxPulses = 1
  Messages = {m1, m2}
  DeviceIds = {p1, p2}
  Tokens = {t1, t2}
  FirstDevice = p1
  FirstToken = t1
  People = {ann, ben, cho}
  Blocked = {{ben, cho}}
SYMMETRY Symmetry
CHECK_DEADLOCK FALSE
INVARIANTS  StaysReachable OneThread
 
