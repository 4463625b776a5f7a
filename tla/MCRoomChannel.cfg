SPECIFICATION MCSpec
CONSTANTS
  owner=owner ann=ann m1=m1 m2=m2 r1=r1 r2=r2 s1=s1 c1=c1 c2=c2
  People = {owner, ann}
  Owner = owner
  Rooms = {m1, m2}
  Requests = {r1, r2}
  Nothing = Nothing
  MaxLost = 1
  Sockets = {s1}
  Casts = {c1, c2}
SYMMETRY Symmetry
CHECK_DEADLOCK FALSE
INVARIANTS RoomsAgree RemovedHearNothing ReactionsAgree
