SPECIFICATION MCSpec
CONSTANTS
  kim=kim phone=phone ann=ann tablet=tablet old=old new=new other=other third=third l1=l1 l2=l2 l3=l3 shown=shown scanned=scanned mine=mine yours=yours
  yubi=yubi cloud=cloud t1=t1 t2=t2 r1=r1 r2=r2 r3=r3
  Founders = {kim, ann}
  Requests = {r1, r2, r3}
  FirstSessions = {phone, tablet}
  HolderOf <- Holders
  Nothing = Nothing
  MaxLost = 1
  Links = {l1, l2, l3}
  Emails = {old, new, other, third}
  ReviewEmail = new
  FirstOwner <- Owners
  InviteUses = 1
  CircleUses = 1
  MaxPending = 2
  MaxCompletes = 2
  RelayCodes = {shown}
  DeviceCodes = {scanned}
  Labels = {mine, yours}
  MaxFinishes = 2
  Credentials = {yubi, cloud}
  FirstKeys <- Keys
  Counting = {yubi}
  Challenges = {t1, t2}
  MaxVerifies = 2
SYMMETRY Symmetry
CHECK_DEADLOCK FALSE
INVARIANTS  InviteAdmits NewcomersVouched SignedInAsOwner LinkedAsApproved
PROPERTY EndedIsOut
