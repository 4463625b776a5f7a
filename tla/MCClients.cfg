SPECIFICATION MCSpec
CONSTANTS
  r1=r1 r2=r2 t1=t1 t2=t2 s1=s1 s2=s2 e1=e1 e2=e2 b1=b1 b2=b2 x1=x1 x2=x2 c1=c1 c2=c2 o1=o1 o2=o2
  hosted=hosted encrypted=encrypted m1=m1 m2=m2 n1=n1
  Runs = {r1, r2}
  Tabs = {t1, t2}
  Nobody = Nobody
  SessionIds = {s1, s2}
  Envelopes = {e1, e2}
  Sends = {x1}
  Bundles = {b1, b2}
  MaxFailures = 1
  MaxReloads = 1
  Conversations = {c1, c2}
  EnvelopeIds = {o1, o2}
  MaxEpoch = 3
  Chats = {hosted, encrypted}
  Messages = {m1, m2, n1}
  Hosted = {hosted}
  ChatOf <- MCChatOf
  Mine = {m1, n1}
SYMMETRY Symmetry
CHECK_DEADLOCK FALSE
INVARIANTS BundlesAgree AckedIsStored BrowserSignedIn PhoneSignedIn StaleIsBehind ThreadsAgree ThreadsApart
