-------------------------- MODULE BackgroundProofs --------------------------
(***************************************************************************)
(* Proofs about the threads of DirectMessages, the token of PushTokens, and  *)
(* the files and the messages of LegacyHistory.                             *)
(***************************************************************************)
EXTENDS DirectMessages, PushTokens, LegacyHistory, TLAPS

-----------------------------------------------------------------------------
(* The threads of DirectMessages.                                           *)

Opening == [op : {"open"}, pc : {"find", "insert", "seats"}, on : People, with : People, todo : {{}}]

ThreadsTypeOK ==
  /\ run \in [Requests -> {NotStarted} \cup Opening]
  /\ lost \subseteq Requests
  /\ DOMAIN thread \subseteq Requests
  /\ thread \in [DOMAIN thread -> [by : People, seats : SUBSET People]]

\* Runs at work know each other; one that has not made its thread has none; and one that
\* found no thread, or is about to seat its own, was at work together with the run of
\* every thread that has its two accounts by now.
ThreadsInv ==
  /\ ThreadsTypeOK
  /\ \A q, r \in Working : {q, r} \in together
  /\ \A r \in Requests : run[r].pc \in {"find", "insert"} => r \notin DOMAIN thread
  /\ \A r \in Working, t \in DOMAIN thread :
       run[r].pc \in {"insert", "seats"} /\ t # r /\ thread[t].seats = Between(r) => {t, r} \in together
  /\ OneThread

threadsAll == <<workVars, threadVars>>

LEMMA ThreadsStart == WorkInit /\ ThreadsInit => ThreadsInv
  BY DEF WorkInit, ThreadsInit, ThreadsInv, ThreadsTypeOK, OneThread, Working, NotStarted

\* What a step of one run does to the pairs that were at work together.
LEMMA PairsStay ==
  ASSUME ThreadsInv, ThreadsNext
  PROVE  /\ \A q, r \in Working' : {q, r} \in together'
         /\ \A q, r \in Working' \cup DOMAIN thread' : {q, r} \in together => {q, r} \in together'
  BY DEF ThreadsNext

LEMMA ThreadsStep == ThreadsInv /\ [ThreadsNext]_threadsAll => ThreadsInv'
<1> SUFFICES ASSUME ThreadsInv, [ThreadsNext]_threadsAll PROVE ThreadsInv'
  OBVIOUS
<1>1. CASE UNCHANGED threadsAll
  BY <1>1 DEF threadsAll, workVars, threadVars, ThreadsInv, ThreadsTypeOK, OneThread, Working, Between
<1>2. CASE ThreadsNext
  <2>1. /\ \A q, r \in Working' : {q, r} \in together'
        /\ \A q, r \in Working' \cup DOMAIN thread' : {q, r} \in together => {q, r} \in together'
    BY <1>2, PairsStay
  <2>2. ASSUME NEW r \in Requests, NEW a \in People, NEW b \in People, BeginOpen(r, a, b)
        PROVE  ThreadsInv'
    <3>1. /\ run' = [run EXCEPT ![r] = [op |-> "open", pc |-> "find", on |-> a, with |-> b, todo |-> {}]]
          /\ lost' = lost /\ thread' = thread /\ r \notin DOMAIN thread
      BY <2>2 DEF BeginOpen, Begin
    <3>2. ThreadsTypeOK'
      BY <3>1 DEF ThreadsInv, ThreadsTypeOK, Opening
    <3>3. \A q \in Requests : q # r => run'[q] = run[q]
      BY <3>1 DEF ThreadsInv, ThreadsTypeOK
    <3>4. run'[r].pc = "find"
      BY <3>1 DEF ThreadsInv, ThreadsTypeOK
    <3> QED
      BY <2>1, <3>1, <3>2, <3>3, <3>4 DEF ThreadsInv, OneThread, Working, Between, ThreadsTypeOK
  <2>3. ASSUME NEW r \in Requests, FindThread(r) PROVE ThreadsInv'
    <3>1. CASE Threads(r) = {}
      <4>1. /\ run' = [run EXCEPT ![r] = [run[r] EXCEPT !.pc = "insert"]]
            /\ lost' = lost /\ thread' = thread /\ run[r].pc = "find" /\ r \in Requests \ lost
        BY <2>3, <3>1 DEF FindThread, Advance, Go, At
      <4>2. ThreadsTypeOK' /\ run'[r] = [run[r] EXCEPT !.pc = "insert"]
        BY <4>1 DEF ThreadsInv, ThreadsTypeOK, Opening, NotStarted
      <4>3. \A q \in Requests : q # r => run'[q] = run[q]
        BY <4>1 DEF ThreadsInv, ThreadsTypeOK
      <4>4. run'[r].pc = "insert" /\ run'[r].on = run[r].on /\ run'[r].with = run[r].with
        BY <4>1, <4>2 DEF ThreadsInv, ThreadsTypeOK, Opening, NotStarted
      <4>5. \A t \in DOMAIN thread : thread[t].seats # Between(r)
        BY <3>1 DEF Threads
      <4>6. OneThread' /\ Working' = Working
        BY <2>1, <4>1, <4>3, <4>4 DEF ThreadsInv, OneThread, Working
      <4>7. \A q \in Requests : Between(q)' = Between(q)
        BY <4>3, <4>4 DEF Between
      <4>8. \A q \in Requests : run'[q].pc \in {"find", "insert"} => q \notin DOMAIN thread'
        BY <4>1, <4>3 DEF ThreadsInv
      <4>9. ASSUME NEW q \in Working', NEW t \in DOMAIN thread',
                   run'[q].pc \in {"insert", "seats"}, t # q, thread'[t].seats = Between(q)'
            PROVE  {t, q} \in together'
        <5>1. q # r /\ q \in Working
          BY <4>1, <4>5, <4>6, <4>7, <4>9 DEF Working
        <5>2. run'[q] = run[q] /\ t \in DOMAIN thread /\ thread[t].seats = Between(q)
          BY <4>1, <4>3, <4>7, <4>9, <5>1 DEF Working
        <5>3. {t, q} \in together
          BY <4>9, <5>1, <5>2 DEF ThreadsInv
        <5> QED
          BY <2>1, <4>9, <5>2, <5>3
      <4> QED
        BY <2>1, <4>2, <4>6, <4>8, <4>9 DEF ThreadsInv
    <3>2. CASE Threads(r) # {}
      <4>1. run' = [run EXCEPT ![r] = NotStarted] /\ lost' = lost /\ thread' = thread
        BY <2>3, <3>2 DEF FindThread, Finish, Go
      <4>2. ThreadsTypeOK' /\ run'[r] = NotStarted
        BY <4>1 DEF ThreadsInv, ThreadsTypeOK
      <4>3. \A q \in Requests : q # r => run'[q] = run[q]
        BY <4>1 DEF ThreadsInv, ThreadsTypeOK
      <4> QED
        BY <2>1, <4>1, <4>2, <4>3 DEF ThreadsInv, OneThread, Working, Between, NotStarted
    <3> QED
      BY <3>1, <3>2
  <2>4. ASSUME NEW r \in Requests, InsertThread(r) PROVE ThreadsInv'
    <3>1. /\ run' = [run EXCEPT ![r] = [run[r] EXCEPT !.pc = "seats"]]
          /\ lost' = lost /\ run[r].pc = "insert" /\ run[r].op = "open" /\ r \notin lost
      BY <2>4 DEF InsertThread, Advance, Go, At
    <3>2. run[r] \in Opening /\ r \notin DOMAIN thread /\ r \in Working
      BY <3>1 DEF ThreadsInv, ThreadsTypeOK, NotStarted, Working
    <3>3. /\ DOMAIN thread' = DOMAIN thread \cup {r}
          /\ \A t \in DOMAIN thread : thread'[t] = thread[t]
          /\ thread'[r] = [by |-> run[r].on, seats |-> {}]
          /\ thread' \in [DOMAIN thread' -> [by : People, seats : SUBSET People]]
      BY <2>4, <3>2 DEF InsertThread, Seat, Opening, ThreadsInv, ThreadsTypeOK
    <3>4. ThreadsTypeOK' /\ run'[r] = [run[r] EXCEPT !.pc = "seats"]
      BY <3>1, <3>2, <3>3 DEF ThreadsInv, ThreadsTypeOK, Opening
    <3>5. \A q \in Requests : q # r => run'[q] = run[q]
      BY <3>1 DEF ThreadsInv, ThreadsTypeOK
    <3>6. run'[r].pc = "seats" /\ run'[r].on = run[r].on /\ run'[r].with = run[r].with
      BY <3>2, <3>4 DEF Opening
    <3>7. \A q \in Requests : run'[q].on = run[q].on /\ run'[q].with = run[q].with
      BY <3>5, <3>6
    <3>8. Working' = Working
      BY <3>1, <3>5, <3>6, <3>2 DEF Working
    <3>9. OneThread'
      <4> SUFFICES ASSUME NEW q \in DOMAIN thread', NEW t \in DOMAIN thread', q # t,
                          thread'[q].seats = thread'[t].seats, thread'[q].seats # {}
                   PROVE  {q, t} \in together'
        BY DEF OneThread
      <4>1. q # r /\ t # r
        BY <3>3
      <4>2. /\ q \in DOMAIN thread /\ t \in DOMAIN thread
            /\ thread'[q] = thread[q] /\ thread'[t] = thread[t]
        BY <3>3, <4>1
      <4>3. {q, t} \in together
        BY <4>2 DEF ThreadsInv, OneThread
      <4> QED
        BY <2>1, <4>3
    <3>10. \A q \in Requests : run'[q].pc \in {"find", "insert"} => q \notin DOMAIN thread'
      BY <3>3, <3>5, <3>6 DEF ThreadsInv
    <3>11. \A q \in Working', t \in DOMAIN thread' :
             run'[q].pc \in {"insert", "seats"} /\ t # q /\ thread'[t].seats = Between(q)' => {t, q} \in together'
      <4> SUFFICES ASSUME NEW q \in Working', NEW t \in DOMAIN thread',
                          run'[q].pc \in {"insert", "seats"}, t # q, thread'[t].seats = Between(q)'
                   PROVE  {t, q} \in together'
        OBVIOUS
      <4>1. q \in Working /\ Between(q)' = Between(q) /\ run[q].pc \in {"insert", "seats"}
        BY <3>1, <3>5, <3>7, <3>8 DEF Between, Working
      <4>2. t # r
        BY <3>3 DEF Between
      <4>3. t \in DOMAIN thread /\ thread[t].seats = Between(q)
        BY <3>3, <4>1, <4>2
      <4>4. {t, q} \in together
        BY <4>1, <4>3 DEF ThreadsInv
      <4> QED
        BY <2>1, <4>3, <4>4
    <3> QED
      BY <2>1, <3>4, <3>9, <3>10, <3>11 DEF ThreadsInv
  <2>5. ASSUME NEW r \in Requests, InsertSeats(r) PROVE ThreadsInv'
    <3>1. /\ run' = [run EXCEPT ![r] = NotStarted]
          /\ lost' = lost /\ run[r].pc = "seats" /\ run[r].op = "open" /\ r \notin lost
      BY <2>5 DEF InsertSeats, Finish, Go, At
    <3>2. run[r] \in Opening /\ r \in Working
      BY <3>1 DEF ThreadsInv, ThreadsTypeOK, NotStarted, Working
    <3>3. /\ DOMAIN thread' = DOMAIN thread \cup {r}
          /\ \A t \in DOMAIN thread : t # r => thread'[t] = thread[t]
          /\ thread'[r] = [by |-> run[r].on, seats |-> Between(r)]
          /\ thread' \in [DOMAIN thread' -> [by : People, seats : SUBSET People]]
      BY <2>5, <3>2 DEF InsertSeats, Seat, Opening, Between, ThreadsInv, ThreadsTypeOK
    <3>4. ThreadsTypeOK' /\ run'[r] = NotStarted
      BY <3>1, <3>2, <3>3 DEF ThreadsInv, ThreadsTypeOK
    <3>5. \A q \in Requests : q # r => run'[q] = run[q]
      BY <3>1 DEF ThreadsInv, ThreadsTypeOK
    <3>6. \A t \in DOMAIN thread : t # r /\ thread[t].seats = Between(r) => {t, r} \in together
      BY <3>1, <3>2 DEF ThreadsInv
    <3>7. \A q \in Working' : {q, r} \in together'
      BY <2>1, <3>1, <3>2, <3>3, <3>5, <3>4 DEF ThreadsInv, Working, NotStarted
    <3>8. OneThread'
      <4> SUFFICES ASSUME NEW q \in DOMAIN thread', NEW t \in DOMAIN thread', q # t,
                          thread'[q].seats = thread'[t].seats, thread'[q].seats # {}
                   PROVE  {q, t} \in together'
        BY DEF OneThread
      <4>1. CASE q = r
        BY <2>1, <3>3, <3>6, <4>1
      <4>2. CASE t = r
        <5>1. {q, t} \in together
          BY <3>3, <3>6, <4>2
        <5> QED
          BY <2>1, <5>1
      <4>3. CASE q # r /\ t # r
        <5>1. /\ q \in DOMAIN thread /\ t \in DOMAIN thread
              /\ thread'[q] = thread[q] /\ thread'[t] = thread[t]
          BY <3>3, <4>3
        <5>2. {q, t} \in together
          BY <5>1 DEF ThreadsInv, OneThread
        <5> QED
          BY <2>1, <5>2
      <4> QED
        BY <4>1, <4>2, <4>3
    <3>9. \A q \in Requests : run'[q].pc \in {"find", "insert"} => q \notin DOMAIN thread'
      BY <3>3, <3>4, <3>5 DEF ThreadsInv, NotStarted
    <3>10. \A q \in Working', t \in DOMAIN thread' :
             run'[q].pc \in {"insert", "seats"} /\ t # q /\ thread'[t].seats = Between(q)' => {t, q} \in together'
      <4> SUFFICES ASSUME NEW q \in Working', NEW t \in DOMAIN thread',
                          run'[q].pc \in {"insert", "seats"}, t # q, thread'[t].seats = Between(q)'
                   PROVE  {t, q} \in together'
        OBVIOUS
      <4>1. q # r /\ q \in Working /\ run'[q] = run[q]
        BY <3>1, <3>4, <3>5 DEF Working, NotStarted
      <4>2. CASE t = r
        BY <3>7, <4>2
      <4>3. CASE t # r
        <5>1. t \in DOMAIN thread /\ thread[t].seats = Between(q)
          BY <3>3, <4>1, <4>3 DEF Between
        <5> QED
          BY <2>1, <4>1, <5>1 DEF ThreadsInv
      <4> QED
        BY <4>2, <4>3
    <3> QED
      BY <2>1, <3>4, <3>8, <3>9, <3>10 DEF ThreadsInv
  <2>6. ASSUME NEW r \in Requests, LoseRun(r), thread' = thread PROVE ThreadsInv'
    <3>1. run' = run /\ lost' = lost \cup {r}
      BY <2>6 DEF LoseRun
    <3> QED
      BY <2>1, <2>6, <3>1 DEF ThreadsInv, ThreadsTypeOK, OneThread, Working, Between
  <2> QED
    BY <1>2, <2>2, <2>3, <2>4, <2>5, <2>6 DEF ThreadsNext
<1> QED
  BY <1>1, <1>2

\* However requests overlap or are cut short, two accounts get a second thread only
\* from requests that were under way together.
THEOREM ThreadsUnique == ThreadsSpec => []OneThread
<1>1. ThreadsInv => OneThread
  BY DEF ThreadsInv
<1> QED
  BY ThreadsStart, ThreadsStep, <1>1, PTL DEF ThreadsSpec, threadsAll

-----------------------------------------------------------------------------
(* The push token of PushTokens.                                            *)

PushRuns ==
  {NotStarted} \cup [op : {"register", "clear", "wake"}, pc : {"delete", "insert", "send", "invalidate"},
                    on : DeviceIds, with : Tokens \cup {Nothing}, todo : {{}}]

PushTypeOK ==
  /\ run \in [Requests -> PushRuns] /\ lost \subseteq Requests
  /\ phone \in [device : DeviceIds, token : Tokens, awaits : Requests \cup {Nothing}]
  /\ given \subseteq Tokens /\ DOMAIN pushRow \subseteq DeviceIds
  /\ pushRow \in [DOMAIN pushRow -> [token : Tokens, live : BOOLEAN]]

\* Rows, registrations and deliveries hold tokens the phone has had.
KnownTokens ==
  /\ phone.token \in given
  /\ \A r \in Requests : run[r].op \in {"register", "wake"} => run[r].with \in given
  /\ \A d \in DOMAIN pushRow : pushRow[d].token \in given

\* A token that FCM turned down is never the phone's token again.
OnlyOldRefused ==
  \A r \in Requests : run[r].op = "wake" /\ run[r].pc = "invalidate" => run[r].with # phone.token

\* While the phone is settled nothing that would change its row is under way.
Calm ==
  settled = "yes" =>
    \A r \in Working : /\ run[r].op \notin {"register", "clear"}
                       /\ run[r].op = "wake" /\ run[r].on = phone.device => run[r].with = phone.token

PushInv == PushTypeOK /\ KnownTokens /\ OnlyOldRefused /\ Calm /\ StaysReachable

pushAll == <<workVars, pushVars>>

LEMMA PushStart == WorkInit /\ PushInit => PushInv
  BY TokensAssumption DEF WorkInit, PushInit, PushInv, PushTypeOK, PushRuns, KnownTokens, OnlyOldRefused, Calm, StaysReachable,
     Working, NotStarted

\* A run that begins, and the ones beside it.
LEMMA PushBegin ==
  ASSUME PushTypeOK, NEW r \in Requests, NEW op \in {"register", "clear", "wake"}, NEW pc \in {"delete", "send"},
         NEW d \in DeviceIds, NEW t \in Tokens \cup {Nothing}, Begin(r, op, pc, d, t)
  PROVE  /\ run' \in [Requests -> PushRuns] /\ lost' = lost
         /\ run'[r] = [op |-> op, pc |-> pc, on |-> d, with |-> t, todo |-> {}]
         /\ \A q \in Requests : q # r => run'[q] = run[q]
  BY DEF PushTypeOK, PushRuns, Begin

\* A run that goes on to another statement, and one that ends.
LEMMA PushAdvance ==
  ASSUME PushTypeOK, NEW r \in Requests, NEW op, NEW from, NEW to \in {"insert", "invalidate"}, from # "idle",
         Advance(r, op, from, to)
  PROVE  /\ run' \in [Requests -> PushRuns] /\ lost' = lost /\ r \in Working /\ run[r].op = op /\ run[r].pc = from
         /\ run'[r].op = op /\ run'[r].pc = to /\ run'[r].on = run[r].on /\ run'[r].with = run[r].with
         /\ \A q \in Requests : q # r => run'[q] = run[q]
         /\ Working' = Working
<1>1. run[r] \in PushRuns /\ run[r].op = op /\ run[r].pc = from /\ r \notin lost
  BY DEF PushTypeOK, Advance, Go, At
<1>2. run' = [run EXCEPT ![r] = [run[r] EXCEPT !.pc = to]] /\ lost' = lost
  BY DEF Advance, Go
<1>3. /\ [run[r] EXCEPT !.pc = to] \in PushRuns
      /\ [run[r] EXCEPT !.pc = to].pc = to /\ [run[r] EXCEPT !.pc = to].op = op
      /\ [run[r] EXCEPT !.pc = to].on = run[r].on /\ [run[r] EXCEPT !.pc = to].with = run[r].with
  BY <1>1 DEF PushRuns, NotStarted
<1>4. run'[r] = [run[r] EXCEPT !.pc = to] /\ \A q \in Requests : q # r => run'[q] = run[q]
  BY <1>2 DEF PushTypeOK
<1>5. run' \in [Requests -> PushRuns]
  BY <1>2, <1>3 DEF PushTypeOK
<1> QED
  BY <1>1, <1>2, <1>3, <1>4, <1>5 DEF Working

LEMMA PushFinish ==
  ASSUME PushTypeOK, NEW r \in Requests, NEW op, NEW from, from # "idle", Finish(r, op, from)
  PROVE  /\ run' \in [Requests -> PushRuns] /\ lost' = lost /\ r \in Working /\ run[r].op = op /\ run[r].pc = from
         /\ run'[r] = NotStarted
         /\ \A q \in Requests : q # r => run'[q] = run[q]
         /\ Working' = Working \ {r}
<1>1. run'[r] = NotStarted /\ lost' = lost /\ \A q \in Requests : q # r => run'[q] = run[q]
  BY DEF PushTypeOK, Finish, Go
<1>2. run' \in [Requests -> PushRuns] /\ r \in Working /\ run[r].op = op /\ run[r].pc = from
  BY DEF PushTypeOK, PushRuns, NotStarted, Finish, Go, At, Working
<1> QED
  BY <1>1, <1>2 DEF Working, NotStarted

LEMMA PushStep == PushInv /\ [PushNext]_pushAll => PushInv'
<1> SUFFICES ASSUME PushInv, [PushNext]_pushAll PROVE PushInv'
  OBVIOUS
<1> USE DEF PushInv
<1>1. CASE UNCHANGED pushAll
  BY <1>1 DEF pushAll, workVars, pushVars, PushTypeOK, KnownTokens, OnlyOldRefused, Calm, StaysReachable, Working
<1>2. ASSUME NEW r \in Requests, NEW d \in DeviceIds, StartApp(r, d) PROVE PushInv'
  <2>1. /\ run' \in [Requests -> PushRuns] /\ lost' = lost
        /\ run'[r] = [op |-> "register", pc |-> "delete", on |-> d, with |-> phone.token, todo |-> {}]
        /\ \A q \in Requests : q # r => run'[q] = run[q]
    <3>1. phone.token \in Tokens \cup {Nothing} /\ Begin(r, "register", "delete", d, phone.token)
      BY <1>2 DEF PushTypeOK, StartApp
    <3> QED
      BY <3>1, PushBegin
  <2>2. /\ phone' \in [device : DeviceIds, token : Tokens, awaits : Requests \cup {Nothing}]
        /\ phone'.token = phone.token
    BY <1>2 DEF PushTypeOK, StartApp
  <2> QED
    BY <1>2, <2>1, <2>2 DEF StartApp, PushTypeOK, KnownTokens, OnlyOldRefused, Calm, StaysReachable
<1>3. ASSUME NEW r \in Requests, StartSilent(r) PROVE PushInv'
  <2>1. /\ run' \in [Requests -> PushRuns] /\ lost' = lost
        /\ run'[r] = [op |-> "clear", pc |-> "delete", on |-> phone.device, with |-> Nothing, todo |-> {}]
        /\ \A q \in Requests : q # r => run'[q] = run[q]
    <3>1. phone.device \in DeviceIds /\ Begin(r, "clear", "delete", phone.device, Nothing)
      BY <1>3 DEF PushTypeOK, StartSilent
    <3> QED
      BY <3>1, PushBegin
  <2>2. /\ phone' \in [device : DeviceIds, token : Tokens, awaits : Requests \cup {Nothing}]
        /\ phone'.token = phone.token
    BY <1>3 DEF PushTypeOK, StartSilent
  <2> QED
    BY <1>3, <2>1, <2>2 DEF StartSilent, PushTypeOK, KnownTokens, OnlyOldRefused, Calm, StaysReachable
<1>4. ASSUME NEW r \in Requests, NEW t \in Tokens, NewToken(r, t) PROVE PushInv'
  <2>1. /\ t \notin given /\ given' = given \cup {t} /\ pushRow' = pushRow /\ settled' = "no"
        /\ phone' = [phone EXCEPT !.token = t]
    BY <1>4 DEF NewToken
  <2>2. /\ phone' \in [device : DeviceIds, token : Tokens, awaits : Requests \cup {Nothing}]
        /\ phone'.token = t
    BY <2>1 DEF PushTypeOK
  <2>3. /\ run' \in [Requests -> PushRuns] /\ lost' = lost
        /\ \A q \in Requests : run'[q] = run[q] \/ run'[q] = [op |-> "register", pc |-> "delete", on |-> phone.device,
                                                              with |-> t, todo |-> {}]
    <3>1. CASE phone.awaits = Nothing
      <4>1. phone.device \in DeviceIds /\ Begin(r, "register", "delete", phone.device, t)
        BY <1>4, <3>1 DEF PushTypeOK, NewToken
      <4> QED
        BY <4>1, PushBegin
    <3>2. CASE phone.awaits # Nothing
      BY <1>4, <3>2 DEF PushTypeOK, NewToken, workVars
    <3> QED
      BY <3>1, <3>2
  <2> QED
    BY <2>1, <2>2, <2>3 DEF PushTypeOK, KnownTokens, OnlyOldRefused, Calm, StaysReachable
<1>5. CASE Listen
  <2>1. /\ phone' \in [device : DeviceIds, token : Tokens, awaits : Requests \cup {Nothing}]
        /\ phone'.token = phone.token /\ phone'.device = phone.device
    BY <1>5 DEF PushTypeOK, Listen
  <2> QED
    BY <1>5, <2>1 DEF Listen, PushTypeOK, KnownTokens, OnlyOldRefused, Calm, StaysReachable, Working, workVars
<1>6. ASSUME NEW r \in Requests, DeleteRows(r) PROVE PushInv'
  <2>1. Advance(r, "register", "delete", "insert") /\ phone' = phone /\ given' = given /\ settled' = settled
    BY <1>6 DEF DeleteRows
  <2>2. /\ run' \in [Requests -> PushRuns] /\ lost' = lost /\ r \in Working /\ run[r].op = "register"
        /\ run'[r].op = "register" /\ run'[r].with = run[r].with
        /\ \A q \in Requests : q # r => run'[q] = run[q]
    BY <2>1, PushAdvance
  <2>3. /\ DOMAIN pushRow' \subseteq DOMAIN pushRow
        /\ \A d \in DOMAIN pushRow' : pushRow'[d] = pushRow[d]
        /\ pushRow' \in [DOMAIN pushRow' -> [token : Tokens, live : BOOLEAN]]
    BY <1>6 DEF DeleteRows, Without, PushTypeOK
  <2>4. settled # "yes"
    BY <2>2 DEF Calm
  <2> QED
    BY <2>1, <2>2, <2>3, <2>4 DEF PushTypeOK, KnownTokens, OnlyOldRefused, Calm, StaysReachable
<1>7. ASSUME NEW r \in Requests, InsertRow(r) PROVE PushInv'
  <2>1. Finish(r, "register", "insert") /\ phone' = phone /\ given' = given
    BY <1>7 DEF InsertRow
  <2>2. /\ run' \in [Requests -> PushRuns] /\ lost' = lost /\ r \in Working /\ run[r].op = "register"
        /\ run'[r] = NotStarted
        /\ \A q \in Requests : q # r => run'[q] = run[q]
        /\ Working' = Working \ {r}
    BY <2>1, PushFinish
  <2>3. /\ run[r].on \in DeviceIds /\ run[r].with \in Tokens /\ run[r].with \in given
    BY <2>2 DEF PushTypeOK, PushRuns, NotStarted, KnownTokens
  <2>4. /\ DOMAIN pushRow' = DOMAIN pushRow \cup {run[r].on}
        /\ pushRow'[run[r].on] = [token |-> run[r].with, live |-> TRUE]
        /\ \A d \in DOMAIN pushRow' : d # run[r].on => pushRow'[d] = pushRow[d]
        /\ pushRow' \in [DOMAIN pushRow' -> [token : Tokens, live : BOOLEAN]]
    BY <1>7, <2>3 DEF InsertRow, PushTypeOK
  <2>5. settled # "yes"
    BY <2>2 DEF Calm
  <2>6. settled' = "yes" => /\ run[r].on = phone.device /\ run[r].with = phone.token
                            /\ Registrations = {r} /\ HeldTokens \subseteq {phone.token}
    BY <1>7, <2>5 DEF InsertRow
  <2>7. Calm' /\ StaysReachable'
    <3> SUFFICES ASSUME settled' = "yes" PROVE Calm' /\ StaysReachable'
      BY DEF Calm, StaysReachable
    <3>1. \A q \in Working' : run'[q] = run[q] /\ q \in Working /\ q # r
      BY <2>2 DEF Working
    <3>2. \A q \in Working' : run[q].op \notin {"register", "clear"}
      BY <2>6, <3>1 DEF Registrations, Running
    <3>3. \A q \in Working' : run[q].op = "wake" /\ run[q].on = phone.device => run[q].with = phone.token
      BY <2>6, <3>1 DEF HeldTokens, Running
    <3> QED
      BY <2>1, <2>4, <2>6, <3>1, <3>2, <3>3 DEF Calm, StaysReachable
  <2>8. PushTypeOK'
    BY <2>1, <2>2, <2>3, <2>4 DEF PushTypeOK
  <2>9. KnownTokens' /\ OnlyOldRefused'
    BY <2>1, <2>2, <2>3, <2>4 DEF KnownTokens, OnlyOldRefused, NotStarted
  <2> QED
    BY <2>7, <2>8, <2>9
<1>8. ASSUME NEW r \in Requests, RefuseRow(r) PROVE PushInv'
  <2>1. Finish(r, "register", "insert") /\ UNCHANGED pushVars
    BY <1>8 DEF RefuseRow
  <2>2. /\ run' \in [Requests -> PushRuns] /\ lost' = lost /\ r \in Working /\ run[r].op = "register"
        /\ run'[r] = NotStarted
        /\ \A q \in Requests : q # r => run'[q] = run[q]
    BY <2>1, PushFinish
  <2>3. settled # "yes"
    BY <2>2 DEF Calm
  <2> QED
    BY <2>1, <2>2, <2>3 DEF pushVars, PushTypeOK, KnownTokens, OnlyOldRefused, Calm, StaysReachable, NotStarted
<1>9. ASSUME NEW r \in Requests, ClearToken(r) PROVE PushInv'
  <2>1. Finish(r, "clear", "delete") /\ phone' = phone /\ given' = given /\ settled' = settled
    BY <1>9 DEF ClearToken
  <2>2. /\ run' \in [Requests -> PushRuns] /\ lost' = lost /\ r \in Working /\ run[r].op = "clear"
        /\ run'[r] = NotStarted
        /\ \A q \in Requests : q # r => run'[q] = run[q]
    BY <2>1, PushFinish
  <2>3. /\ DOMAIN pushRow' \subseteq DOMAIN pushRow
        /\ \A d \in DOMAIN pushRow' : pushRow'[d] = pushRow[d]
        /\ pushRow' \in [DOMAIN pushRow' -> [token : Tokens, live : BOOLEAN]]
    BY <1>9 DEF ClearToken, Without, PushTypeOK
  <2>4. settled # "yes"
    BY <2>2 DEF Calm
  <2> QED
    BY <2>1, <2>2, <2>3, <2>4 DEF PushTypeOK, KnownTokens, OnlyOldRefused, Calm, StaysReachable, NotStarted
<1>10. CASE RevokeTokens
  <2>1. /\ DOMAIN pushRow' = DOMAIN pushRow
        /\ \A d \in DOMAIN pushRow' : pushRow'[d] = [pushRow[d] EXCEPT !.live = FALSE]
    BY <1>10 DEF RevokeTokens
  <2>2. \A d \in DOMAIN pushRow : [pushRow[d] EXCEPT !.live = FALSE] \in [token : Tokens, live : BOOLEAN]
                                  /\ [pushRow[d] EXCEPT !.live = FALSE].token = pushRow[d].token
    BY DEF PushTypeOK
  <2>3. pushRow' \in [DOMAIN pushRow' -> [token : Tokens, live : BOOLEAN]]
    BY <1>10, <2>1, <2>2 DEF RevokeTokens
  <2> QED
    BY <1>10, <2>1, <2>2, <2>3 DEF RevokeTokens, PushTypeOK, KnownTokens, OnlyOldRefused, Calm, StaysReachable, workVars
<1>11. ASSUME NEW r \in Requests, NEW d \in DeviceIds, BeginWake(r, d) PROVE PushInv'
  <2>1. /\ d \in DOMAIN pushRow /\ Begin(r, "wake", "send", d, pushRow[d].token) /\ UNCHANGED pushVars
        /\ pushRow[d].token \in Tokens
    BY <1>11 DEF BeginWake, PushTypeOK
  <2>2. /\ run' \in [Requests -> PushRuns] /\ lost' = lost
        /\ run'[r] = [op |-> "wake", pc |-> "send", on |-> d, with |-> pushRow[d].token, todo |-> {}]
        /\ \A q \in Requests : q # r => run'[q] = run[q]
    BY <2>1, PushBegin
  <2>3. d = phone.device /\ settled = "yes" => pushRow[d].token = phone.token
    BY DEF StaysReachable
  <2>4. \A q \in Working' : q # r => q \in Working
    BY <2>2 DEF Working
  <2>5. Calm'
    BY <2>1, <2>2, <2>3, <2>4 DEF pushVars, Calm, Working
  <2> QED
    BY <2>1, <2>2, <2>5 DEF pushVars, PushTypeOK, KnownTokens, OnlyOldRefused, StaysReachable
<1>12. ASSUME NEW r \in Requests, NEW answer, SendWake(r, answer) PROVE PushInv'
  <2>1. UNCHANGED pushVars
    BY <1>12 DEF SendWake
  <2>2. CASE answer = "invalid"
    <3>1. Advance(r, "wake", "send", "invalidate") /\ run[r].with # phone.token
      BY <1>12, <2>2 DEF SendWake, Answers
    <3>2. /\ run' \in [Requests -> PushRuns] /\ lost' = lost /\ r \in Working /\ run[r].op = "wake"
          /\ run'[r].op = "wake" /\ run'[r].with = run[r].with /\ run'[r].on = run[r].on
          /\ \A q \in Requests : q # r => run'[q] = run[q]
          /\ Working' = Working
      BY <3>1, PushAdvance
    <3>3. \A q \in Requests : /\ run'[q].op = run[q].op /\ run'[q].on = run[q].on
                              /\ run'[q].with = run[q].with
      BY <3>2
    <3>4. OnlyOldRefused'
      BY <2>1, <3>1, <3>2 DEF pushVars, OnlyOldRefused
    <3>5. Calm'
      BY <2>1, <3>2, <3>3 DEF pushVars, Calm, Working
    <3> QED
      BY <2>1, <3>2, <3>3, <3>4, <3>5 DEF pushVars, PushTypeOK, KnownTokens, StaysReachable
  <2>3. CASE answer # "invalid"
    <3>1. Finish(r, "wake", "send")
      BY <1>12, <2>3 DEF SendWake
    <3>2. /\ run' \in [Requests -> PushRuns] /\ lost' = lost /\ run'[r] = NotStarted
          /\ \A q \in Requests : q # r => run'[q] = run[q]
          /\ Working' = Working \ {r}
      BY <3>1, PushFinish
    <3>3. Calm'
      BY <2>1, <3>2 DEF pushVars, Calm, Working
    <3> QED
      BY <2>1, <3>2, <3>3 DEF pushVars, PushTypeOK, KnownTokens, OnlyOldRefused, StaysReachable, NotStarted
  <2> QED
    BY <2>2, <2>3
<1>13. ASSUME NEW r \in Requests, Invalidate(r) PROVE PushInv'
  <2>1. Finish(r, "wake", "invalidate") /\ phone' = phone /\ given' = given /\ settled' = settled
    BY <1>13 DEF Invalidate
  <2>2. /\ run' \in [Requests -> PushRuns] /\ lost' = lost /\ r \in Working /\ run[r].op = "wake" /\ run[r].pc = "invalidate"
        /\ run'[r] = NotStarted
        /\ \A q \in Requests : q # r => run'[q] = run[q]
        /\ Working' = Working \ {r}
    BY <2>1, PushFinish
  <2>3. \A d \in DOMAIN pushRow : [pushRow[d] EXCEPT !.live = FALSE] \in [token : Tokens, live : BOOLEAN]
                                  /\ [pushRow[d] EXCEPT !.live = FALSE].token = pushRow[d].token
    BY DEF PushTypeOK
  <2>4. /\ DOMAIN pushRow' = DOMAIN pushRow
        /\ \A d \in DOMAIN pushRow' : /\ pushRow'[d].token = pushRow[d].token
                                      /\ d # run[r].on => pushRow'[d] = pushRow[d]
        /\ pushRow' \in [DOMAIN pushRow' -> [token : Tokens, live : BOOLEAN]]
    BY <1>13, <2>3 DEF Invalidate, Undeliverable, PushTypeOK
  <2>5. settled = "yes" => run[r].on # phone.device
    BY <2>2 DEF Calm, OnlyOldRefused, Working
  <2>6. Calm' /\ StaysReachable'
    BY <2>1, <2>2, <2>4, <2>5 DEF Calm, StaysReachable, Working
  <2> QED
    BY <2>1, <2>2, <2>4, <2>6 DEF PushTypeOK, KnownTokens, OnlyOldRefused, NotStarted
<1>14. ASSUME NEW r \in Requests, LoseRun(r), UNCHANGED pushVars PROVE PushInv'
  <2>1. run' = run /\ lost' = lost \cup {r} /\ lost' \subseteq Requests
    BY <1>14 DEF LoseRun, PushTypeOK
  <2> QED
    BY <1>14, <2>1 DEF pushVars, PushTypeOK, KnownTokens, OnlyOldRefused, Calm, StaysReachable, Working
<1> QED
  BY <1>1, <1>2, <1>3, <1>4, <1>5, <1>6, <1>7, <1>8, <1>9, <1>10, <1>11, <1>12, <1>13, <1>14 DEF PushNext

\* Whatever starts, new tokens and deliveries overlap or are cut short, a phone whose
\* token was registered, with none of its earlier ones being tried, keeps its row.
THEOREM PhoneStaysReachable == PushSpec => []StaysReachable
<1>1. PushInv => StaysReachable
  BY DEF PushInv
<1> QED
  BY PushStart, PushStep, <1>1, PTL DEF PushSpec, pushAll

-----------------------------------------------------------------------------
(* The files and the messages of LegacyHistory.                             *)

HistoryRun(w) ==
  /\ w = [op |-> w.op, pc |-> w.pc, on |-> w.on, with |-> w.with, todo |-> w.todo]
  /\ w.op \in {"none", "ticket", "upload", "download", "cleanup", "send", "edit", "delete", "retire", "purge"}
  /\ w.op = "none" <=> w.pc = "idle"
  /\ w.op = "ticket" => w.pc \in {"insert", "pulse"} /\ w.on \in Files /\ w.with \in BOOLEAN
  /\ w.op = "upload" => w.pc \in {"put", "mark"} /\ w.on \in Files
  /\ w.op = "download" => w.pc = "get" /\ w.on \in Files
  /\ w.op = "cleanup" => w.pc \in {"sweep", "mark"} /\ w.todo \subseteq Files /\ (w.pc = "mark" => w.on \in Files)
  /\ w.op = "send" => w.pc \in {"attach", "append"}
  /\ w.op \in {"edit", "delete"} => w.pc = "write"
  /\ w.op = "retire" => w.pc = "set"
  /\ w.op = "purge" => w.pc \in {"list", "blobs", "mark", "messages", "set"} /\ w.todo \subseteq Files

Rows == [state : {"none", "kept", "deleted"}, inGroup : BOOLEAN, uploaded : BOOLEAN, expired : BOOLEAN]

HistoryTypeOK ==
  /\ run = [r \in Requests |-> run[r]] /\ \A r \in Requests : HistoryRun(run[r])
  /\ row \in [Files -> Rows]
  /\ group \in [retired : BOOLEAN, purged : BOOLEAN]
  /\ message = [m \in Messages |-> message[m]]

\* What R2 has, or what the purge of a retired group may have taken away.
Served(f) == f \in blob \/ (row[f].inGroup /\ group.retired)

FileSound(f) ==
  /\ row[f].state = "none" => row[f] = NoFile /\ f \notin blob /\ f \notin raced /\ f \notin missing
  /\ f \in blob => Kept(f) \/ f \in raced
  /\ Available(f) /\ row[f].uploaded => Served(f)
  /\ f \in missing => row[f].inGroup /\ group.retired

\* What stays true of the file, or the files, of a run that is under way.
RunSound(w) ==
  /\ w.op = "upload" => /\ ~row[w.on].expired /\ row[w.on].state # "none"
                        /\ Kept(w.on) \/ w.on \in raced
                        /\ w.pc = "mark" => Served(w.on)
  /\ w.op = "download" => ~row[w.on].expired /\ row[w.on].state # "none" /\ Served(w.on)
  /\ w.op = "cleanup" => /\ \A f \in w.todo : row[f].expired
                         /\ w.pc = "mark" => row[w.on].expired /\ w.on \notin blob
  /\ w.op = "purge" => /\ group.retired /\ \A f \in w.todo : row[f].inGroup
                       /\ w.pc \in {"blobs", "mark"} => GroupFiles \cap blob \subseteq w.todo \cup raced
                       /\ w.pc = "mark" => w.todo = {}

Ticket(w, f) == w.op = "ticket" /\ w.pc = "insert" /\ w.on = f

TicketsSound ==
  \A f \in Files : /\ \A r \in Requests : Ticket(run[r], f) => row[f].state = "none"
                   /\ \A r, q \in Requests : Ticket(run[r], f) /\ Ticket(run[q], f) => r = q

FilesInv ==
  /\ HistoryTypeOK /\ TicketsSound /\ missing \subseteq Files /\ blob \subseteq Files
  /\ \A f \in Files : FileSound(f)
  /\ \A r \in Working : RunSound(run[r])

\* Run r goes on as q.
Turns(r, q) ==
  /\ run' = [p \in Requests |-> run'[p]] /\ run'[r] = q /\ r \notin lost /\ lost' = lost
  /\ \A p \in Requests \ {r} : run'[p] = run[p]

LEMMA GoTurns ==
  ASSUME HistoryTypeOK, NEW r \in Requests, NEW q, NEW op, NEW from, Go(r, op, from, q)
  PROVE  Turns(r, q) /\ run[r].op = op /\ run[r].pc = from
BY DEF HistoryTypeOK, Go, At, Turns

LEMMA AdvanceTurns ==
  ASSUME HistoryTypeOK, NEW r \in Requests, NEW op, NEW from, NEW to, Advance(r, op, from, to)
  PROVE  /\ run[r].op = op /\ run[r].pc = from
         /\ Turns(r, [op |-> op, pc |-> to, on |-> run[r].on, with |-> run[r].with, todo |-> run[r].todo])
<1>1. PICK q : q = [run[r] EXCEPT !.pc = to]
  OBVIOUS
<1>2. Turns(r, q) /\ run[r].op = op /\ run[r].pc = from
  BY <1>1, GoTurns DEF Advance
<1>3. HistoryRun(run[r])
  BY DEF HistoryTypeOK
<1>4. q = [op |-> op, pc |-> to, on |-> run[r].on, with |-> run[r].with, todo |-> run[r].todo]
  BY <1>1, <1>2, <1>3 DEF HistoryRun
<1>. QED BY <1>2, <1>4

LEMMA FinishTurns ==
  ASSUME HistoryTypeOK, NEW r \in Requests, NEW op, NEW from, Finish(r, op, from)
  PROVE  Turns(r, NotStarted) /\ run[r].op = op /\ run[r].pc = from
BY GoTurns DEF Finish

LEMMA BeginTurns ==
  ASSUME HistoryTypeOK, NEW r \in Requests, NEW op, NEW pc, NEW on, NEW with, Begin(r, op, pc, on, with)
  PROVE  /\ Turns(r, [op |-> op, pc |-> pc, on |-> on, with |-> with, todo |-> {}])
         /\ run[r].op = "none"
<1>1. HistoryRun(run[r])
  BY DEF HistoryTypeOK
<1>2. run[r].op = "none"
  BY <1>1 DEF Begin, HistoryRun
<1>. QED BY <1>2 DEF HistoryTypeOK, Begin, Turns

\* What a step takes to keep the invariant.
LEMMA FilesKept ==
  ASSUME FilesInv, Watch, NEW r \in Requests, NEW q, Turns(r, q), HistoryRun(q),
         row' \in [Files -> Rows], group' \in [retired : BOOLEAN, purged : BOOLEAN],
         message' = [m \in Messages |-> message'[m]],
         missing' \subseteq Files, blob' \subseteq Files,
         TicketsSound',
         \A f \in Files : row[f].state # "none" => row'[f].state # "none",
         \A f \in Files : /\ row'[f].state = "none" => row'[f] = NoFile /\ f \notin blob' /\ f \notin missing'
                          /\ f \in blob' => Kept(f)' \/ f \in raced'
                          /\ Available(f)' /\ row'[f].uploaded => Served(f)'
                          /\ f \in missing' => row'[f].inGroup /\ group'.retired,
         q.op # "none" => RunSound(q)',
         \A p \in Working : p # r => RunSound(run[p])'
  PROVE  FilesInv'
<1>1. HistoryTypeOK'
  BY DEF Turns, FilesInv, HistoryTypeOK
<1>2. ASSUME NEW p \in Working' PROVE RunSound(run[p])'
  <2>1. CASE p = r
    <3>1. q.op # "none" /\ run'[p] = q
      BY <1>2, <2>1 DEF Working, Turns, HistoryRun
    <3>. QED BY <3>1 DEF RunSound
  <2>2. CASE p # r
    BY <1>2, <2>2 DEF Working, Turns
  <2>. QED BY <2>1, <2>2
<1>3. \A f \in raced' : f \in raced \/ \E p \in Working' : run'[p].op = "upload" /\ run'[p].on = f
  BY DEF Watch
<1>4. ASSUME NEW f \in Files, f \in raced' PROVE row'[f].state # "none"
  <2>1. CASE f \in raced
    BY <2>1 DEF FilesInv, FileSound
  <2>2. CASE \E p \in Working' : run'[p].op = "upload" /\ run'[p].on = f
    BY <1>2, <2>2 DEF RunSound
  <2>. QED BY <1>3, <1>4, <2>1, <2>2
<1>5. \A f \in Files : FileSound(f)'
  BY <1>4 DEF FileSound
<1>. QED BY <1>1, <1>2, <1>5 DEF FilesInv

\* A step that touches no row and no blob.
LEMMA QuietKeeps ==
  ASSUME FilesInv, Watch, NEW r \in Requests, NEW q, Turns(r, q), HistoryRun(q),
         UNCHANGED <<row, blob, missing>>,
         group' \in [retired : BOOLEAN, purged : BOOLEAN], group.retired => group'.retired,
         message' = [m \in Messages |-> message'[m]],
         \A f \in Files : Ticket(q, f) => Ticket(run[r], f) \/ (row[f].state = "none" /\ \A p \in Requests : run[p].on # f),
         q.op # "none" => RunSound(q)
  PROVE  FilesInv'
<1>1. raced \subseteq raced'
  BY DEF Watch
<1>2. ASSUME NEW w, RunSound(w) PROVE RunSound(w)'
  BY <1>1, <1>2 DEF RunSound, Kept, Served, GroupFiles
<1>3. ASSUME NEW p \in Working, p # r PROVE RunSound(run[p])'
  <2>1. PICK w : w = run[p]
    OBVIOUS
  <2>2. RunSound(w)' /\ run'[p] = w
    BY <1>2, <1>3, <2>1 DEF FilesInv, Turns, Working
  <2>. QED BY <2>2 DEF RunSound
<1>4. q.op # "none" => RunSound(q)'
  BY <1>2
<1>5. \A f \in Files : /\ row'[f].state = "none" => row'[f] = NoFile /\ f \notin blob' /\ f \notin missing'
                       /\ f \in blob' => Kept(f)' \/ f \in raced'
                       /\ Available(f)' /\ row'[f].uploaded => Served(f)'
                       /\ f \in missing' => row'[f].inGroup /\ group'.retired
  BY <1>1 DEF FilesInv, FileSound, Available, Kept, Served
<1>6. TicketsSound'
  BY DEF FilesInv, TicketsSound, Turns, Ticket
<1>7. row' \in [Files -> Rows] /\ missing' \subseteq Files /\ blob' \subseteq Files
      /\ \A f \in Files : row[f].state # "none" => row'[f].state # "none"
  BY DEF FilesInv, HistoryTypeOK
<1>. QED BY <1>3, <1>4, <1>5, <1>6, <1>7, FilesKept

RunIs(q, op, pc, on, with, todo) == q = [op |-> op, pc |-> pc, on |-> on, with |-> with, todo |-> todo]

\* The steps of no run, and a run that is cut short.
LEMMA AsideKeeps ==
  ASSUME FilesInv, Watch, run' = run, lost \subseteq lost', UNCHANGED <<row, blob, missing, group, message>>
  PROVE  FilesInv'
<1>1. Working' \subseteq Working /\ HistoryTypeOK'
  BY DEF Working, FilesInv, HistoryTypeOK
<1>2. raced \subseteq raced' /\ \A f \in raced' : f \in raced \/ \E p \in Working : run[p].op = "upload" /\ run[p].on = f
  BY <1>1 DEF Watch
<1>3. ASSUME NEW f \in Files PROVE FileSound(f)'
  <2>1. FileSound(f) /\ (f \in raced' => f \in raced \/ row[f].state # "none")
    BY <1>2 DEF FilesInv, RunSound
  <2>. QED BY <1>2, <2>1 DEF FileSound, Kept, Available, Served
<1>4. \A p \in Working' : RunSound(run[p])'
  BY <1>1, <1>2 DEF FilesInv, RunSound, Kept, Served, GroupFiles
<1>5. TicketsSound' /\ missing' \subseteq Files /\ blob' \subseteq Files
  BY DEF FilesInv, TicketsSound, Ticket
<1>. QED BY <1>1, <1>3, <1>4, <1>5 DEF FilesInv

\* A handler is over.
LEMMA OverKeeps ==
  ASSUME FilesInv, Watch, NEW r \in Requests, NEW op, NEW from, Finish(r, op, from),
         UNCHANGED <<row, blob, missing>>,
         group' \in [retired : BOOLEAN, purged : BOOLEAN], group.retired => group'.retired,
         message' = [m \in Messages |-> message'[m]]
  PROVE  FilesInv'
<1>1. HistoryTypeOK
  BY DEF FilesInv
<1>2. Turns(r, NotStarted)
  BY <1>1, FinishTurns
<1>3. HistoryRun(NotStarted) /\ NotStarted.op = "none"
  BY DEF HistoryRun, NotStarted
<1>. QED BY <1>2, <1>3, QuietKeeps DEF Ticket

\* A handler begins.
LEMMA HandlerBegins ==
  ASSUME FilesInv, Watch, NEW r \in Requests, NEW op, NEW pc, NEW on, NEW with, Begin(r, op, pc, on, with),
         NEW q, RunIs(q, op, pc, on, with, {}),
         HistoryRun(q), RunSound(q), UNCHANGED <<row, blob, missing, group, message>>,
         op = "ticket" => row[on].state = "none" /\ \A p \in Requests : run[p].on # on
  PROVE  FilesInv'
<1>1. HistoryTypeOK
  BY DEF FilesInv
<1>2. Turns(r, q)
  BY <1>1, BeginTurns DEF RunIs
<1>3. \A f \in Files : Ticket(q, f) => row[f].state = "none" /\ \A p \in Requests : run[p].on # f
  BY DEF Ticket, RunIs
<1>4. /\ group' \in [retired : BOOLEAN, purged : BOOLEAN]
      /\ group.retired => group'.retired
      /\ message' = [m \in Messages |-> message'[m]]
  BY <1>1 DEF HistoryTypeOK
<1>5. UNCHANGED <<row, blob, missing>> /\ (q.op # "none" => RunSound(q))
      /\ \A f \in Files : Ticket(q, f) => Ticket(run[r], f) \/ (row[f].state = "none" /\ \A p \in Requests : run[p].on # f)
  BY <1>3
<1>. QED BY <1>2, <1>4, <1>5, QuietKeeps

\* A handler goes on to a statement of the same kind.
LEMMA HandlerGoesOn ==
  ASSUME FilesInv, Watch, NEW r \in Requests, NEW op, NEW from, NEW to, Advance(r, op, from, to),
         NEW q, RunIs(q, op, to, run[r].on, run[r].with, run[r].todo),
         HistoryRun(q), RunSound(q), to # "insert", UNCHANGED <<row, blob, missing, group>>,
         message' = [m \in Messages |-> message'[m]]
  PROVE  FilesInv'
<1>1. HistoryTypeOK
  BY DEF FilesInv
<1>2. Turns(r, q)
  BY <1>1, AdvanceTurns DEF RunIs
<1>3. /\ group' \in [retired : BOOLEAN, purged : BOOLEAN]
      /\ group.retired => group'.retired
  BY <1>1 DEF HistoryTypeOK
<1>4. UNCHANGED <<row, blob, missing>> /\ (q.op # "none" => RunSound(q))
      /\ \A f \in Files : Ticket(q, f) => Ticket(run[r], f) \/ (row[f].state = "none" /\ \A p \in Requests : run[p].on # f)
  BY DEF Ticket, RunIs
<1>. QED BY <1>2, <1>3, <1>4, QuietKeeps

LEMMA MessagesFn ==
  ASSUME HistoryTypeOK, NEW m, NEW v, message' = [message EXCEPT ![m] = v]
  PROVE  message' = [n \in Messages |-> message'[n]]
BY DEF HistoryTypeOK

LEMMA FilesBegin ==
  ASSUME FilesInv, Watch, NEW r \in Requests, NEW f \in Files, NEW g \in BOOLEAN
  PROVE  /\ BeginTicket(r, f, g) /\ UNCHANGED groupVars => FilesInv'
         /\ BeginUpload(r, f) /\ UNCHANGED groupVars => FilesInv'
         /\ BeginDownload(r, f) /\ UNCHANGED groupVars => FilesInv'
<1>1. ASSUME BeginTicket(r, f, g), UNCHANGED groupVars PROVE FilesInv'
  <2>1. PICK q : RunIs(q, "ticket", "insert", f, g, {})
    BY DEF RunIs
  <2>2. HistoryRun(q) /\ RunSound(q)
    BY <2>1 DEF RunIs, HistoryRun, RunSound
  <2>. QED BY <1>1, <2>1, <2>2, HandlerBegins DEF BeginTicket, storeVars, groupVars
<1>2. ASSUME BeginUpload(r, f), UNCHANGED groupVars PROVE FilesInv'
  <2>1. PICK q : RunIs(q, "upload", "put", f, Nothing, {})
    BY DEF RunIs
  <2>2. HistoryRun(q) /\ RunSound(q)
    BY <1>2, <2>1 DEF RunIs, HistoryRun, RunSound, BeginUpload, Uploadable, Available, Kept
  <2>. QED BY <1>2, <2>1, <2>2, HandlerBegins DEF BeginUpload, storeVars, groupVars
<1>3. ASSUME BeginDownload(r, f), UNCHANGED groupVars PROVE FilesInv'
  <2>1. PICK q : RunIs(q, "download", "get", f, Nothing, {})
    BY DEF RunIs
  <2>2. Available(f) /\ Served(f)
    BY <1>3 DEF BeginDownload, FilesInv, FileSound
  <2>3. HistoryRun(q) /\ RunSound(q)
    BY <2>1, <2>2 DEF RunIs, HistoryRun, RunSound, Available, Kept
  <2>. QED BY <1>3, <2>1, <2>3, HandlerBegins DEF BeginDownload, storeVars, groupVars
<1>. QED BY <1>1, <1>2, <1>3

LEMMA CleanupBegins ==
  ASSUME FilesInv, Watch, NEW r \in Requests, BeginCleanup(r), UNCHANGED groupVars
  PROVE  FilesInv'
<1>1. PICK q : RunIs(q, "cleanup", "sweep", Nothing, Nothing, Expired)
  BY DEF RunIs
<1>2. q = [NotStarted EXCEPT !.op = "cleanup", !.pc = "sweep", !.todo = Expired]
  <2>1. PICK e, n : e = Expired /\ n = NotStarted
    OBVIOUS
  <2>2. n = [op |-> "none", pc |-> "idle", on |-> Nothing, with |-> Nothing, todo |-> {}]
    BY <2>1 DEF NotStarted
  <2>3. PICK x : x = [n EXCEPT !.op = "cleanup", !.pc = "sweep", !.todo = e]
    OBVIOUS
  <2>4. x = [op |-> "cleanup", pc |-> "sweep", on |-> Nothing, with |-> Nothing, todo |-> e]
    BY <2>2, <2>3
  <2>. QED BY <1>1, <2>1, <2>3, <2>4 DEF RunIs
<1>3. HistoryTypeOK
  BY DEF FilesInv
<1>4. Turns(r, q)
  BY <1>2, <1>3 DEF BeginCleanup, HistoryTypeOK, Turns
<1>5. HistoryRun(q) /\ RunSound(q)
  BY <1>1 DEF RunIs, HistoryRun, RunSound, Expired
<1>6. \A f \in Files : ~Ticket(q, f)
  BY <1>1 DEF RunIs, Ticket
<1>7. /\ UNCHANGED <<row, blob, missing, group, message>> /\ message' = [m \in Messages |-> message'[m]]
      /\ group' \in [retired : BOOLEAN, purged : BOOLEAN]
  BY <1>3 DEF BeginCleanup, storeVars, groupVars, HistoryTypeOK
<1>. QED BY <1>4, <1>5, <1>6, <1>7, QuietKeeps

LEMMA FilesEnd ==
  ASSUME FilesInv, Watch, NEW r \in Requests, UNCHANGED groupVars, AnswerTicket(r) \/ Ack(r) \/ FailCleanup(r)
  PROVE  FilesInv'
<1>1. /\ UNCHANGED <<row, blob, missing>> /\ group' = group
      /\ \/ Finish(r, "ticket", "pulse") \/ Finish(r, "cleanup", "sweep") \/ Finish(r, "cleanup", "mark")
  BY DEF AnswerTicket, Ack, FailCleanup, groupVars
<1>2. /\ group' \in [retired : BOOLEAN, purged : BOOLEAN]
      /\ group.retired => group'.retired
      /\ message' = [m \in Messages |-> message'[m]]
  BY DEF groupVars, FilesInv, HistoryTypeOK
<1>. QED BY <1>1, <1>2, OverKeeps

LEMMA MemberKeeps ==
  ASSUME FilesInv, Watch, NEW r \in Requests
  PROVE  /\ \A m \in Messages, f \in Files \cup {Nothing} : BeginSend(r, m, f) => FilesInv'
         /\ \A m \in Messages, op \in {"edit", "delete"} : BeginChange(r, op, m) => FilesInv'
         /\ ReadAttachment(r) \/ RefuseAttachment(r) \/ AppendMessage(r) \/ ChangeMessage(r) => FilesInv'
<1>. HistoryTypeOK
  BY DEF FilesInv
<1>1. ASSUME NEW m \in Messages, NEW f \in Files \cup {Nothing}, BeginSend(r, m, f) PROVE FilesInv'
  <2>1. PICK pc : pc = IF f = Nothing THEN "append" ELSE "attach"
    OBVIOUS
  <2>2. PICK q : RunIs(q, "send", pc, m, f, {})
    BY DEF RunIs
  <2>3. HistoryRun(q) /\ RunSound(q)
    BY <2>1, <2>2 DEF RunIs, HistoryRun, RunSound
  <2>4. Begin(r, "send", pc, m, f) /\ UNCHANGED <<row, blob, missing, group, message>>
    BY <1>1, <2>1 DEF BeginSend, storeVars, groupVars
  <2>. QED BY <2>2, <2>3, <2>4, HandlerBegins
<1>2. ASSUME NEW m \in Messages, NEW op \in {"edit", "delete"}, BeginChange(r, op, m) PROVE FilesInv'
  <2>1. PICK q : RunIs(q, op, "write", m, Nothing, {})
    BY DEF RunIs
  <2>2. HistoryRun(q) /\ RunSound(q)
    BY <2>1 DEF RunIs, HistoryRun, RunSound
  <2>3. Begin(r, op, "write", m, Nothing) /\ UNCHANGED <<row, blob, missing, group, message>>
    BY <1>2 DEF BeginChange, storeVars, groupVars
  <2>. QED BY <2>1, <2>2, <2>3, HandlerBegins
<1>3. ASSUME ReadAttachment(r) PROVE FilesInv'
  <2>1. PICK q : RunIs(q, "send", "append", run[r].on, run[r].with, run[r].todo)
    BY DEF RunIs
  <2>2. HistoryRun(q) /\ RunSound(q)
    BY <2>1 DEF RunIs, HistoryRun, RunSound
  <2>3. Advance(r, "send", "attach", "append") /\ UNCHANGED <<row, blob, missing, group, message>>
    BY <1>3 DEF ReadAttachment, storeVars, groupVars
  <2>4. message' = [m \in Messages |-> message'[m]]
    BY <2>3 DEF HistoryTypeOK
  <2>. QED BY <2>1, <2>2, <2>3, <2>4, HandlerGoesOn
<1>4. ASSUME RefuseAttachment(r) \/ AppendMessage(r) \/ ChangeMessage(r) PROVE FilesInv'
  <2>1. /\ UNCHANGED <<row, blob, missing>>
        /\ group' = group
        /\ \E op \in {"send", "edit", "delete"}, from \in {"attach", "append", "write"} : Finish(r, op, from)
    BY <1>4 DEF RefuseAttachment, AppendMessage, ChangeMessage, storeVars, groupVars
  <2>2. message' = [m \in Messages |-> message'[m]]
    BY <1>4 DEF RefuseAttachment, AppendMessage, ChangeMessage, groupVars, HistoryTypeOK
  <2>3. /\ group' \in [retired : BOOLEAN, purged : BOOLEAN]
        /\ group.retired => group'.retired
    BY <2>1 DEF HistoryTypeOK
  <2>. QED BY <2>1, <2>2, <2>3, OverKeeps
<1>. QED BY <1>1, <1>2, <1>3, <1>4

LEMMA OperatorKeeps ==
  ASSUME FilesInv, Watch, NEW r \in Requests,
         BeginRetire(r) \/ SetRetired(r) \/ BeginPurge(r) \/ ListFiles(r) \/ DeleteMessages(r) \/ SetPurged(r)
  PROVE  FilesInv'
<1>. HistoryTypeOK
  BY DEF FilesInv
<1>1. ASSUME BeginRetire(r) PROVE FilesInv'
  <2>1. PICK q : RunIs(q, "retire", "set", Nothing, Nothing, {})
    BY DEF RunIs
  <2>2. HistoryRun(q) /\ RunSound(q)
    BY <2>1 DEF RunIs, HistoryRun, RunSound
  <2>3. Begin(r, "retire", "set", Nothing, Nothing) /\ UNCHANGED <<row, blob, missing, group, message>>
    BY <1>1 DEF BeginRetire, storeVars, groupVars
  <2>. QED BY <2>1, <2>2, <2>3, HandlerBegins
<1>2. ASSUME BeginPurge(r) PROVE FilesInv'
  <2>1. PICK q : RunIs(q, "purge", "list", Nothing, Nothing, {})
    BY DEF RunIs
  <2>2. HistoryRun(q) /\ RunSound(q)
    BY <1>2, <2>1 DEF BeginPurge, Purgeable, RunIs, HistoryRun, RunSound
  <2>3. Begin(r, "purge", "list", Nothing, Nothing) /\ UNCHANGED <<row, blob, missing, group, message>>
    BY <1>2 DEF BeginPurge, storeVars, groupVars
  <2>. QED BY <2>1, <2>2, <2>3, HandlerBegins
<1>3. ASSUME SetRetired(r) \/ SetPurged(r) PROVE FilesInv'
  <2>1. /\ UNCHANGED <<row, blob, missing>>
        /\ message' = message
        /\ \E op \in {"retire", "purge"} : Finish(r, op, "set")
    BY <1>3 DEF SetRetired, SetPurged, storeVars
  <2>2. message' = [m \in Messages |-> message'[m]]
    BY <2>1 DEF HistoryTypeOK
  <2>3. /\ group' \in [retired : BOOLEAN, purged : BOOLEAN]
        /\ group.retired => group'.retired
    BY <1>3 DEF SetRetired, SetPurged, HistoryTypeOK
  <2>. QED BY <2>1, <2>2, <2>3, OverKeeps
<1>4. ASSUME DeleteMessages(r) PROVE FilesInv'
  <2>1. Advance(r, "purge", "messages", "set") /\ UNCHANGED <<row, blob, missing, group>>
    BY <1>4 DEF DeleteMessages, storeVars
  <2>2. run[r].op = "purge" /\ run[r].pc = "messages" /\ r \in Working /\ HistoryRun(run[r]) /\ RunSound(run[r])
    BY <2>1 DEF Advance, Go, At, Working, HistoryTypeOK, FilesInv
  <2>3. PICK q : RunIs(q, "purge", "set", run[r].on, run[r].with, run[r].todo)
    BY DEF RunIs
  <2>4. HistoryRun(q) /\ RunSound(q)
    BY <2>2, <2>3 DEF RunIs, HistoryRun, RunSound
  <2>5. message' = [m \in Messages |-> message'[m]]
    BY <1>4 DEF DeleteMessages
  <2>. QED BY <2>1, <2>3, <2>4, <2>5, HandlerGoesOn
<1>5. ASSUME ListFiles(r) PROVE FilesInv'
  <2>1. PICK g, pc : g = GroupFiles /\ pc = IF GroupFiles = {} THEN "messages" ELSE "blobs"
    OBVIOUS
  <2>2. PICK q : q = [run[r] EXCEPT !.todo = g, !.pc = pc]
    OBVIOUS
  <2>3. Go(r, "purge", "list", q)
    BY <1>5, <2>1, <2>2 DEF ListFiles
  <2>4. Turns(r, q) /\ run[r].op = "purge" /\ run[r].pc = "list"
    BY <2>3, GoTurns
  <2>5. r \in Working /\ HistoryRun(run[r]) /\ RunSound(run[r])
    BY <2>4 DEF Turns, Working, HistoryTypeOK, FilesInv
  <2>6. RunIs(q, "purge", pc, run[r].on, run[r].with, g)
    BY <2>2, <2>4, <2>5 DEF RunIs, HistoryRun
  <2>7. g \subseteq Files /\ \A f \in g : row[f].inGroup
    BY <2>1 DEF GroupFiles
  <2>8. HistoryRun(q) /\ RunSound(q)
    BY <2>1, <2>4, <2>5, <2>6, <2>7 DEF RunIs, HistoryRun, RunSound
  <2>9. /\ UNCHANGED <<row, blob, missing>>
        /\ group' \in [retired : BOOLEAN, purged : BOOLEAN]
        /\ group.retired => group'.retired
        /\ message' = [m \in Messages |-> message'[m]]
    BY <1>5 DEF ListFiles, storeVars, groupVars, HistoryTypeOK
  <2>10. \A f \in Files : ~Ticket(q, f)
    BY <2>6 DEF RunIs, Ticket
  <2>. QED BY <2>4, <2>8, <2>9, <2>10, QuietKeeps
<1>. QED BY <1>1, <1>2, <1>3, <1>4, <1>5

\* What is known of a run that is about to do a statement.
LEMMA AtStatement ==
  ASSUME FilesInv, NEW r \in Requests, r \notin lost, run[r].op # "none"
  PROVE  r \in Working /\ HistoryRun(run[r]) /\ RunSound(run[r])
BY DEF FilesInv, HistoryTypeOK, HistoryRun, Working

LEMMA Others ==
  ASSUME FilesInv, NEW r \in Requests, NEW q, Turns(r, q), NEW p \in Working, p # r
  PROVE  p \in Requests /\ run'[p] = run[p] /\ HistoryRun(run[p]) /\ RunSound(run[p])
BY DEF FilesInv, HistoryTypeOK, Turns, Working

\* The tickets of other files are as they were.
LEMMA TicketsStay ==
  ASSUME FilesInv, NEW r \in Requests, NEW q, Turns(r, q), \A f \in Files : ~Ticket(q, f),
         \A f \in Files : row[f].state = "none" => row'[f].state = "none" \/ Ticket(run[r], f)
  PROVE  TicketsSound'
BY DEF FilesInv, TicketsSound, Turns, Ticket

LEMMA InsertKeeps ==
  ASSUME FilesInv, Watch, NEW r \in Requests, InsertFile(r), UNCHANGED groupVars
  PROVE  FilesInv'
<1>. HistoryTypeOK
  BY DEF FilesInv
<1>1. /\ Advance(r, "ticket", "insert", "pulse")
      /\ row' = [row EXCEPT ![run[r].on] = [NoFile EXCEPT !.state = "kept", !.inGroup = run[r].with]]
      /\ UNCHANGED <<blob, missing, group, message>>
  BY DEF InsertFile, groupVars
<1>2. PICK q : RunIs(q, "ticket", "pulse", run[r].on, run[r].with, run[r].todo)
  BY DEF RunIs
<1>3. Turns(r, q) /\ run[r].op = "ticket" /\ run[r].pc = "insert"
  BY <1>1, <1>2, AdvanceTurns DEF RunIs
<1>4. HistoryRun(run[r]) /\ run[r].on \in Files /\ run[r].with \in BOOLEAN
  BY <1>3, AtStatement DEF HistoryRun, Turns
<1>5. PICK f \in Files : f = run[r].on
  BY <1>4
<1>6. Ticket(run[r], f) /\ row[f].state = "none"
  BY <1>3, <1>5 DEF Ticket, FilesInv, TicketsSound
<1>7. FileSound(f) /\ row[f] = NoFile /\ f \notin blob /\ f \notin missing /\ ~row[f].expired /\ ~row[f].inGroup
  BY <1>6 DEF FilesInv, FileSound, NoFile
<1>8. PICK x : x = [NoFile EXCEPT !.state = "kept", !.inGroup = run[r].with]
  OBVIOUS
<1>9. /\ x \in Rows /\ x.state = "kept" /\ x.uploaded = FALSE /\ x.expired = FALSE
  BY <1>4, <1>8 DEF NoFile, Rows
<1>10. /\ row' = [row EXCEPT ![f] = x] /\ row' \in [Files -> Rows] /\ row'[f] = x
       /\ \A g \in Files : g # f => row'[g] = row[g]
  BY <1>1, <1>5, <1>8, <1>9 DEF HistoryTypeOK
<1>11. HistoryRun(q) /\ RunSound(q)' /\ \A g \in Files : ~Ticket(q, g)
  BY <1>2, <1>4 DEF RunIs, HistoryRun, RunSound, Ticket
<1>12. raced \subseteq raced'
  BY DEF Watch
<1>13. ASSUME NEW p \in Working, p # r PROVE RunSound(run[p])'
  <2>1. run'[p] = run[p] /\ HistoryRun(run[p]) /\ RunSound(run[p])
    BY <1>3, <1>13, Others
  <2>2. \A g \in GroupFiles' : g = f \/ g \in GroupFiles
    BY <1>10 DEF GroupFiles, Kept
  <2>. QED BY <1>1, <1>6, <1>7, <1>10, <1>12, <2>1, <2>2 DEF RunSound, HistoryRun, Served, Kept
<1>14. ASSUME NEW g \in Files
       PROVE  /\ row'[g].state = "none" => row'[g] = NoFile /\ g \notin blob' /\ g \notin missing'
              /\ g \in blob' => Kept(g)' \/ g \in raced'
              /\ Available(g)' /\ row'[g].uploaded => Served(g)'
              /\ g \in missing' => row'[g].inGroup /\ group'.retired
  <2>1. CASE g = f
    BY <1>1, <1>7, <1>9, <1>10, <2>1
  <2>2. CASE g # f
    <3>1. FileSound(g) /\ row'[g] = row[g]
      BY <1>10, <2>2 DEF FilesInv
    <3>. QED BY <1>1, <1>12, <3>1 DEF FileSound, Kept, Available, Served
  <2>. QED BY <2>1, <2>2
<1>15. TicketsSound'
  BY <1>3, <1>6, <1>10, <1>11, TicketsStay
<1>16. \A g \in Files : row[g].state # "none" => row'[g].state # "none"
  BY <1>9, <1>10
<1>17. /\ group' \in [retired : BOOLEAN, purged : BOOLEAN] /\ message' = [m \in Messages |-> message'[m]]
       /\ missing' \subseteq Files /\ blob' \subseteq Files
  BY <1>1 DEF HistoryTypeOK, FilesInv
<1>. QED BY <1>3, <1>10, <1>11, <1>13, <1>14, <1>15, <1>16, <1>17, FilesKept

LEMMA PutBlobKeeps ==
  ASSUME FilesInv, Watch, NEW r \in Requests, PutBlob(r), UNCHANGED groupVars
  PROVE  FilesInv'
<1>. HistoryTypeOK
  BY DEF FilesInv
<1>1. /\ Advance(r, "upload", "put", "mark") /\ blob' = blob \cup {run[r].on}
      /\ UNCHANGED <<row, missing, group, message>>
  BY DEF PutBlob, groupVars
<1>2. PICK q : RunIs(q, "upload", "mark", run[r].on, run[r].with, run[r].todo)
  BY DEF RunIs
<1>3. Turns(r, q) /\ run[r].op = "upload" /\ run[r].pc = "put"
  BY <1>1, <1>2, AdvanceTurns DEF RunIs
<1>4. HistoryRun(run[r]) /\ RunSound(run[r]) /\ run[r].on \in Files
  BY <1>3, AtStatement DEF HistoryRun, Turns
<1>5. PICK f \in Files : f = run[r].on
  BY <1>4
<1>6. ~row[f].expired /\ row[f].state # "none" /\ (Kept(f) \/ f \in raced)
  BY <1>3, <1>4, <1>5 DEF RunSound
<1>7. raced \subseteq raced'
  BY DEF Watch
<1>8. HistoryRun(q) /\ RunSound(q)' /\ \A g \in Files : ~Ticket(q, g)
  BY <1>1, <1>2, <1>4, <1>5, <1>6, <1>7 DEF RunIs, HistoryRun, RunSound, Ticket, Served, Kept
<1>9. ASSUME NEW p \in Working, p # r, run[p].op = "purge" PROVE f \in raced'
  <2>1. p \in Running("purge")'
    BY <1>3, <1>9, Others DEF Running, Working, Turns
  <2>2. r \in Working' /\ run'[r].op = "upload" /\ run'[r].on = f
    BY <1>2, <1>3, <1>5 DEF Working, Turns, RunIs
  <2>. QED BY <2>1, <2>2 DEF Watch
<1>10. ASSUME NEW p \in Working, p # r PROVE RunSound(run[p])'
  <2>1. run'[p] = run[p] /\ HistoryRun(run[p]) /\ RunSound(run[p])
    BY <1>3, <1>10, Others
  <2>2. GroupFiles' = GroupFiles
    BY <1>1 DEF GroupFiles, Kept
  <2>. QED BY <1>1, <1>5, <1>6, <1>7, <1>9, <1>10, <2>1, <2>2 DEF RunSound, HistoryRun, Served, Kept
<1>11. ASSUME NEW g \in Files
       PROVE  /\ row'[g].state = "none" => row'[g] = NoFile /\ g \notin blob' /\ g \notin missing'
              /\ g \in blob' => Kept(g)' \/ g \in raced'
              /\ Available(g)' /\ row'[g].uploaded => Served(g)'
              /\ g \in missing' => row'[g].inGroup /\ group'.retired
  <2>1. FileSound(g)
    BY DEF FilesInv
  <2>. QED BY <1>1, <1>5, <1>6, <1>7, <2>1 DEF FileSound, Kept, Available, Served
<1>12. TicketsSound'
  BY <1>1, <1>3, <1>8, TicketsStay
<1>13. /\ group' \in [retired : BOOLEAN, purged : BOOLEAN] /\ message' = [m \in Messages |-> message'[m]]
       /\ missing' \subseteq Files /\ blob' \subseteq Files /\ row' \in [Files -> Rows]
       /\ \A g \in Files : row[g].state # "none" => row'[g].state # "none"
  BY <1>1, <1>4 DEF HistoryTypeOK, FilesInv
<1>. QED BY <1>3, <1>8, <1>10, <1>11, <1>12, <1>13, FilesKept

\* A run is over and has changed the row of one file, which was there, and which no other
\* run relies on but for what the row keeps.
LEMMA MarkKeeps ==
  ASSUME FilesInv, Watch, NEW r \in Requests, NEW f \in Files, NEW q, Turns(r, q), HistoryRun(q),
         q.op # "none" => RunSound(q)', \A g \in Files : ~Ticket(q, g),
         UNCHANGED <<blob, missing, group, message>>,
         row' \in [Files -> Rows], row[f].state # "none", row'[f].state # "none",
         row'[f].inGroup = row[f].inGroup, row'[f].expired = row[f].expired,
         Kept(f)' => Kept(f), Kept(f) => Kept(f)' \/ (row[f].expired /\ f \notin blob),
         ~row[f].expired /\ Kept(f)' /\ row'[f].uploaded => Served(f),
         \A g \in Files : g # f => row'[g] = row[g]
  PROVE  FilesInv'
<1>. HistoryTypeOK
  BY DEF FilesInv
<1>1. raced \subseteq raced'
  BY DEF Watch
<1>2. GroupFiles' \subseteq GroupFiles
  BY DEF GroupFiles, Kept
<1>3. ASSUME NEW p \in Working, p # r PROVE RunSound(run[p])'
  <2>1. run'[p] = run[p] /\ HistoryRun(run[p]) /\ RunSound(run[p])
    BY <1>3, Others
  <2>2. \A g \in Files : /\ row'[g].inGroup = row[g].inGroup /\ row'[g].expired = row[g].expired
                         /\ row[g].state # "none" => row'[g].state # "none"
                         /\ Kept(g) => Kept(g)' \/ row[g].expired
    BY DEF Kept
  <2>. QED BY <1>1, <1>2, <2>1, <2>2 DEF RunSound, HistoryRun, Served
<1>4. ASSUME NEW g \in Files
      PROVE  /\ row'[g].state = "none" => row'[g] = NoFile /\ g \notin blob' /\ g \notin missing'
             /\ g \in blob' => Kept(g)' \/ g \in raced'
             /\ Available(g)' /\ row'[g].uploaded => Served(g)'
             /\ g \in missing' => row'[g].inGroup /\ group'.retired
  <2>1. FileSound(g)
    BY DEF FilesInv
  <2>2. CASE g = f
    BY <1>1, <2>1, <2>2 DEF FileSound, Available, Served
  <2>3. CASE g # f
    BY <1>1, <2>1, <2>3 DEF FileSound, Kept, Available, Served
  <2>. QED BY <2>2, <2>3
<1>5. TicketsSound'
  BY TicketsStay
<1>6. /\ group' \in [retired : BOOLEAN, purged : BOOLEAN] /\ message' = [m \in Messages |-> message'[m]]
      /\ missing' \subseteq Files /\ blob' \subseteq Files
      /\ \A g \in Files : row[g].state # "none" => row'[g].state # "none"
  BY DEF HistoryTypeOK, FilesInv
<1>. QED BY <1>3, <1>4, <1>5, <1>6, FilesKept

LEMMA MarksKeep ==
  ASSUME FilesInv, Watch, NEW r \in Requests, UNCHANGED groupVars, MarkUploaded(r) \/ MarkExpired(r)
  PROVE  FilesInv'
<1>. HistoryTypeOK
  BY DEF FilesInv
<1>1. ASSUME MarkUploaded(r) PROVE FilesInv'
  <2>1. /\ Finish(r, "upload", "mark") /\ row' = [row EXCEPT ![run[r].on].uploaded = TRUE]
        /\ UNCHANGED <<blob, missing, group, message>>
    BY <1>1 DEF MarkUploaded, groupVars
  <2>2. Turns(r, NotStarted) /\ run[r].op = "upload" /\ run[r].pc = "mark"
    BY <2>1, FinishTurns
  <2>3. RunSound(run[r]) /\ run[r].on \in Files
    BY <2>2, AtStatement DEF HistoryRun, Turns
  <2>4. PICK f \in Files : f = run[r].on
    BY <2>3
  <2>5. ~row[f].expired /\ row[f].state # "none" /\ Served(f)
    BY <2>2, <2>3, <2>4 DEF RunSound
  <2>6. PICK x : x = [row[f] EXCEPT !.uploaded = TRUE]
    OBVIOUS
  <2>7. row[f] \in Rows
    BY DEF HistoryTypeOK
  <2>8. x \in Rows /\ x.state = row[f].state /\ x.inGroup = row[f].inGroup /\ x.expired = row[f].expired
    BY <2>6, <2>7 DEF Rows
  <2>9. row' = [row EXCEPT ![f] = x]
    BY <2>1, <2>4, <2>6
  <2>10. row' \in [Files -> Rows] /\ row'[f] = x /\ \A g \in Files : g # f => row'[g] = row[g]
    BY <2>8, <2>9 DEF HistoryTypeOK
  <2>11. Kept(f)' <=> Kept(f)
    BY <2>8, <2>10 DEF Kept
  <2>12. HistoryRun(NotStarted) /\ NotStarted.op = "none" /\ \A g \in Files : ~Ticket(NotStarted, g)
    BY DEF HistoryRun, NotStarted, Ticket
  <2>. QED BY <2>1, <2>2, <2>5, <2>8, <2>10, <2>11, <2>12, MarkKeeps
<1>2. ASSUME MarkExpired(r) PROVE FilesInv'
  <2>1. PICK q : q = [run[r] EXCEPT !.pc = "sweep", !.on = Nothing]
    OBVIOUS
  <2>2. /\ Go(r, "cleanup", "mark", q) /\ row' = [row EXCEPT ![run[r].on].state = "deleted"]
        /\ UNCHANGED <<blob, missing, group, message>>
    BY <1>2, <2>1 DEF MarkExpired, groupVars
  <2>3. Turns(r, q) /\ run[r].op = "cleanup" /\ run[r].pc = "mark"
    BY <2>2, GoTurns
  <2>4. HistoryRun(run[r]) /\ RunSound(run[r]) /\ run[r].on \in Files
    BY <2>3, AtStatement DEF HistoryRun, Turns
  <2>5. PICK f \in Files : f = run[r].on
    BY <2>4
  <2>6. row[f].expired /\ f \notin blob
    BY <2>3, <2>4, <2>5 DEF RunSound
  <2>7. row[f].state # "none" /\ row[f] \in Rows
    BY <2>6 DEF FilesInv, FileSound, NoFile, HistoryTypeOK
  <2>8. PICK x : x = [row[f] EXCEPT !.state = "deleted"]
    OBVIOUS
  <2>9. x \in Rows /\ x.state = "deleted" /\ x.inGroup = row[f].inGroup /\ x.expired = row[f].expired
    BY <2>7, <2>8 DEF Rows
  <2>10. row' = [row EXCEPT ![f] = x]
    BY <2>2, <2>5, <2>8
  <2>11. row' \in [Files -> Rows] /\ row'[f] = x /\ \A g \in Files : g # f => row'[g] = row[g]
    BY <2>9, <2>10 DEF HistoryTypeOK
  <2>12. ~Kept(f)' /\ row'[f].state # "none"
    BY <2>9, <2>11 DEF Kept
  <2>13. RunIs(q, "cleanup", "sweep", Nothing, run[r].with, run[r].todo)
    BY <2>1, <2>3, <2>4 DEF RunIs, HistoryRun
  <2>14. HistoryRun(q) /\ \A g \in Files : ~Ticket(q, g)
    BY <2>3, <2>4, <2>13 DEF HistoryRun, RunIs, Ticket
  <2>15. \A g \in Files : row[g].expired => row'[g].expired
    BY <2>9, <2>11
  <2>16. RunSound(q)'
    BY <2>3, <2>4, <2>13, <2>15 DEF RunSound, RunIs, HistoryRun
  <2>. QED BY <2>2, <2>3, <2>6, <2>7, <2>9, <2>11, <2>12, <2>14, <2>16, MarkKeeps
<1>. QED BY <1>1, <1>2

LEMMA GetBlobKeeps ==
  ASSUME FilesInv, Watch, NEW r \in Requests, GetBlob(r), UNCHANGED groupVars
  PROVE  FilesInv'
<1>. HistoryTypeOK
  BY DEF FilesInv
<1>1. /\ Finish(r, "download", "get")
      /\ missing' = IF run[r].on \in blob THEN missing ELSE missing \cup {run[r].on}
      /\ UNCHANGED <<row, blob, group, message>>
  BY DEF GetBlob, groupVars
<1>2. Turns(r, NotStarted) /\ run[r].op = "download" /\ run[r].pc = "get"
  BY <1>1, FinishTurns
<1>3. RunSound(run[r]) /\ run[r].on \in Files
  BY <1>2, AtStatement DEF HistoryRun, Turns
<1>4. row[run[r].on].state # "none" /\ Served(run[r].on)
  BY <1>2, <1>3 DEF RunSound
<1>5. raced \subseteq raced'
  BY DEF Watch
<1>6. ASSUME NEW p \in Working, p # r PROVE RunSound(run[p])'
  <2>1. run'[p] = run[p] /\ RunSound(run[p])
    BY <1>2, <1>6, Others
  <2>. QED BY <1>1, <1>5, <2>1 DEF RunSound, Served, Kept, GroupFiles
<1>7. ASSUME NEW g \in Files
      PROVE  /\ row'[g].state = "none" => row'[g] = NoFile /\ g \notin blob' /\ g \notin missing'
             /\ g \in blob' => Kept(g)' \/ g \in raced'
             /\ Available(g)' /\ row'[g].uploaded => Served(g)'
             /\ g \in missing' => row'[g].inGroup /\ group'.retired
  <2>1. FileSound(g)
    BY DEF FilesInv
  <2>2. g \in missing' => g \in missing \/ (g = run[r].on /\ g \notin blob)
    BY <1>1
  <2>. QED BY <1>1, <1>4, <1>5, <2>1, <2>2 DEF FileSound, Kept, Available, Served
<1>8. HistoryRun(NotStarted) /\ NotStarted.op = "none" /\ \A g \in Files : ~Ticket(NotStarted, g)
  BY DEF HistoryRun, NotStarted, Ticket
<1>9. TicketsSound'
  BY <1>1, <1>2, <1>8, TicketsStay
<1>10. /\ group' \in [retired : BOOLEAN, purged : BOOLEAN] /\ message' = [m \in Messages |-> message'[m]]
       /\ missing' \subseteq Files /\ blob' \subseteq Files /\ row' \in [Files -> Rows]
       /\ \A g \in Files : row[g].state # "none" => row'[g].state # "none"
  BY <1>1, <1>3 DEF HistoryTypeOK, FilesInv
<1>. QED BY <1>2, <1>6, <1>7, <1>8, <1>9, <1>10, FilesKept

\* A run deletes the blob of a file.
LEMMA BlobGone ==
  ASSUME FilesInv, Watch, NEW r \in Requests, NEW f \in Files, NEW q, Turns(r, q), HistoryRun(q),
         RunSound(q)', \A g \in Files : ~Ticket(q, g),
         blob' = blob \ {f}, UNCHANGED <<row, missing, group, message>>,
         row[f].expired \/ (row[f].inGroup /\ group.retired)
  PROVE  FilesInv'
<1>. HistoryTypeOK
  BY DEF FilesInv
<1>1. raced \subseteq raced'
  BY DEF Watch
<1>2. \A g \in Files : ~row[g].expired /\ Served(g) => Served(g)'
  BY DEF Served
<1>3. ASSUME NEW p \in Working, p # r PROVE RunSound(run[p])'
  <2>1. run'[p] = run[p] /\ RunSound(run[p]) /\ HistoryRun(run[p])
    BY <1>3, Others
  <2>. QED BY <1>1, <1>2, <2>1 DEF RunSound, HistoryRun, Kept, GroupFiles
<1>4. ASSUME NEW g \in Files
      PROVE  /\ row'[g].state = "none" => row'[g] = NoFile /\ g \notin blob' /\ g \notin missing'
             /\ g \in blob' => Kept(g)' \/ g \in raced'
             /\ Available(g)' /\ row'[g].uploaded => Served(g)'
             /\ g \in missing' => row'[g].inGroup /\ group'.retired
  <2>1. FileSound(g)
    BY DEF FilesInv
  <2>. QED BY <1>1, <1>2, <2>1 DEF FileSound, Kept, Available
<1>5. TicketsSound'
  BY TicketsStay
<1>6. /\ group' \in [retired : BOOLEAN, purged : BOOLEAN] /\ message' = [m \in Messages |-> message'[m]]
      /\ missing' \subseteq Files /\ blob' \subseteq Files /\ row' \in [Files -> Rows]
      /\ \A g \in Files : row[g].state # "none" => row'[g].state # "none"
  BY DEF HistoryTypeOK, FilesInv
<1>. QED BY <1>3, <1>4, <1>5, <1>6, FilesKept

LEMMA DeletesKeep ==
  ASSUME FilesInv, Watch, NEW r \in Requests, NEW f \in Files
  PROVE  /\ DeleteExpired(r, f) /\ UNCHANGED groupVars => FilesInv'
         /\ DeleteBlob(r, f) => FilesInv'
<1>. HistoryTypeOK
  BY DEF FilesInv
<1>1. ASSUME DeleteExpired(r, f), UNCHANGED groupVars PROVE FilesInv'
  <2>1. PICK q : q = [run[r] EXCEPT !.pc = "mark", !.on = f, !.todo = @ \ {f}]
    OBVIOUS
  <2>2. /\ Go(r, "cleanup", "sweep", q) /\ f \in run[r].todo /\ blob' = blob \ {f}
        /\ UNCHANGED <<row, missing, group, message>>
    BY <1>1, <2>1 DEF DeleteExpired, groupVars
  <2>3. Turns(r, q) /\ run[r].op = "cleanup" /\ run[r].pc = "sweep"
    BY <2>2, GoTurns
  <2>4. HistoryRun(run[r]) /\ RunSound(run[r])
    BY <2>3, AtStatement DEF Turns
  <2>5. row[f].expired
    BY <2>2, <2>3, <2>4 DEF RunSound
  <2>6. RunIs(q, "cleanup", "mark", f, run[r].with, run[r].todo \ {f})
    BY <2>1, <2>3, <2>4 DEF RunIs, HistoryRun
  <2>7. HistoryRun(q) /\ \A g \in Files : ~Ticket(q, g)
    BY <2>3, <2>4, <2>6 DEF HistoryRun, RunIs, Ticket
  <2>8. RunSound(q)'
    BY <2>2, <2>3, <2>4, <2>5, <2>6 DEF RunSound, RunIs
  <2>. QED BY <2>2, <2>3, <2>5, <2>7, <2>8, BlobGone
<1>2. ASSUME DeleteBlob(r, f) PROVE FilesInv'
  <2>1. PICK pc, todo : pc = (IF run[r].todo = {f} THEN "mark" ELSE run[r].pc) /\ todo = run[r].todo \ {f}
    OBVIOUS
  <2>2. PICK w : w = run[r]
    OBVIOUS
  <2>3. PICK q : q = [w EXCEPT !.todo = todo, !.pc = pc]
    OBVIOUS
  <2>4. /\ Go(r, "purge", "blobs", q) /\ f \in run[r].todo /\ blob' = blob \ {f}
        /\ UNCHANGED <<row, missing, group, message>>
    BY <1>2, <2>1, <2>2, <2>3 DEF DeleteBlob, groupVars
  <2>5. Turns(r, q) /\ run[r].op = "purge" /\ run[r].pc = "blobs"
    BY <2>4, GoTurns
  <2>6. HistoryRun(run[r]) /\ RunSound(run[r])
    BY <2>5, AtStatement DEF Turns
  <2>7. row[f].inGroup /\ group.retired
    BY <2>4, <2>5, <2>6 DEF RunSound
  <2>8. RunIs(q, "purge", pc, w.on, w.with, todo)
    BY <2>2, <2>3, <2>5, <2>6 DEF RunIs, HistoryRun
  <2>9. HistoryRun(q) /\ \A g \in Files : ~Ticket(q, g)
    BY <2>1, <2>5, <2>6, <2>8 DEF HistoryRun, RunIs, Ticket
  <2>10. raced \subseteq raced' /\ GroupFiles' = GroupFiles
    BY <2>4 DEF Watch, GroupFiles, Kept
  <2>11. GroupFiles \cap blob \subseteq run[r].todo \cup raced
    BY <2>5, <2>6 DEF RunSound
  <2>12. GroupFiles' \cap blob' \subseteq todo \cup raced'
    BY <2>1, <2>4, <2>10, <2>11
  <2>13. q.op = "purge" /\ q.todo = todo /\ q.pc = pc /\ (pc = "mark" => todo = {})
    BY <2>1, <2>5, <2>8 DEF RunIs
  <2>14. \A g \in todo : row'[g].inGroup
    BY <2>1, <2>4, <2>5, <2>6 DEF RunSound
  <2>15. group'.retired
    BY <2>4, <2>7
  <2>16. RunSound(q)'
    BY <2>12, <2>13, <2>14, <2>15 DEF RunSound
  <2>. QED BY <2>4, <2>5, <2>7, <2>9, <2>16, BlobGone
<1>. QED BY <1>1, <1>2

LEMMA MarkGroupKeeps ==
  ASSUME FilesInv, Watch, NEW r \in Requests, MarkGroupFiles(r)
  PROVE  FilesInv'
<1>. HistoryTypeOK
  BY DEF FilesInv
<1>1. /\ Advance(r, "purge", "mark", "messages")
      /\ row' = [f \in Files |-> IF f \in GroupFiles THEN [row[f] EXCEPT !.state = "deleted"] ELSE row[f]]
      /\ UNCHANGED <<blob, missing, group, message>>
  BY DEF MarkGroupFiles, groupVars
<1>2. PICK q : RunIs(q, "purge", "messages", run[r].on, run[r].with, run[r].todo)
  BY DEF RunIs
<1>3. Turns(r, q) /\ run[r].op = "purge" /\ run[r].pc = "mark"
  BY <1>1, <1>2, AdvanceTurns DEF RunIs
<1>4. HistoryRun(run[r]) /\ RunSound(run[r])
  BY <1>3, AtStatement DEF Turns
<1>5. group.retired /\ run[r].todo = {} /\ GroupFiles \cap blob \subseteq raced
  BY <1>3, <1>4 DEF RunSound
<1>6. raced \subseteq raced'
  BY DEF Watch
<1>7. ASSUME NEW f \in Files
      PROVE  /\ row'[f] \in Rows /\ row'[f].inGroup = row[f].inGroup /\ row'[f].expired = row[f].expired
             /\ row'[f].uploaded = row[f].uploaded
             /\ f \in GroupFiles => row'[f].state = "deleted" /\ row[f].state = "kept" /\ row[f].inGroup
             /\ f \notin GroupFiles => row'[f] = row[f]
  <2>1. PICK x : x = [row[f] EXCEPT !.state = "deleted"]
    OBVIOUS
  <2>2. row[f] \in Rows
    BY DEF HistoryTypeOK
  <2>3. /\ x \in Rows /\ x.inGroup = row[f].inGroup /\ x.expired = row[f].expired /\ x.uploaded = row[f].uploaded
        /\ x.state = "deleted"
    BY <2>1, <2>2 DEF Rows
  <2>4. row'[f] = IF f \in GroupFiles THEN x ELSE row[f]
    BY <1>1, <2>1
  <2>. QED BY <2>2, <2>3, <2>4 DEF GroupFiles, Kept
<1>8. row' \in [Files -> Rows]
  BY <1>1, <1>7
<1>9. \A f \in Files : f \notin GroupFiles' /\ (Kept(f)' <=> Kept(f) /\ f \notin GroupFiles)
  BY <1>7 DEF GroupFiles, Kept
<1>10. GroupFiles' = {}
  BY <1>9 DEF GroupFiles
<1>11. HistoryRun(q) /\ \A g \in Files : ~Ticket(q, g)
  BY <1>2, <1>5 DEF HistoryRun, RunIs, Ticket
<1>12. RunSound(q)'
  BY <1>1, <1>2, <1>5 DEF RunSound, RunIs
<1>13. ASSUME NEW p \in Working, p # r PROVE RunSound(run[p])'
  <2>1. run'[p] = run[p] /\ HistoryRun(run[p]) /\ RunSound(run[p])
    BY <1>3, <1>13, Others
  <2>2. r \in Running("purge")'
    BY <1>2, <1>3 DEF Running, Working, Turns, RunIs
  <2>3. run[p].op = "upload" => run[p].on \in raced'
    BY <1>3, <1>13, <2>1, <2>2 DEF Watch, HistoryRun, Working, Turns
  <2>4. \A f \in Files : row[f].state # "none" => row'[f].state # "none"
    BY <1>7
  <2>5. \A f \in Files : Served(f) => Served(f)'
    BY <1>1, <1>7 DEF Served
  <2>. QED BY <1>1, <1>6, <1>7, <1>10, <2>1, <2>3, <2>4, <2>5 DEF RunSound, HistoryRun
<1>14. ASSUME NEW g \in Files
       PROVE  /\ row'[g].state = "none" => row'[g] = NoFile /\ g \notin blob' /\ g \notin missing'
              /\ g \in blob' => Kept(g)' \/ g \in raced'
              /\ Available(g)' /\ row'[g].uploaded => Served(g)'
              /\ g \in missing' => row'[g].inGroup /\ group'.retired
  <2>1. FileSound(g)
    BY DEF FilesInv
  <2>2. CASE g \in GroupFiles
    BY <1>1, <1>5, <1>6, <1>7, <1>9, <2>1, <2>2 DEF FileSound, Available
  <2>3. CASE g \notin GroupFiles
    BY <1>1, <1>6, <1>7, <2>1, <2>3 DEF FileSound, Kept, Available, Served
  <2>. QED BY <2>2, <2>3
<1>15. \A g \in Files : /\ row[g].state = "none" => row'[g].state = "none"
                        /\ row[g].state # "none" => row'[g].state # "none"
  BY <1>7
<1>16. TicketsSound'
  BY <1>3, <1>11, <1>15, TicketsStay
<1>17. /\ group' \in [retired : BOOLEAN, purged : BOOLEAN] /\ message' = [m \in Messages |-> message'[m]]
       /\ missing' \subseteq Files /\ blob' \subseteq Files
  BY <1>1 DEF HistoryTypeOK, FilesInv
<1>. QED BY <1>3, <1>8, <1>11, <1>12, <1>13, <1>14, <1>15, <1>16, <1>17, FilesKept

LEMMA ExpiresKeeps ==
  ASSUME FilesInv, Watch, NEW f \in Files, Expires(f), UNCHANGED groupVars
  PROVE  FilesInv'
<1>. HistoryTypeOK
  BY DEF FilesInv
<1>1. /\ row' = [row EXCEPT ![f].expired = TRUE] /\ Available(f) /\ \A r \in Working : run[r].on # f
      /\ UNCHANGED <<blob, missing, run, lost, group, message>>
  BY DEF Expires, workVars, groupVars
<1>2. PICK x : x = [row[f] EXCEPT !.expired = TRUE]
  OBVIOUS
<1>3. row[f] \in Rows
  BY DEF HistoryTypeOK
<1>4. /\ x \in Rows /\ x.state = "kept" /\ x.inGroup = row[f].inGroup /\ x.expired = TRUE
  BY <1>1, <1>2, <1>3 DEF Rows, Available, Kept
<1>5. row' = [row EXCEPT ![f] = x]
  BY <1>1, <1>2
<1>6. row' \in [Files -> Rows] /\ row'[f] = x /\ \A g \in Files : g # f => row'[g] = row[g]
  BY <1>4, <1>5 DEF HistoryTypeOK
<1>7. Working' = Working
  BY <1>1 DEF Working
<1>8. /\ raced \subseteq raced'
      /\ \A g \in raced' : g \in raced \/ \E p \in Working : run[p].op = "upload" /\ run[p].on = g
  BY <1>1, <1>7 DEF Watch
<1>9. GroupFiles' = GroupFiles
  BY <1>1, <1>4, <1>6 DEF GroupFiles, Kept, Available
<1>10. ASSUME NEW p \in Working' PROVE RunSound(run[p])'
  <2>1. run[p].on # f /\ HistoryRun(run[p]) /\ RunSound(run[p]) /\ run'[p] = run[p]
    BY <1>1, <1>7, <1>10 DEF FilesInv, HistoryTypeOK, Working
  <2>2. \A g \in Files : row[g].expired => row'[g].expired
    BY <1>4, <1>6
  <2>3. \A g \in Files : row'[g].inGroup = row[g].inGroup
    BY <1>4, <1>6
  <2>. QED BY <1>1, <1>6, <1>8, <1>9, <2>1, <2>2, <2>3 DEF RunSound, HistoryRun, Served, Kept
<1>11. ASSUME NEW g \in Files PROVE FileSound(g)'
  <2>1. FileSound(g) /\ (g \in raced' => g \in raced \/ row[g].state # "none")
    BY <1>8 DEF FilesInv, RunSound
  <2>2. CASE g = f
    BY <1>1, <1>4, <1>6, <1>8, <2>1, <2>2 DEF FileSound, Kept, Available
  <2>3. CASE g # f
    BY <1>1, <1>6, <1>8, <2>1, <2>3 DEF FileSound, Kept, Available, Served
  <2>. QED BY <2>2, <2>3
<1>12. TicketsSound'
  BY <1>1, <1>4, <1>6 DEF FilesInv, TicketsSound, Ticket, Available, Kept
<1>13. HistoryTypeOK' /\ missing' \subseteq Files /\ blob' \subseteq Files
  BY <1>1, <1>6 DEF HistoryTypeOK, FilesInv
<1>. QED BY <1>10, <1>11, <1>12, <1>13 DEF FilesInv

LEMMA FilesStart == WorkInit /\ FilesInit /\ LegacyInit => FilesInv
<1>. SUFFICES ASSUME WorkInit, FilesInit, LegacyInit PROVE FilesInv
  OBVIOUS
<1>1. Working = {} /\ \A r \in Requests : run[r] = NotStarted
  BY DEF WorkInit, Working, NotStarted
<1>2. HistoryRun(NotStarted) /\ NoFile \in Rows /\ NoFile.state = "none"
  BY DEF HistoryRun, NotStarted, NoFile, Rows
<1>3. HistoryTypeOK
  BY <1>1, <1>2 DEF WorkInit, FilesInit, LegacyInit, HistoryTypeOK
<1>4. \A f \in Files : FileSound(f)
  BY <1>2 DEF FilesInit, LegacyInit, FileSound, Kept, Available
<1>5. TicketsSound
  BY <1>1 DEF TicketsSound, Ticket, NotStarted
<1>. QED BY <1>1, <1>3, <1>4, <1>5 DEF FilesInv, FilesInit

LEMMA FilesStep == FilesInv /\ [LegacyNext]_legacyVars => FilesInv'
<1>. SUFFICES ASSUME FilesInv, [LegacyNext]_legacyVars PROVE FilesInv'
  OBVIOUS
<1>1. CASE UNCHANGED legacyVars
  <2>1. UNCHANGED <<row, blob, missing, run, lost, group, message, raced>>
    BY <1>1 DEF legacyVars, fileVars, storeVars, workVars, groupVars, historyVars
  <2>. QED BY <2>1 DEF FilesInv, HistoryTypeOK, TicketsSound, Ticket, FileSound, RunSound, Working, Kept, Available,
                       Served, GroupFiles
<1>2. CASE LegacyNext
  <2>1. Watch
    BY <1>2 DEF LegacyNext
  <2>2. ASSUME NEW r \in Requests, FileStep(r), UNCHANGED groupVars PROVE FilesInv'
    BY <2>1, <2>2, FilesBegin, CleanupBegins, FilesEnd, InsertKeeps, PutBlobKeeps, MarksKeep, GetBlobKeeps, DeletesKeep
       DEF FileStep
  <2>3. ASSUME NEW r \in Requests, GroupStep(r) PROVE FilesInv'
    BY <2>1, <2>3, MemberKeeps, OperatorKeeps, DeletesKeep, MarkGroupKeeps DEF GroupStep
  <2>4. ASSUME NEW r \in Requests, LoseRun(r), UNCHANGED <<storeVars, groupVars>> PROVE FilesInv'
    BY <2>1, <2>4, AsideKeeps DEF LoseRun, storeVars, groupVars
  <2>5. ASSUME NEW f \in Files, Expires(f), UNCHANGED groupVars PROVE FilesInv'
    BY <2>1, <2>5, ExpiresKeeps
  <2>6. ASSUME UNCHANGED groupVars, OtherPulse \/ (\E f \in Files : Access(f)) \/ (\E t \in token : TokenLapses(t))
        PROVE  FilesInv'
    BY <2>1, <2>6, AsideKeeps DEF OtherPulse, Access, TokenLapses, workVars, groupVars
  <2>. QED BY <1>2, <2>2, <2>3, <2>4, <2>5, <2>6 DEF LegacyNext, FilesNext
<1>. QED BY <1>1, <1>2

\* R2 and the rows agree (handlers/attachments.ts, services/cleanup.ts and
\* services/legacy-group-retirement.ts), for any files, handler runs and consumptions of
\* the queue, wherever they are cut short.
THEOREM FilesAgree == LegacySpec => []FilesAccounted
<1>1. FilesInv => FilesAccounted
  BY DEF FilesInv, FileSound, FilesAccounted, Served
<1>. QED BY <1>1, FilesStart, FilesStep, PTL DEF LegacySpec

-----------------------------------------------------------------------------
\* A purge has deleted the messages, but for those whose sends it overtook.
Emptied ==
  /\ \A m \in Messages : message[m] \in {"none", "purged"} \/ m \in outrun
  /\ \A r \in Working : run[r].op = "send" => run[r].on \in outrun

AtEnd(r) == r \in Working /\ run[r].op = "purge" /\ run[r].pc = "set"

ClosedInv ==
  /\ group.purged => group.retired
  /\ group.retired => \A r \in Working : run[r].op \in Writes => r \in early
  /\ group.purged \/ (\E r \in Requests : AtEnd(r)) => Emptied

\* Who writes after a step wrote before it, or has begun and the group is not retired.
NoNewWrites ==
  \A p \in Working' : run'[p].op \in Writes =>
    \/ p \in Working /\ run'[p].op = run[p].op /\ run'[p].on = run[p].on
    \/ ~group.retired /\ group' = group

\* A purge comes to its end by deleting the messages.
EndsByDeleting ==
  \A p \in Requests : AtEnd(p)' =>
    AtEnd(p) \/ (Deleting /\ group' = group /\ \A m \in Messages : message'[m] \in {"none", "purged"})

\* A message is changed by a write that is under way, or purged.
WrittenByWrites ==
  \A m \in Messages :
    \/ message'[m] = message[m] \/ message'[m] = "purged"
    \/ \E p \in Working : /\ run[p].op \in Writes /\ run[p].on = m
                          /\ run[p].op = "send" \/ message[m] \in {"sent", "edited"}

GroupCloses ==
  /\ group.retired => group'.retired
  /\ group'.purged => group.purged \/ \E r \in Requests : AtEnd(r)

Closing == NoNewWrites /\ EndsByDeleting /\ WrittenByWrites /\ GroupCloses

\* A run goes on, or is over, and neither begins to write nor comes to the end of a purge.
LEMMA PlainTurn ==
  ASSUME HistoryTypeOK, NEW r \in Requests, NEW q, Turns(r, q),
         \/ q.op \notin Writes \cup {"purge"}
         \/ q.op \in Writes /\ q.op = run[r].op /\ q.on = run[r].on
         \/ q.op = "purge" /\ q.pc # "set"
  PROVE  NoNewWrites /\ EndsByDeleting
<1>1. \A p \in Working' : p # r => p \in Working /\ run'[p] = run[p]
  BY DEF Turns, Working
<1>2. r \in Working' => run'[r] = q /\ r \in Requests \ lost
  BY DEF Turns, Working
<1>3. run[r].op \in Writes => run[r].pc # "idle"
  BY DEF HistoryTypeOK, HistoryRun, Writes
<1>4. NoNewWrites
  BY <1>1, <1>2, <1>3 DEF NoNewWrites, Working, Writes
<1>5. EndsByDeleting
  BY <1>1, <1>2 DEF EndsByDeleting, AtEnd, Writes
<1>. QED BY <1>4, <1>5

\* A step of no run.
LEMMA PlainAside ==
  ASSUME run' = run, lost \subseteq lost', UNCHANGED groupVars
  PROVE  Closing
BY DEF Closing, NoNewWrites, EndsByDeleting, WrittenByWrites, GroupCloses, AtEnd, Working, groupVars

LEMMA PlainGroup ==
  ASSUME UNCHANGED groupVars
  PROVE  WrittenByWrites /\ GroupCloses
BY DEF WrittenByWrites, GroupCloses, groupVars

LEMMA PlainBegin ==
  ASSUME HistoryTypeOK, NEW r \in Requests, NEW op, NEW pc, NEW on, NEW with, Begin(r, op, pc, on, with),
         op \notin Writes, op = "purge" => pc # "set"
  PROVE  NoNewWrites /\ EndsByDeleting
<1>1. PICK q : RunIs(q, op, pc, on, with, {})
  BY DEF RunIs
<1>2. Turns(r, q) /\ q.op = op /\ q.pc = pc
  BY <1>1, BeginTurns DEF RunIs
<1>. QED BY <1>2, PlainTurn

LEMMA PlainAdvance ==
  ASSUME HistoryTypeOK, NEW r \in Requests, NEW op, NEW from, NEW to, Advance(r, op, from, to),
         op = "purge" => to # "set"
  PROVE  NoNewWrites /\ EndsByDeleting
<1>1. PICK q : RunIs(q, op, to, run[r].on, run[r].with, run[r].todo)
  BY DEF RunIs
<1>2. Turns(r, q) /\ run[r].op = op /\ q.op = op /\ q.pc = to /\ q.on = run[r].on
  BY <1>1, AdvanceTurns DEF RunIs
<1>. QED BY <1>2, PlainTurn

LEMMA PlainFinish ==
  ASSUME HistoryTypeOK, NEW r \in Requests, NEW op, NEW from, Finish(r, op, from)
  PROVE  NoNewWrites /\ EndsByDeleting
BY FinishTurns, PlainTurn DEF NotStarted, Writes

LEMMA FilesClose ==
  ASSUME FilesInv, NEW r \in Requests, FileStep(r), UNCHANGED groupVars
  PROVE  Closing
<1>. HistoryTypeOK /\ WrittenByWrites /\ GroupCloses
  BY PlainGroup DEF FilesInv
<1>1. ASSUME NEW f \in Files, NEW g \in BOOLEAN, BeginTicket(r, f, g) \/ BeginUpload(r, f) \/ BeginDownload(r, f)
      PROVE  NoNewWrites /\ EndsByDeleting
  <2>1. \/ Begin(r, "ticket", "insert", f, g) \/ Begin(r, "upload", "put", f, Nothing)
        \/ Begin(r, "download", "get", f, Nothing)
    BY <1>1 DEF BeginTicket, BeginUpload, BeginDownload
  <2>. QED BY <2>1, PlainBegin DEF Writes
<1>2. ASSUME NEW f \in Files, DeleteExpired(r, f) PROVE NoNewWrites /\ EndsByDeleting
  <2>1. PICK q : q = [run[r] EXCEPT !.pc = "mark", !.on = f, !.todo = @ \ {f}]
    OBVIOUS
  <2>2. Go(r, "cleanup", "sweep", q)
    BY <1>2, <2>1 DEF DeleteExpired
  <2>3. Turns(r, q) /\ run[r].op = "cleanup" /\ HistoryRun(run[r])
    BY <2>2, GoTurns DEF HistoryTypeOK
  <2>4. q.op = "cleanup"
    BY <2>1, <2>3 DEF HistoryRun
  <2>. QED BY <2>3, <2>4, PlainTurn DEF Writes
<1>3. ASSUME InsertFile(r) \/ PutBlob(r) PROVE NoNewWrites /\ EndsByDeleting
  <2>1. Advance(r, "ticket", "insert", "pulse") \/ Advance(r, "upload", "put", "mark")
    BY <1>3 DEF InsertFile, PutBlob
  <2>. QED BY <2>1, PlainAdvance
<1>4. ASSUME AnswerTicket(r) \/ MarkUploaded(r) \/ GetBlob(r) \/ Ack(r) \/ FailCleanup(r)
      PROVE  NoNewWrites /\ EndsByDeleting
  <2>1. \E op \in {"ticket", "upload", "download", "cleanup"}, from \in {"pulse", "mark", "get", "sweep"} :
          Finish(r, op, from)
    BY <1>4 DEF AnswerTicket, MarkUploaded, GetBlob, Ack, FailCleanup
  <2>. QED BY <2>1, PlainFinish
<1>5. ASSUME BeginCleanup(r) PROVE NoNewWrites /\ EndsByDeleting
  <2>1. PICK q : q = [NotStarted EXCEPT !.op = "cleanup", !.pc = "sweep", !.todo = Expired]
    OBVIOUS
  <2>2. Turns(r, q)
    BY <1>5, <2>1 DEF BeginCleanup, HistoryTypeOK, Turns
  <2>3. q.op = "cleanup"
    BY <2>1 DEF NotStarted
  <2>. QED BY <2>2, <2>3, PlainTurn DEF Writes
<1>6. ASSUME MarkExpired(r) PROVE NoNewWrites /\ EndsByDeleting
  <2>1. PICK q : q = [run[r] EXCEPT !.pc = "sweep", !.on = Nothing]
    OBVIOUS
  <2>2. Go(r, "cleanup", "mark", q)
    BY <1>6, <2>1 DEF MarkExpired
  <2>3. Turns(r, q) /\ run[r].op = "cleanup" /\ HistoryRun(run[r])
    BY <2>2, GoTurns DEF HistoryTypeOK
  <2>4. q.op = "cleanup"
    BY <2>1, <2>3 DEF HistoryRun
  <2>. QED BY <2>3, <2>4, PlainTurn DEF Writes
<1>7. NoNewWrites /\ EndsByDeleting
  BY <1>1, <1>2, <1>3, <1>4, <1>5, <1>6 DEF FileStep
<1>. QED BY <1>7 DEF Closing

\* A write is over, and may have changed its message.
LEMMA WriteEnds ==
  ASSUME FilesInv, NEW r \in Requests, RefuseAttachment(r) \/ AppendMessage(r) \/ ChangeMessage(r)
  PROVE  Closing
<1>. HistoryTypeOK
  BY DEF FilesInv
<1>1. PICK op \in Writes, from \in {"attach", "append", "write"} : Finish(r, op, from)
  BY DEF RefuseAttachment, AppendMessage, ChangeMessage, Writes
<1>2. NoNewWrites /\ EndsByDeleting
  BY <1>1, PlainFinish
<1>3. r \in Working
  <2>1. r \notin lost /\ run[r].op # "none" /\ HistoryRun(run[r])
    BY <1>1 DEF Finish, Go, At, Writes, HistoryTypeOK
  <2>. QED BY <2>1 DEF Working, HistoryRun
<1>4. WrittenByWrites
  <2>1. CASE RefuseAttachment(r)
    BY <2>1 DEF RefuseAttachment, WrittenByWrites, groupVars
  <2>2. CASE AppendMessage(r)
    <3>1. run[r].op = "send" /\ message' = [message EXCEPT ![run[r].on] = "sent"]
      BY <2>2 DEF AppendMessage, Finish, Go, At
    <3>2. \A m \in Messages : m # run[r].on => message'[m] = message[m]
      BY <3>1 DEF HistoryTypeOK
    <3>. QED BY <1>3, <3>1, <3>2 DEF WrittenByWrites, Writes
  <2>3. CASE ChangeMessage(r)
    <3>1. run[r].op \in Writes /\ \A m \in Messages : message'[m] = message[m] \/ (m = run[r].on /\ Shown(m))
      <4>1. run[r].op \in {"edit", "delete"}
        BY <2>3 DEF ChangeMessage, Finish, Go, At
      <4>2. \/ message' = message
            \/ Shown(run[r].on) /\ \E v : message' = [message EXCEPT ![run[r].on] = v]
        BY <2>3 DEF ChangeMessage
      <4>. QED BY <4>1, <4>2 DEF HistoryTypeOK, Writes
    <3>. QED BY <1>3, <3>1 DEF WrittenByWrites, Shown
  <2>. QED BY <2>1, <2>2, <2>3
<1>5. GroupCloses
  BY DEF RefuseAttachment, AppendMessage, ChangeMessage, GroupCloses, groupVars
<1>. QED BY <1>2, <1>4, <1>5 DEF Closing

LEMMA WriteBegins ==
  ASSUME FilesInv, NEW r \in Requests, NEW op \in Writes, NEW pc, NEW on, NEW with,
         Begin(r, op, pc, on, with), ~group.retired, UNCHANGED groupVars
  PROVE  Closing
<1>. HistoryTypeOK /\ WrittenByWrites /\ GroupCloses
  BY PlainGroup DEF FilesInv
<1>1. PICK q : RunIs(q, op, pc, on, with, {})
  BY DEF RunIs
<1>2. Turns(r, q) /\ q.op = op
  BY <1>1, BeginTurns DEF RunIs
<1>3. NoNewWrites
  BY DEF NoNewWrites, groupVars
<1>4. EndsByDeleting
  BY <1>2 DEF EndsByDeleting, AtEnd, Turns, Working, Writes
<1>. QED BY <1>3, <1>4 DEF Closing

LEMMA GroupClose ==
  ASSUME FilesInv, NEW r \in Requests, GroupStep(r)
  PROVE  Closing
<1>. HistoryTypeOK
  BY DEF FilesInv
<1>1. ASSUME NEW m \in Messages, NEW f \in Files \cup {Nothing}, BeginSend(r, m, f) PROVE Closing
  BY <1>1, WriteBegins DEF BeginSend, OpenToWrites, Writes
<1>2. ASSUME NEW m \in Messages, NEW op \in {"edit", "delete"}, BeginChange(r, op, m) PROVE Closing
  BY <1>2, WriteBegins DEF BeginChange, Writes
<1>3. ASSUME ReadAttachment(r) PROVE Closing
  BY <1>3, PlainAdvance, PlainGroup DEF ReadAttachment, Closing
<1>4. ASSUME BeginRetire(r) \/ BeginPurge(r) PROVE Closing
  <2>1. UNCHANGED groupVars /\ (Begin(r, "retire", "set", Nothing, Nothing) \/ Begin(r, "purge", "list", Nothing, Nothing))
    BY <1>4 DEF BeginRetire, BeginPurge
  <2>2. NoNewWrites /\ EndsByDeleting
    BY <2>1, PlainBegin DEF Writes
  <2>. QED BY <2>1, <2>2, PlainGroup DEF Closing
<1>5. ASSUME SetRetired(r) \/ SetPurged(r) PROVE Closing
  <2>1. message' = message /\ (Finish(r, "retire", "set") \/ Finish(r, "purge", "set"))
    BY <1>5 DEF SetRetired, SetPurged
  <2>2. NoNewWrites /\ EndsByDeleting
    BY <2>1, PlainFinish
  <2>3. GroupCloses
    <3>1. CASE SetRetired(r)
      BY <3>1 DEF SetRetired, GroupCloses, HistoryTypeOK
    <3>2. CASE SetPurged(r)
      <4>1. AtEnd(r)
        BY <3>2 DEF SetPurged, Finish, Go, At, AtEnd, Working
      <4>2. group'.retired = group.retired
        BY <3>2 DEF SetPurged, HistoryTypeOK
      <4>. QED BY <4>1, <4>2 DEF GroupCloses
    <3>. QED BY <1>5, <3>1, <3>2
  <2>4. WrittenByWrites
    BY <2>1 DEF WrittenByWrites
  <2>. QED BY <2>2, <2>3, <2>4 DEF Closing
<1>6. ASSUME ListFiles(r) PROVE Closing
  <2>1. PICK g, pc : g = GroupFiles /\ pc = IF GroupFiles = {} THEN "messages" ELSE "blobs"
    OBVIOUS
  <2>2. PICK q : q = [run[r] EXCEPT !.todo = g, !.pc = pc]
    OBVIOUS
  <2>3. Go(r, "purge", "list", q) /\ UNCHANGED groupVars
    BY <1>6, <2>1, <2>2 DEF ListFiles
  <2>4. Turns(r, q) /\ run[r].op = "purge" /\ HistoryRun(run[r])
    BY <2>3, GoTurns DEF HistoryTypeOK
  <2>5. q.op = "purge" /\ q.pc # "set"
    BY <2>1, <2>2, <2>4 DEF HistoryRun
  <2>. QED BY <2>3, <2>4, <2>5, PlainTurn, PlainGroup DEF Closing
<1>7. ASSUME NEW f \in Files, DeleteBlob(r, f) PROVE Closing
  <2>1. PICK pc, todo : pc = (IF run[r].todo = {f} THEN "mark" ELSE run[r].pc) /\ todo = run[r].todo \ {f}
    OBVIOUS
  <2>2. PICK w : w = run[r]
    OBVIOUS
  <2>3. PICK q : q = [w EXCEPT !.todo = todo, !.pc = pc]
    OBVIOUS
  <2>4. Go(r, "purge", "blobs", q) /\ UNCHANGED groupVars
    BY <1>7, <2>1, <2>2, <2>3 DEF DeleteBlob
  <2>5. Turns(r, q) /\ run[r].op = "purge" /\ run[r].pc = "blobs" /\ HistoryRun(w)
    BY <2>2, <2>4, GoTurns DEF HistoryTypeOK
  <2>6. q.op = "purge" /\ q.pc = pc
    BY <2>2, <2>3, <2>5 DEF HistoryRun
  <2>7. q.op = "purge" /\ q.pc # "set"
    BY <2>1, <2>5, <2>6
  <2>. QED BY <2>4, <2>5, <2>7, PlainTurn, PlainGroup DEF Closing
<1>8. ASSUME MarkGroupFiles(r) PROVE Closing
  BY <1>8, PlainAdvance, PlainGroup DEF MarkGroupFiles, Closing
<1>9. ASSUME DeleteMessages(r) PROVE Closing
  <2>1. /\ Advance(r, "purge", "messages", "set") /\ group' = group
        /\ message' = [m \in Messages |-> IF message[m] = "none" THEN "none" ELSE "purged"]
    BY <1>9 DEF DeleteMessages
  <2>2. PICK q : RunIs(q, "purge", "set", run[r].on, run[r].with, run[r].todo)
    BY DEF RunIs
  <2>3. Turns(r, q) /\ run[r].op = "purge" /\ run[r].pc = "messages" /\ q.op = "purge" /\ q.pc = "set"
    BY <2>1, <2>2, AdvanceTurns DEF RunIs
  <2>4. Deleting
    BY <2>3 DEF Deleting, Turns
  <2>5. EndsByDeleting
    BY <2>1, <2>4 DEF EndsByDeleting
  <2>6. NoNewWrites
    BY <2>3 DEF NoNewWrites, Turns, Working, Writes
  <2>7. WrittenByWrites /\ GroupCloses
    BY <2>1 DEF WrittenByWrites, GroupCloses
  <2>. QED BY <2>5, <2>6, <2>7 DEF Closing
<1>. QED BY <1>1, <1>2, <1>3, <1>4, <1>5, <1>6, <1>7, <1>8, <1>9, WriteEnds DEF GroupStep

LEMMA LegacyClosing == FilesInv /\ [LegacyNext]_legacyVars => Closing
<1>. SUFFICES ASSUME FilesInv, [LegacyNext]_legacyVars PROVE Closing
  OBVIOUS
<1>1. CASE UNCHANGED legacyVars
  BY <1>1, PlainAside DEF legacyVars, fileVars, workVars
<1>2. CASE LegacyNext
  <2>1. ASSUME NEW r \in Requests, LoseRun(r), UNCHANGED groupVars PROVE Closing
    BY <2>1, PlainAside DEF LoseRun
  <2>2. ASSUME UNCHANGED groupVars,
               \/ \E f \in Files : Access(f) \/ Expires(f)
               \/ \E t \in token : TokenLapses(t)
               \/ OtherPulse
        PROVE  Closing
    BY <2>2, PlainAside DEF OtherPulse, Access, TokenLapses, Expires, workVars
  <2>. QED BY <1>2, <2>1, <2>2, FilesClose, GroupClose DEF LegacyNext, FilesNext, groupVars
<1>. QED BY <1>1, <1>2

LEMMA ClosedStep == FilesInv /\ ClosedInv /\ [LegacyNext]_legacyVars => ClosedInv'
<1>. SUFFICES ASSUME FilesInv, ClosedInv, [LegacyNext]_legacyVars PROVE ClosedInv'
  OBVIOUS
<1>1. Closing
  BY LegacyClosing
<1>2. \/ Watch
      \/ run' = run /\ lost' = lost /\ UNCHANGED <<group, message, early, outrun>>
  BY DEF LegacyNext, legacyVars, fileVars, workVars, groupVars, historyVars
<1>3. \A r \in Requests : AtEnd(r) => group.retired
  BY DEF FilesInv, RunSound, AtEnd
<1>4. group'.purged => group'.retired
  BY <1>1, <1>3 DEF Closing, GroupCloses, ClosedInv
<1>5. ASSUME group'.retired, NEW r \in Working', run'[r].op \in Writes PROVE r \in early'
  <2>1. CASE Watch
    <3>1. r \in Working /\ run[r].op = run'[r].op
      BY <1>1, <1>5 DEF Closing, NoNewWrites
    <3>2. CASE group.retired
      BY <1>5, <2>1, <3>1, <3>2 DEF Watch, ClosedInv
    <3>3. CASE ~group.retired
      <4>1. r \in UNION {Running(op) : op \in Writes}
        BY <1>5, <3>1 DEF Running
      <4>. QED BY <1>5, <2>1, <3>3, <4>1 DEF Watch
    <3>. QED BY <3>2, <3>3
  <2>2. CASE run' = run /\ lost' = lost /\ UNCHANGED <<group, message, early, outrun>>
    BY <1>5, <2>2 DEF ClosedInv, Working
  <2>. QED BY <1>2, <2>1, <2>2
<1>6. ASSUME group'.purged \/ \E r \in Requests : AtEnd(r)' PROVE Emptied'
  <2>1. CASE run' = run /\ lost' = lost /\ UNCHANGED <<group, message, early, outrun>>
    BY <1>6, <2>1 DEF ClosedInv, Emptied, AtEnd, Working
  <2>2. CASE Watch /\ (group.purged \/ \E r \in Requests : AtEnd(r))
    <3>1. Emptied /\ group.retired
      BY <1>3, <2>2 DEF ClosedInv
    <3>2. outrun \subseteq outrun'
      BY <2>2 DEF Watch
    <3>3. \A r \in Working' : run'[r].op = "send" => r \in Working /\ run[r].op = "send" /\ run'[r].on = run[r].on
      BY <1>1, <3>1 DEF Closing, NoNewWrites, Writes
    <3>4. ASSUME NEW m \in Messages PROVE message'[m] \in {"none", "purged"} \/ m \in outrun'
      <4>1. message[m] \in {"none", "purged"} \/ m \in outrun
        BY <3>1 DEF Emptied
      <4>2. \/ message'[m] = message[m] \/ message'[m] = "purged"
            \/ \E p \in Working : /\ run[p].op \in Writes /\ run[p].on = m
                                  /\ run[p].op = "send" \/ message[m] \in {"sent", "edited"}
        BY <1>1 DEF Closing, WrittenByWrites
      <4>3. \A p \in Working : run[p].op = "send" /\ run[p].on = m => m \in outrun
        BY <3>1 DEF Emptied
      <4>. QED BY <3>2, <4>1, <4>2, <4>3
    <3>. QED BY <3>1, <3>2, <3>3, <3>4 DEF Emptied
  <2>3. CASE Watch /\ ~group.purged /\ ~\E r \in Requests : AtEnd(r)
    <3>1. Deleting /\ group' = group /\ \A m \in Messages : message'[m] \in {"none", "purged"}
      BY <1>1, <1>6, <2>3 DEF Closing, GroupCloses, EndsByDeleting
    <3>2. group.retired
      <4>1. PICK r \in Requests : run[r].pc = "messages" /\ run'[r].pc = "set"
        BY <3>1 DEF Deleting
      <4>2. \E p \in Requests : AtEnd(p)'
        BY <1>6, <2>3, <3>1
      <4>. QED BY <1>3, <1>6, <3>1, <4>2, FilesStep DEF FilesInv, RunSound, AtEnd
    <3>3. \A r \in Working' : run'[r].op = "send" => r \in Working /\ run[r].op = "send" /\ run'[r].on = run[r].on
      BY <1>1, <3>2 DEF Closing, NoNewWrites, Writes
    <3>4. \A r \in Working : run[r].op = "send" => run[r].on \in outrun'
      BY <2>3, <3>1 DEF Watch, Running
    <3>. QED BY <3>1, <3>3, <3>4 DEF Emptied
  <2>. QED BY <1>2, <2>1, <2>2, <2>3
<1>. QED BY <1>4, <1>5, <1>6 DEF ClosedInv

LEMMA ClosedStart == WorkInit /\ FilesInit /\ LegacyInit => ClosedInv
BY DEF WorkInit, LegacyInit, ClosedInv, AtEnd, Working, NotStarted

\* What a retired group shows is changed by requests that were under way when it was
\* retired, and by its purge.
LEMMA FrozenStep == FilesInv /\ ClosedInv /\ [LegacyNext]_legacyVars => Frozen
<1>. SUFFICES ASSUME FilesInv, ClosedInv, [LegacyNext]_legacyVars, group.retired,
                     NEW m \in Messages, message'[m] # message[m], message'[m] # "purged"
              PROVE  \E r \in early : run[r].on = m
  BY DEF Frozen
<1>1. \E p \in Working : run[p].op \in Writes /\ run[p].on = m
  BY LegacyClosing DEF Closing, WrittenByWrites
<1>. QED BY <1>1 DEF ClosedInv

\* A legacy group that is purged has no message, and one that is retired changes only by
\* its purge (services/legacy-group-retirement.ts), but for requests that were already
\* under way, for any messages and handler runs, wherever they are cut short.
THEOREM GroupStaysClosed == LegacySpec => LegacyCloses
<1>1. ClosedInv => PurgedIsEmpty
  BY DEF ClosedInv, Emptied, PurgedIsEmpty
<1>2. WorkInit /\ FilesInit /\ LegacyInit => FilesInv /\ ClosedInv
  BY FilesStart, ClosedStart
<1>3. FilesInv /\ ClosedInv /\ [LegacyNext]_legacyVars => FilesInv' /\ ClosedInv'
  BY FilesStep, ClosedStep
<1>4. FilesInv /\ ClosedInv /\ [LegacyNext]_legacyVars => [PurgedIsEmpty' /\ Frozen]_legacyVars
  <2>1. ClosedInv' => PurgedIsEmpty'
    BY DEF ClosedInv, Emptied, PurgedIsEmpty
  <2>. QED BY <1>3, <2>1, FrozenStep
<1>. QED BY <1>2, <1>3, <1>4, PTL DEF LegacySpec, LegacyCloses
=============================================================================
