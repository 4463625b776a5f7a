---------------------------- MODULE SignInProofs ----------------------------
(***************************************************************************)
(* Theorems of SignIn for every number of accounts, links, devices,         *)
(* sessions, tokens and requests.  Whoever completes a magic link gets a    *)
(* session of the account that the link's email names, and no account is    *)
(* made without a voucher, whatever runs beside it; a device link leads     *)
(* into the account whose device approved it; each door opens as often as   *)
(* its users overlap, no more; and what was ended stays out.                *)
(***************************************************************************)
EXTENDS SignIn, FiniteSetTheorems, TLAPS

-----------------------------------------------------------------------------
(* The records.  A variable holds records of the same fields, whose values  *)
(* are of no common type.                                                   *)

IsRun(x) == x = [op |-> x.op, pc |-> x.pc, by |-> x.by, on |-> x.on,
                 account |-> x.account, seen |-> x.seen]
IsSession(x) == x = [account |-> x.account, revoked |-> x.revoked, age |-> x.age]
IsLink(x) == x = [email |-> x.email, via |-> x.via, state |-> x.state]

RunsOK == run = [r \in Requests |-> run[r]] /\ \A r \in Requests : IsRun(run[r])
SessionsOK ==
  /\ session = [s \in DOMAIN session |-> session[s]]
  /\ \A s \in DOMAIN session : IsSession(session[s])
LinksOK == challenge = [l \in Links |-> challenge[l]] /\ \A l \in Links : IsLink(challenge[l])
CircleOK == circle = [uses |-> circle.uses, open |-> circle.open, joined |-> circle.joined]

\* Run x when it has gone on to pc, with an account and something it has seen.
Moved(x, pc, account, seen) ==
  [op |-> x.op, pc |-> pc, by |-> x.by, on |-> x.on, account |-> account, seen |-> seen]

\* Only run r changes, to x.
Becomes(r, x) == run'[r] = x /\ \A q \in Requests \ {r} : run'[q] = run[q]

\* A record of a run after a change of one field.
LEMMA RunField ==
  ASSUME NEW x, IsRun(x), NEW v
  PROVE  /\ [x EXCEPT !.pc = v] = Moved(x, v, x.account, x.seen)
         /\ [x EXCEPT !.seen = v] = Moved(x, x.pc, x.account, v)
         /\ [x EXCEPT !.account = v] = Moved(x, x.pc, v, x.seen)
<1>1. [x EXCEPT !.pc = v] = Moved(x, v, x.account, x.seen)
  BY DEF IsRun, Moved
<1>2. [x EXCEPT !.seen = v] = Moved(x, x.pc, x.account, v)
  BY DEF IsRun, Moved
<1>3. [x EXCEPT !.account = v] = Moved(x, x.pc, v, x.seen)
  BY DEF IsRun, Moved
<1>. QED BY <1>1, <1>2, <1>3

\* After a change of several.
LEMMA SeenField ==
  ASSUME NEW x, IsRun(x), NEW v, NEW w
  PROVE  [x EXCEPT !.pc = v, !.seen = w] = Moved(x, v, x.account, w)
<1>. DEFINE placed == [x EXCEPT !.pc = v]
<1>1. IsRun(placed) /\ placed = Moved(x, v, x.account, x.seen)
  BY RunField DEF IsRun, Moved
<1>2. [x EXCEPT !.pc = v, !.seen = w] = [placed EXCEPT !.seen = w]
  OBVIOUS
<1>. HIDE DEF placed
<1>3. [placed EXCEPT !.seen = w] = Moved(x, v, x.account, w)
  BY <1>1, RunField DEF Moved
<1>. QED BY <1>2, <1>3

LEMMA AccountField ==
  ASSUME NEW x, IsRun(x), NEW v, NEW a
  PROVE  [x EXCEPT !.account = a, !.pc = v] = Moved(x, v, a, x.seen)
<1>. DEFINE owned == [x EXCEPT !.account = a]
<1>1. IsRun(owned) /\ owned = Moved(x, x.pc, a, x.seen)
  BY RunField DEF IsRun, Moved
<1>2. [x EXCEPT !.account = a, !.pc = v] = [owned EXCEPT !.pc = v]
  OBVIOUS
<1>. HIDE DEF owned
<1>3. [owned EXCEPT !.pc = v] = Moved(x, v, a, x.seen)
  BY <1>1, RunField DEF Moved
<1>. QED BY <1>2, <1>3

LEMMA KeyFields ==
  ASSUME NEW x, IsRun(x), NEW v, NEW w, NEW a
  PROVE  [x EXCEPT !.pc = v, !.seen = w, !.account = a] = Moved(x, v, a, w)
<1>. DEFINE aware == [x EXCEPT !.pc = v, !.seen = w]
<1>1. aware = Moved(x, v, x.account, w)
  BY SeenField
<1>2. [x EXCEPT !.pc = v, !.seen = w, !.account = a] = [aware EXCEPT !.account = a]
  OBVIOUS
<1>. HIDE DEF aware
<1>3. IsRun(aware)
  BY <1>1 DEF IsRun, Moved
<1>4. [aware EXCEPT !.account = a] = Moved(x, v, a, w)
  BY <1>1, <1>3, RunField DEF Moved
<1>. QED BY <1>2, <1>4

\* The same of a link, a session.
LEMMA LinkFields ==
  ASSUME NEW x, IsLink(x), NEW v
  PROVE  [x EXCEPT !.state = v] = [email |-> x.email, via |-> x.via, state |-> v]
BY DEF IsLink

LEMMA SessionFields ==
  ASSUME NEW x, IsSession(x), NEW v
  PROVE  /\ [x EXCEPT !.age = v] = [account |-> x.account, revoked |-> x.revoked, age |-> v]
         /\ [x EXCEPT !.revoked = v] = [account |-> x.account, revoked |-> v, age |-> x.age]
BY DEF IsSession

\* What Begin, Advance and Finish do to the table of runs.
LEMMA ReplaceRun ==
  ASSUME RunsOK, NEW r \in Requests, NEW x, IsRun(x), run' = [run EXCEPT ![r] = x]
  PROVE  RunsOK' /\ Becomes(r, x)
<1>1. run' = [q \in Requests |-> IF q = r THEN x ELSE run[q]]
  BY DEF RunsOK
<1>2. run'[r] = x /\ \A q \in Requests \ {r} : run'[q] = run[q]
  BY <1>1
<1>3. run' = [q \in Requests |-> run'[q]]
  BY <1>1
<1>4. \A q \in Requests : IsRun(run'[q])
  BY <1>2 DEF RunsOK
<1>. QED BY <1>2, <1>3, <1>4 DEF RunsOK, Becomes

LEMMA BeginRun ==
  ASSUME RunsOK, NEW r \in Requests, NEW op, NEW pc, NEW by, NEW on, NEW account, NEW seen,
         Begin(r, op, pc, by, on, account, seen)
  PROVE  /\ RunsOK' /\ run[r].pc = "idle"
         /\ Becomes(r, [op |-> op, pc |-> pc, by |-> by, on |-> on,
                        account |-> account, seen |-> seen])
<1>. DEFINE x == [op |-> op, pc |-> pc, by |-> by, on |-> on, account |-> account, seen |-> seen]
<1>1. IsRun(x)
  BY DEF IsRun
<1>2. run' = [run EXCEPT ![r] = x] /\ run[r].pc = "idle"
  BY DEF Begin
<1>. HIDE DEF x
<1>3. RunsOK' /\ Becomes(r, x)
  BY <1>1, <1>2, ReplaceRun
<1>. QED BY <1>2, <1>3 DEF x

LEMMA AdvanceRun ==
  ASSUME RunsOK, NEW r \in Requests, NEW op, NEW from, NEW to, Advance(r, op, from, to)
  PROVE  /\ RunsOK' /\ run[r].op = op /\ run[r].pc = from
         /\ Becomes(r, Moved(run[r], to, run[r].account, run[r].seen))
<1>. DEFINE x == Moved(run[r], to, run[r].account, run[r].seen)
<1>1. IsRun(x)
  BY DEF IsRun, Moved
<1>2. IsRun(run[r]) /\ run[r].op = op /\ run[r].pc = from
  BY DEF RunsOK, Advance, At
<1>3. run' = [run EXCEPT ![r] = [run[r] EXCEPT !.pc = to]]
  BY DEF Advance, RunsOK
<1>4. [run[r] EXCEPT !.pc = to] = x
  BY <1>2, RunField
<1>. HIDE DEF x
<1>5. RunsOK' /\ Becomes(r, x)
  BY <1>1, <1>3, <1>4, ReplaceRun
<1>. QED BY <1>2, <1>5 DEF x

LEMMA FinishRun ==
  ASSUME RunsOK, NEW r \in Requests, NEW op, NEW from, Finish(r, op, from)
  PROVE  RunsOK' /\ run[r].op = op /\ run[r].pc = from /\ Becomes(r, NotStarted)
<1>1. IsRun(NotStarted)
  BY DEF IsRun, NotStarted
<1>. QED BY <1>1, ReplaceRun DEF Finish, At

-----------------------------------------------------------------------------
(* The inductive invariant.  What a completion will answer is right at each *)
(* of its statements: from the one that finds the account on, the account   *)
(* is the email's owner, and stays it.                                      *)

\* Only a link that something vouches for has an email nobody owns.
AskedRight(l) ==
  challenge[l].state # "idle" /\ challenge[l].via = "none" => Known(challenge[l].email)

Undecided == {"account", "email"}
Settled == {"circle", "count", "consume", "session", "done"}
PastCircle == {"consume", "session", "done"}

\* A completion r, at each of its statements.
OnLink(r) ==
  CompletedBy(r) =>
    /\ run[r].pc \in Undecided \cup Settled \cup {"refused"}
    /\ run[r].on \in Links /\ Link(r).state \in {"open", "used", "lapsed"}
    /\ run[r].pc \in Undecided => r \notin Range(owner)
    /\ run[r].pc = "email" => run[r].account = r /\ Link(r).via # "none"
    /\ run[r].pc = "count" => Link(r).via = "beta"

\* Its account is the owner of its email, and one that joined the circle if the
\* link was asked for with the circle's invite.
Owned(r) ==
  CompletedBy(r) /\ run[r].pc \in Settled =>
    Known(Link(r).email) /\ run[r].account = owner[Link(r).email]
Joined(r) ==
  CompletedBy(r) /\ run[r].pc \in PastCircle /\ Link(r).via = "circle" =>
    run[r].account \in circle.joined

\* An account named r was made by completion r of a link with a voucher.
Made(r) == r \in Range(owner) => CompletedBy(r) /\ Link(r).via # "none"

\* A session named r was opened by a door, which is through with it.
Through(r) ==
  r \in DOMAIN session =>
    /\ \/ run[r].op \in {"complete", "finish", "verify"} /\ run[r].pc = "done"
       \/ run[r].op = "finish" /\ run[r].pc = "consume"
    /\ CompletedBy(r) => session[r].account = run[r].account

FieldsOK == RunsOK /\ SessionsOK /\ LinksOK /\ CircleOK
RunInv(r) == OnLink(r) /\ Owned(r) /\ Joined(r) /\ Made(r) /\ Through(r)

MailInv ==
  /\ FieldsOK
  /\ \A l \in Links : AskedRight(l)
  /\ \A r \in Requests : RunInv(r)

LEMMA MailInit == SignInInit => MailInv
<1>. SUFFICES ASSUME SignInInit PROVE MailInv
  OBVIOUS
<1>. USE DEF SignInInit, Init, LinkInit
<1>1. RunsOK /\ \A r \in Requests : run[r].op = "none"
  BY DEF RunsOK, IsRun, NotStarted
<1>2. SessionsOK /\ LinksOK /\ CircleOK
  BY DEF SessionsOK, IsSession, LinksOK, IsLink, NoLink, CircleOK
<1>3. \A r \in Requests : r \notin Range(owner) /\ r \notin DOMAIN session
  BY SessionsAssumption, MagicLinksAssumption DEF Range
<1>4. \A l \in Links : challenge[l].state = "idle"
  BY DEF NoLink
<1>5. \A r \in Requests : RunInv(r)
  BY <1>1, <1>3 DEF RunInv, OnLink, Owned, Joined, Made, Through, CompletedBy
<1>. QED BY <1>1, <1>2, <1>4, <1>5 DEF MailInv, FieldsOK, AskedRight

LEMMA MailImplies == MailInv => NewcomersVouched /\ SignedInAsOwner
<1>. SUFFICES ASSUME MailInv PROVE NewcomersVouched /\ SignedInAsOwner
  OBVIOUS
<1>1. \A r \in Newcomers : challenge[run[r].on].via # "none"
  BY DEF MailInv, RunInv, Newcomers, Made, Link
<1>2. ASSUME NEW l \in Links, NEW r \in Opened(l)
      PROVE  /\ r \in Requests /\ run[r].on = l /\ CompletedBy(r) /\ run[r].pc = "done"
             /\ session[r].account = run[r].account
  BY <1>2 DEF Opened, MailInv, RunInv, Through, CompletedBy
<1>3. ASSUME NEW l \in Links, NEW r \in Opened(l), challenge[l].via = "circle"
      PROVE  session[r].account \in circle.joined
  BY <1>2, <1>3 DEF MailInv, RunInv, Joined, PastCircle, Link
<1>4. ASSUME NEW l \in Links, NEW r \in Opened(l)
      PROVE  Known(challenge[l].email) /\ session[r].account = owner[challenge[l].email]
  BY <1>2, <1>4 DEF MailInv, RunInv, Owned, Settled, Link
<1>. QED BY <1>1, <1>3, <1>4 DEF NewcomersVouched, SignedInAsOwner

-----------------------------------------------------------------------------
(* Steps outside the mail.                                                  *)

\* A run that is no completion and has opened nothing goes on or begins.
LEMMA BesideMail ==
  ASSUME MailInv, NEW r \in Requests, NEW x, RunsOK', Becomes(r, x), SessionsOK',
         ~CompletedBy(r), x.op # "complete", UNCHANGED linkVars,
         \A s \in DOMAIN session' \ {r} :
           s \in DOMAIN session /\ session'[s].account = session[s].account,
         r \in DOMAIN session' =>
           \/ x.op \in {"finish", "verify"} /\ x.pc = "done"
           \/ x.op = "finish" /\ x.pc = "consume"
  PROVE  MailInv'
<1>. USE DEF linkVars
<1>1. ASSUME NEW q \in Requests, q # r
      PROVE  RunInv(q)'
  <2>1. run'[q] = run[q] /\ RunInv(q)
    BY <1>1 DEF Becomes, MailInv
  <2>. QED BY <1>1, <2>1 DEF RunInv, OnLink, Owned, Joined, Made, Through, CompletedBy,
                              Link, Known, Range
<1>2. RunInv(r)'
  BY DEF MailInv, RunInv, OnLink, Owned, Joined, Made, Through, CompletedBy, Becomes, Range
<1>3. LinksOK' /\ CircleOK' /\ \A l \in Links : AskedRight(l)'
  BY DEF MailInv, FieldsOK, LinksOK, CircleOK, AskedRight, Known
<1>. QED BY <1>1, <1>2, <1>3 DEF MailInv, FieldsOK

\* The usual case: sessions and links are not touched.
LEMMA BesideRun ==
  ASSUME MailInv, NEW r \in Requests, NEW x, RunsOK', Becomes(r, x),
         ~CompletedBy(r), x.op # "complete", r \notin DOMAIN session,
         UNCHANGED <<linkVars, session>>
  PROVE  MailInv'
<1>1. SessionsOK'
  BY DEF MailInv, FieldsOK, SessionsOK
<1>. QED BY <1>1, BesideMail

LEMMA BesideBegin ==
  ASSUME MailInv, NEW r \in Requests, NEW op, NEW pc, NEW by, NEW on, NEW account, NEW seen,
         Begin(r, op, pc, by, on, account, seen), op # "complete",
         UNCHANGED <<linkVars, session>>
  PROVE  MailInv'
<1>. DEFINE x == [op |-> op, pc |-> pc, by |-> by, on |-> on, account |-> account, seen |-> seen]
<1>1. RunsOK' /\ run[r].pc = "idle" /\ Becomes(r, x)
  BY BeginRun DEF MailInv, FieldsOK
<1>2. ~CompletedBy(r) /\ r \notin DOMAIN session
  BY <1>1 DEF MailInv, RunInv, OnLink, Through, Undecided, Settled
<1>3. x.op # "complete"
  OBVIOUS
<1>. HIDE DEF x
<1>. QED BY <1>1, <1>2, <1>3, BesideRun

LEMMA BesideAdvance ==
  ASSUME MailInv, NEW r \in Requests, NEW op, NEW from, NEW to, op # "complete",
         from \notin {"consume", "done"}, Advance(r, op, from, to),
         UNCHANGED <<linkVars, session>>
  PROVE  MailInv'
<1>. DEFINE y == Moved(run[r], to, run[r].account, run[r].seen)
<1>1. RunsOK' /\ run[r].op = op /\ run[r].pc = from /\ Becomes(r, y)
  BY AdvanceRun DEF MailInv, FieldsOK
<1>2. ~CompletedBy(r) /\ r \notin DOMAIN session
  BY <1>1 DEF MailInv, RunInv, Through, CompletedBy
<1>3. y.op # "complete"
  BY <1>1 DEF Moved
<1>. HIDE DEF y
<1>. QED BY <1>1, <1>2, <1>3, BesideRun

LEMMA BesideFinish ==
  ASSUME MailInv, NEW r \in Requests, NEW op, NEW from, op # "complete",
         from \notin {"consume", "done"}, Finish(r, op, from),
         UNCHANGED <<linkVars, session>>
  PROVE  MailInv'
<1>1. RunsOK' /\ run[r].op = op /\ run[r].pc = from /\ Becomes(r, NotStarted)
  BY FinishRun DEF MailInv, FieldsOK
<1>2. ~CompletedBy(r) /\ r \notin DOMAIN session /\ NotStarted.op # "complete"
  BY <1>1 DEF MailInv, RunInv, Through, CompletedBy, NotStarted
<1>. QED BY <1>1, <1>2, BesideRun

\* No run and no link changes, and no session but its age.
LEMMA NoRunMoves ==
  ASSUME MailInv, UNCHANGED <<linkVars, run>>, SessionsOK', DOMAIN session' = DOMAIN session,
         \A s \in DOMAIN session : session'[s].account = session[s].account
  PROVE  MailInv'
BY DEF linkVars, MailInv, FieldsOK, RunsOK, LinksOK, CircleOK, AskedRight, Known, RunInv,
       OnLink, Owned, Joined, Made, Through, CompletedBy, Link

\* A change of what sessions hold besides their account.
SessionsKeepAccounts ==
  /\ SessionsOK' /\ DOMAIN session' = DOMAIN session
  /\ \A s \in DOMAIN session : session'[s].account = session[s].account

LEMMA SetAge ==
  ASSUME SessionsOK, NEW s, NEW v, session' = [session EXCEPT ![s].age = v]
  PROVE  SessionsKeepAccounts
<1>. DEFINE aged == [session[s] EXCEPT !.age = v]
<1>1. session' = [t \in DOMAIN session |-> IF t = s THEN aged ELSE session[t]]
  BY DEF SessionsOK
<1>2. s \in DOMAIN session => IsSession(aged) /\ aged.account = session[s].account
  BY SessionFields DEF SessionsOK, IsSession
<1>. HIDE DEF aged
<1>3. \A t \in DOMAIN session : IsSession(session'[t]) /\ session'[t].account = session[t].account
  BY <1>1, <1>2 DEF SessionsOK
<1>4. session' = [t \in DOMAIN session' |-> session'[t]] /\ DOMAIN session' = DOMAIN session
  BY <1>1
<1>. QED BY <1>3, <1>4 DEF SessionsKeepAccounts, SessionsOK

LEMMA Revoked ==
  ASSUME SessionsOK, NEW r,
         session' = [s \in DOMAIN session |->
           IF Ends(r, s) THEN [session[s] EXCEPT !.revoked = TRUE] ELSE session[s]]
  PROVE  SessionsKeepAccounts
<1>1. ASSUME NEW s \in DOMAIN session
      PROVE  IsSession(session'[s]) /\ session'[s].account = session[s].account
  <2>. DEFINE ended == [session[s] EXCEPT !.revoked = TRUE]
  <2>1. IsSession(ended) /\ ended.account = session[s].account
    BY SessionFields DEF SessionsOK, IsSession
  <2>2. session'[s] = IF Ends(r, s) THEN ended ELSE session[s]
    OBVIOUS
  <2>. HIDE DEF ended
  <2>. QED BY <2>1, <2>2 DEF SessionsOK
<1>2. session' = [t \in DOMAIN session' |-> session'[t]] /\ DOMAIN session' = DOMAIN session
  OBVIOUS
<1>. QED BY <1>1, <1>2 DEF SessionsKeepAccounts, SessionsOK

\* CreateSession
LEMMA Created ==
  ASSUME SessionsOK, NEW r, NEW account, CreateSession(r, account)
  PROVE  /\ SessionsOK' /\ session'[r].account = account
         /\ DOMAIN session' = DOMAIN session \cup {r}
         /\ \A s \in DOMAIN session \ {r} : session'[s] = session[s]
BY DEF CreateSession, SessionsOK, IsSession

LEMMA SessionSteps ==
  ASSUME MailInv, SessionNext, UNCHANGED linkVars
  PROVE  MailInv'
<1>. USE DEF Ending
<1>1. ASSUME NEW r \in Requests, NEW s \in SessionIds, BeginRefresh(r, s)
      PROVE  MailInv'
  BY <1>1, BesideBegin DEF BeginRefresh
<1>2. ASSUME NEW r \in Requests, NEW s \in SessionIds, NEW by \in SessionIds, BeginSignOut(r, by, s)
      PROVE  MailInv'
  BY <1>2, BesideBegin DEF BeginSignOut
<1>3. ASSUME NEW r \in Requests, NEW a \in Accounts, BeginSuspend(r, a) \/ BeginUnsuspend(r, a)
      PROVE  MailInv'
  BY <1>3, BesideBegin DEF BeginSuspend, BeginUnsuspend
<1>4. ASSUME NEW r \in Requests, NEW a \in Accounts, NEW op \in {"handoff", "end-all"},
             BeginEndAll(r, op, a)
      PROVE  MailInv'
  BY <1>4, BesideBegin DEF BeginEndAll
<1>5. ASSUME NEW r \in Requests, TouchSession(r)
      PROVE  MailInv'
  <2>1. /\ RunsOK' /\ run[r].op = "refresh" /\ run[r].pc = "touch"
        /\ Becomes(r, NotStarted)
    BY <1>5, FinishRun DEF TouchSession, MailInv, FieldsOK
  <2>2. SessionsKeepAccounts
    BY <1>5, SetAge DEF TouchSession, MailInv, FieldsOK
  <2>3. ~CompletedBy(r) /\ r \notin DOMAIN session
    BY <2>1 DEF MailInv, RunInv, Through, CompletedBy
  <2>4. NotStarted.op # "complete"
    BY DEF NotStarted
  <2>. QED BY <2>1, <2>2, <2>3, <2>4, BesideMail DEF SessionsKeepAccounts
<1>6. ASSUME NEW r \in Requests, Flag(r) \/ AnswerSignOut(r) \/ Unflag(r)
      PROVE  MailInv'
  BY <1>6, BesideAdvance, BesideFinish DEF Flag, AnswerSignOut, Unflag
<1>7. ASSUME NEW r \in Requests, RevokeSessions(r)
      PROVE  MailInv'
  <2>. DEFINE x == Moved(run[r], "answer", run[r].account, Targets(r))
  <2>1. IsRun(run[r]) /\ run[r].op \in Ending /\ run[r].pc = "revoke"
    BY <1>7 DEF RevokeSessions, At, MailInv, FieldsOK, RunsOK
  <2>2. run' = [run EXCEPT ![r] = [run[r] EXCEPT !.pc = "answer", !.seen = Targets(r)]]
    BY <1>7 DEF RevokeSessions, MailInv, FieldsOK, RunsOK
  <2>3. [run[r] EXCEPT !.pc = "answer", !.seen = Targets(r)] = x
    <3>1. ASSUME NEW y, IsRun(y), NEW w
          PROVE  [y EXCEPT !.pc = "answer", !.seen = w] = Moved(y, "answer", y.account, w)
      BY <3>1, SeenField
    <3>. QED BY <2>1, <3>1
  <2>4. IsRun(x) /\ x.op # "complete"
    BY <2>1 DEF IsRun, Moved
  <2>5. ~CompletedBy(r) /\ r \notin DOMAIN session
    BY <2>1 DEF MailInv, RunInv, Through, CompletedBy
  <2>. HIDE DEF x
  <2>6. RunsOK' /\ Becomes(r, x)
    BY <2>2, <2>3, <2>4, ReplaceRun DEF MailInv, FieldsOK
  <2>7. SessionsKeepAccounts
    BY <1>7, Revoked DEF RevokeSessions, MailInv, FieldsOK
  <2>. QED BY <2>4, <2>5, <2>6, <2>7, BesideMail DEF SessionsKeepAccounts
<1>8. ASSUME NEW r \in Requests, LoseRun(r)
      PROVE  MailInv'
  BY <1>8, NoRunMoves DEF LoseRun, MailInv, FieldsOK, SessionsOK
<1>9. ASSUME NEW s \in SessionIds, Ages(s)
      PROVE  MailInv'
  <2>1. SessionsKeepAccounts
    BY <1>9, SetAge DEF Ages, MailInv, FieldsOK
  <2>. QED BY <1>9, <2>1, NoRunMoves DEF Ages, SessionsKeepAccounts
<1>. QED BY <1>1, <1>2, <1>3, <1>4, <1>5, <1>6, <1>7, <1>8, <1>9 DEF SessionNext, SessionStep

LEMMA CodeSteps ==
  ASSUME MailInv, CodeNext, UNCHANGED linkVars
  PROVE  MailInv'
<1>1. ASSUME NEW r \in Requests, NEW s, NEW c \in Codes, NEW label,
             BeginShow(r, s, c, label) \/ BeginScan(r, s, c, label) \/ BeginConfirm(r, s, c)
      PROVE  MailInv'
  BY <1>1, BesideBegin DEF BeginShow, BeginScan, BeginConfirm
<1>2. ASSUME NEW r \in Requests, NEW c \in Codes, NEW label,
             BeginClaim(r, c, label) \/ BeginFinish(r, c)
      PROVE  MailInv'
  BY <1>2, BesideBegin DEF BeginClaim, BeginFinish
<1>3. ASSUME NEW r \in Requests,
             InsertShown(r) \/ FindScanned(r) \/ InsertScanned(r) \/ WriteClaim(r)
      PROVE  MailInv'
  <2>1. CASE InsertShown(r)
    BY <2>1, BesideFinish DEF InsertShown
  <2>2. CASE FindScanned(r)
    BY <2>2, BesideAdvance, BesideFinish DEF FindScanned
  <2>3. CASE InsertScanned(r)
    BY <2>3, BesideFinish DEF InsertScanned
  <2>4. CASE WriteClaim(r)
    BY <2>4, BesideFinish DEF WriteClaim
  <2>. QED BY <1>3, <2>1, <2>2, <2>3, <2>4
<1>4. ASSUME NEW r \in Requests, ReadRow(r) \/ Approve(r)
      PROVE  MailInv'
  BY <1>4, BesideAdvance, BesideFinish DEF ReadRow, Approve
<1>5. ASSUME NEW r \in Requests, OpenLinked(r)
      PROVE  MailInv'
  <2>. DEFINE x == Moved(run[r], "consume", run[r].account, run[r].seen)
  <2>1. RunsOK' /\ run[r].op = "finish" /\ Becomes(r, x)
    BY <1>5, AdvanceRun DEF OpenLinked, MailInv, FieldsOK
  <2>2. ~CompletedBy(r) /\ x.op = "finish" /\ x.pc = "consume"
    BY <2>1 DEF CompletedBy, Moved
  <2>3. /\ SessionsOK' /\ DOMAIN session' = DOMAIN session \cup {r}
        /\ \A s \in DOMAIN session \ {r} : session'[s] = session[s]
    BY <1>5, Created DEF OpenLinked, MailInv, FieldsOK
  <2>. HIDE DEF x
  <2>. QED BY <2>1, <2>2, <2>3, BesideMail
<1>6. ASSUME NEW r \in Requests, ConsumeCode(r)
      PROVE  MailInv'
  <2>. DEFINE x == Moved(run[r], "done", run[r].account, run[r].seen)
  <2>1. RunsOK' /\ run[r].op = "finish" /\ Becomes(r, x)
    BY <1>6, AdvanceRun DEF ConsumeCode, MailInv, FieldsOK
  <2>2. ~CompletedBy(r) /\ x.op = "finish" /\ x.pc = "done"
    BY <2>1 DEF CompletedBy, Moved
  <2>3. SessionsOK' /\ session' = session
    BY <1>6 DEF ConsumeCode, MailInv, FieldsOK, SessionsOK
  <2>. HIDE DEF x
  <2>. QED BY <2>1, <2>2, <2>3, BesideMail
<1>7. ASSUME NEW r \in Requests, LoseRun(r)
      PROVE  MailInv'
  BY <1>7, NoRunMoves DEF LoseRun, MailInv, FieldsOK, SessionsOK
<1>8. ASSUME NEW c \in Codes, CodeLapses(c)
      PROVE  MailInv'
  BY <1>8, NoRunMoves DEF CodeLapses, sessionVars, MailInv, FieldsOK, SessionsOK
<1>. QED BY <1>1, <1>2, <1>3, <1>4, <1>5, <1>6, <1>7, <1>8 DEF CodeNext, CodeStep

LEMMA KeySteps ==
  ASSUME MailInv, KeyNext, UNCHANGED linkVars
  PROVE  MailInv'
<1>1. ASSUME NEW r \in Requests, NEW s, NEW x,
             BeginVerify(r, x) \/ BeginEnrol(r, s, x) \/ BeginDelete(r, s, x)
      PROVE  MailInv'
  BY <1>1, BesideBegin DEF BeginVerify, BeginEnrol, BeginDelete
<1>2. ASSUME NEW r \in Requests, FindTicket(r) \/ FindDuplicate(r) \/ InsertKey(r) \/ KeyTaken(r)
      PROVE  MailInv'
  BY <1>2, BesideAdvance, BesideFinish DEF FindTicket, FindDuplicate, InsertKey, KeyTaken
<1>3. ASSUME NEW r \in Requests, DropTicket(r) \/ WriteCount(r) \/ DeleteKey(r)
      PROVE  MailInv'
  BY <1>3, BesideAdvance, BesideFinish DEF DropTicket, WriteCount, DeleteKey
<1>4. ASSUME NEW r \in Requests, ReadKey(r) \/ FindKey(r)
      PROVE  MailInv'
  <2>1. IsRun(run[r]) /\ run[r].op \in {"verify", "delete"} /\ run[r].pc \in {"key", "find"}
    BY <1>4 DEF ReadKey, FindKey, At, MailInv, FieldsOK, RunsOK
  <2>2. PICK x : run' = [run EXCEPT ![r] = x] /\ IsRun(x) /\ x.op # "complete"
    <3>. DEFINE k == run[r].on.key
                read == Moved(run[r], "count", passkey[k].account, passkey[k].row)
                found == Moved(run[r], "delete", run[r].account, passkey[run[r].on].row)
    <3>1. [run[r] EXCEPT !.pc = "count", !.seen = passkey[k].row,
                         !.account = passkey[k].account] = read
      <4>. DEFINE y == run[r]  w == passkey[k].row  a == passkey[k].account
      <4>1. IsRun(y)
        BY <2>1
      <4>. HIDE DEF y, w, a
      <4>2. \A v : [y EXCEPT !.pc = v, !.seen = w, !.account = a] = Moved(y, v, a, w)
        BY <4>1, KeyFields
      <4>3. [y EXCEPT !.pc = "count", !.seen = w, !.account = a] = Moved(y, "count", a, w)
        BY <4>2
      <4>. QED BY <4>3 DEF y, w, a
    <3>2. [run[r] EXCEPT !.pc = "delete", !.seen = passkey[run[r].on].row] = found
      <4>1. ASSUME NEW y, IsRun(y), NEW w
            PROVE  [y EXCEPT !.pc = "delete", !.seen = w] = Moved(y, "delete", y.account, w)
        BY <4>1, SeenField
      <4>. QED BY <2>1, <4>1
    <3>3. \A x \in {read, found, NotStarted} : IsRun(x) /\ x.op # "complete"
      BY <2>1 DEF IsRun, Moved, NotStarted
    <3>4. \E x \in {read, found, NotStarted} : run' = [run EXCEPT ![r] = x]
      <4>. HIDE DEF read, found
      <4>. QED BY <1>4, <3>1, <3>2 DEF ReadKey, FindKey, MailInv, FieldsOK, RunsOK
    <3>. QED BY <3>3, <3>4
  <2>3. RunsOK' /\ Becomes(r, x)
    BY <2>2, ReplaceRun DEF MailInv, FieldsOK
  <2>4. ~CompletedBy(r) /\ r \notin DOMAIN session
    BY <2>1 DEF MailInv, RunInv, Through, CompletedBy
  <2>5. UNCHANGED session
    BY <1>4 DEF ReadKey, FindKey
  <2>. QED BY <2>2, <2>3, <2>4, <2>5, BesideRun
<1>5. ASSUME NEW r \in Requests, OpenWithKey(r)
      PROVE  MailInv'
  <2>. DEFINE x == Moved(run[r], "done", run[r].account, run[r].seen)
  <2>1. RunsOK' /\ run[r].op = "verify" /\ Becomes(r, x)
    BY <1>5, AdvanceRun DEF OpenWithKey, MailInv, FieldsOK
  <2>2. ~CompletedBy(r) /\ x.op = "verify" /\ x.pc = "done"
    BY <2>1 DEF CompletedBy, Moved
  <2>3. /\ SessionsOK' /\ DOMAIN session' = DOMAIN session \cup {r}
        /\ \A s \in DOMAIN session \ {r} : session'[s] = session[s]
    BY <1>5, Created DEF OpenWithKey, MailInv, FieldsOK
  <2>. HIDE DEF x
  <2>. QED BY <2>1, <2>2, <2>3, BesideMail
<1>6. ASSUME NEW r \in Requests, LoseRun(r)
      PROVE  MailInv'
  BY <1>6, NoRunMoves DEF LoseRun, MailInv, FieldsOK, SessionsOK
<1>7. ASSUME NEW t \in Challenges, NEW k, NEW s,
             Sign(k, t) \/ IssueRegister(t, s) \/ IssueAuthenticate(t) \/ TicketLapses(t)
      PROVE  MailInv'
  BY <1>7, NoRunMoves
     DEF Sign, IssueRegister, IssueAuthenticate, TicketLapses, sessionVars, MailInv, FieldsOK,
         SessionsOK
<1>. QED BY <1>1, <1>2, <1>3, <1>4, <1>5, <1>6, <1>7 DEF KeyNext, KeyStep

-----------------------------------------------------------------------------
(* Steps of the mail.                                                       *)

\* A link goes on or is minted: it keeps its email and its voucher, or nothing
\* has used it yet.  A run that moves with it consumes it or minted it.
LEMMA LinkMoves ==
  ASSUME MailInv, NEW l \in Links, NEW x, IsLink(x), challenge' = [challenge EXCEPT ![l] = x],
         UNCHANGED <<owner, circle, session>>, RunsOK',
         x.state # "idle" /\ x.via = "none" => Known(x.email),
         \/ challenge[l].state \notin {"open", "used", "lapsed"}
         \/ /\ x.state \in {"open", "used", "lapsed"}
            /\ x.email = challenge[l].email /\ x.via = challenge[l].via,
         \A q \in Requests :
           \/ run'[q] = run[q]
           \/ ~CompletedBy(q) /\ ~CompletedBy(q)' /\ q \notin DOMAIN session
           \/ /\ CompletedBy(q) /\ run[q].pc = "consume"
              /\ run'[q] = Moved(run[q], "session", run[q].account, run[q].seen)
  PROVE  MailInv'
<1>1. challenge' = [k \in Links |-> IF k = l THEN x ELSE challenge[k]]
  BY DEF MailInv, FieldsOK, LinksOK
<1>2. LinksOK' /\ \A k \in Links : AskedRight(k)'
  BY <1>1 DEF MailInv, FieldsOK, LinksOK, AskedRight, Known
<1>3. SessionsOK' /\ CircleOK'
  BY DEF MailInv, FieldsOK, SessionsOK, CircleOK
<1>4. ASSUME NEW q \in Requests
      PROVE  RunInv(q)'
  <2>1. RunInv(q)
    BY DEF MailInv
  <2>2. CASE run'[q] = run[q]
    <3>1. CompletedBy(q) =>
            /\ Link(q)'.email = Link(q).email /\ Link(q)'.via = Link(q).via
            /\ Link(q)'.state \in {"open", "used", "lapsed"}
      BY <1>1, <2>1, <2>2 DEF RunInv, OnLink, Link
    <3>. QED BY <2>1, <2>2, <3>1
            DEF RunInv, OnLink, Owned, Joined, Made, Through, CompletedBy, Known
  <2>3. CASE ~CompletedBy(q) /\ ~CompletedBy(q)' /\ q \notin DOMAIN session
    BY <2>1, <2>3 DEF RunInv, OnLink, Owned, Joined, Made, Through
  <2>4. CASE /\ CompletedBy(q) /\ run[q].pc = "consume"
             /\ run'[q] = Moved(run[q], "session", run[q].account, run[q].seen)
    <3>1. /\ Link(q)'.email = Link(q).email /\ Link(q)'.via = Link(q).via
          /\ Link(q)'.state \in {"open", "used", "lapsed"}
      BY <1>1, <2>1, <2>4 DEF RunInv, OnLink, Link, Moved
    <3>2. q \notin DOMAIN session
      BY <2>1, <2>4 DEF RunInv, Through, CompletedBy
    <3>3. /\ CompletedBy(q)' /\ run'[q].pc = "session" /\ run'[q].account = run[q].account
          /\ run'[q].on = run[q].on
      BY <2>4 DEF CompletedBy, Moved
    <3>. QED BY <2>1, <2>4, <3>1, <3>2, <3>3
            DEF RunInv, OnLink, Owned, Joined, Made, Through, Known,
                Undecided, Settled, PastCircle
  <2>. QED BY <2>2, <2>3, <2>4
<1>. QED BY <1>2, <1>3, <1>4 DEF MailInv, FieldsOK

\* A completion takes a step of its own, after which it is right.  It may make its
\* account, join it and open its session.
LEMMA CompletionMoves ==
  ASSUME MailInv, NEW r \in Requests, NEW x, RunsOK', Becomes(r, x), UNCHANGED challenge,
         \A e \in DOMAIN owner : e \in DOMAIN owner' /\ owner'[e] = owner[e],
         Range(owner') \subseteq Range(owner) \cup {r},
         CircleOK', circle.joined \subseteq circle'.joined, SessionsOK',
         \A s \in Requests \ {r} :
           s \in DOMAIN session' => s \in DOMAIN session /\ session'[s] = session[s],
         RunInv(r)'
  PROVE  MailInv'
<1>1. LinksOK' /\ \A l \in Links : AskedRight(l)'
  BY DEF MailInv, FieldsOK, LinksOK, AskedRight, Known
<1>2. ASSUME NEW q \in Requests, q # r
      PROVE  RunInv(q)'
  <2>1. RunInv(q) /\ run'[q] = run[q] /\ Link(q)' = Link(q) /\ (CompletedBy(q)' <=> CompletedBy(q))
    BY <1>2 DEF MailInv, Becomes, Link, CompletedBy
  <2>2. q \in Range(owner') => q \in Range(owner)
    BY <1>2
  <2>3. OnLink(q)' /\ Made(q)'
    BY <2>1, <2>2 DEF RunInv, OnLink, Made
  <2>4. Owned(q)' /\ Joined(q)'
    BY <2>1 DEF RunInv, Owned, Joined, Known
  <2>5. Through(q)'
    BY <1>2, <2>1 DEF RunInv, Through
  <2>. QED BY <2>3, <2>4, <2>5 DEF RunInv
<1>. QED BY <1>1, <1>2 DEF MailInv, FieldsOK

\* A link alone goes on.
LEMMA LinkSteps ==
  ASSUME MailInv, NEW l \in Links, LinkStep(l)
  PROVE  MailInv'
<1>. USE DEF sessionVars
<1>1. IsLink(challenge[l]) /\ challenge = [k \in Links |-> challenge[k]]
  BY DEF MailInv, FieldsOK, LinksOK
<1>2. ASSUME NEW x, IsLink(x), challenge' = [challenge EXCEPT ![l] = x],
             UNCHANGED <<owner, circle, sessionVars>>,
             x.state # "idle" /\ x.via = "none" => Known(x.email),
             \/ challenge[l].state \notin {"open", "used", "lapsed"}
             \/ /\ x.state \in {"open", "used", "lapsed"}
                /\ x.email = challenge[l].email /\ x.via = challenge[l].via
      PROVE  MailInv'
  <2>1. RunsOK' /\ \A q \in Requests : run'[q] = run[q]
    BY <1>2 DEF MailInv, FieldsOK, RunsOK
  <2>. QED BY <1>2, <2>1, LinkMoves
<1>3. ASSUME NEW v, v # "idle", challenge' = [challenge EXCEPT ![l].state = v],
             UNCHANGED <<owner, circle, sessionVars>>, challenge[l].state # "idle",
             \/ challenge[l].state \notin {"open", "used", "lapsed"}
             \/ v \in {"open", "used", "lapsed"}
      PROVE  MailInv'
  <2>. DEFINE x == [email |-> challenge[l].email, via |-> challenge[l].via, state |-> v]
  <2>1. IsLink(x) /\ x.email = challenge[l].email /\ x.via = challenge[l].via /\ x.state = v
    BY DEF IsLink
  <2>2. [challenge[l] EXCEPT !.state = v] = x
    BY <1>1, LinkFields
  <2>. HIDE DEF x
  <2>3. challenge' = [challenge EXCEPT ![l] = x]
    BY <1>1, <1>3, <2>2
  <2>4. x.state # "idle" /\ x.via = "none" => Known(x.email)
    BY <1>3, <2>1 DEF MailInv, AskedRight
  <2>. QED BY <1>2, <1>3, <2>1, <2>3, <2>4
<1>4. CASE ReviewLink(l)
  <2>. DEFINE x == [email |-> ReviewEmail, via |-> "operator", state |-> "open"]
  <2>1. IsLink(x) /\ x.via # "none"
    BY DEF IsLink
  <2>2. challenge' = [challenge EXCEPT ![l] = x]
    BY <1>4 DEF ReviewLink
  <2>. HIDE DEF x
  <2>. QED BY <1>2, <1>4, <2>1, <2>2 DEF ReviewLink
<1>5. ASSUME NEW e \in Emails, NEW via \in {"beta", "circle", "none"}, AskLink(l, e, via)
      PROVE  MailInv'
  <2>. DEFINE x == IF Known(e) THEN [email |-> e, via |-> "none", state |-> "insert"]
                   ELSE [email |-> e, via |-> via, state |-> "check"]
  <2>1. IsLink(x) /\ x.email = e /\ (x.via = "none" => Known(e))
    BY <1>5 DEF IsLink, AskLink, MayAsk
  <2>2. challenge' = [challenge EXCEPT ![l] = x]
    BY <1>5 DEF AskLink
  <2>. HIDE DEF x
  <2>. QED BY <1>2, <1>5, <2>1, <2>2 DEF AskLink
<1>6. CASE CheckInvite(l)
  <2>1. CASE Vouched(l)
    <3>1. challenge' = [challenge EXCEPT ![l].state = "insert"]
      BY <1>1, <1>6, <2>1 DEF CheckInvite
    <3>. QED BY <1>3, <1>6, <3>1 DEF CheckInvite
  <2>2. CASE ~Vouched(l)
    <3>1. challenge' = [challenge EXCEPT ![l] = NoLink]
      BY <1>1, <1>6, <2>2 DEF CheckInvite
    <3>2. IsLink(NoLink) /\ NoLink.state = "idle"
      BY DEF IsLink, NoLink
    <3>. QED BY <1>2, <1>6, <3>1, <3>2 DEF CheckInvite
  <2>. QED BY <2>1, <2>2
<1>7. CASE InsertLink(l)
  BY <1>3, <1>7 DEF InsertLink, Set
<1>8. CASE LinkLapses(l)
  BY <1>3, <1>8 DEF LinkLapses, Set
<1>. QED BY <1>4, <1>5, <1>6, <1>7, <1>8 DEF LinkStep

\* The hand-off's run is over when its link is there.
LEMMA MintSteps ==
  ASSUME MailInv, NEW r \in Requests, NEW l \in Links, MintLink(r, l)
  PROVE  MailInv'
<1>1. /\ RunsOK' /\ run[r].op = "handoff" /\ run[r].pc = "answer"
      /\ Becomes(r, NotStarted)
  BY FinishRun DEF MintLink, MailInv, FieldsOK
<1>2. PICK e \in DOMAIN owner :
        challenge' = [challenge EXCEPT ![l] = [email |-> e, via |-> "none", state |-> "open"]]
  BY DEF MintLink
<1>. DEFINE x == [email |-> e, via |-> "none", state |-> "open"]
<1>3. IsLink(x) /\ x.email = e
  BY DEF IsLink
<1>4. challenge' = [challenge EXCEPT ![l] = x]
  BY <1>2
<1>. HIDE DEF x
<1>5. x.state # "idle" /\ x.via = "none" => Known(x.email)
  BY <1>3 DEF Known
<1>6. \A q \in Requests :
        run'[q] = run[q] \/ (~CompletedBy(q) /\ ~CompletedBy(q)' /\ q \notin DOMAIN session)
  BY <1>1 DEF Becomes, MailInv, RunInv, Through, CompletedBy, NotStarted
<1>. QED BY <1>1, <1>3, <1>4, <1>5, <1>6, LinkMoves DEF MintLink

\* The statements of a completion.
LEMMA CompletionSteps ==
  ASSUME MailInv, NEW r \in Requests, NEW l \in Links,
         \/ BeginComplete(r, l) \/ FindAccount(r) \/ ClaimEmail(r) \/ EmailTaken(r)
         \/ CountUse(r) \/ JoinCircle(r) \/ Consume(r) \/ OpenSession(r)
  PROVE  MailInv'
<1>. USE DEF linkVars
<1>. DEFINE On(to) == Moved(run[r], to, run[r].account, run[r].seen)
<1>1. FieldsOK /\ RunInv(r)
  BY DEF MailInv
<1>2. CASE BeginComplete(r, l)
  <2>. DEFINE x == [op |-> "complete", pc |-> "account", by |-> Nothing, on |-> l,
                    account |-> Nothing, seen |-> Nothing]
  <2>1. RunsOK' /\ run[r].pc = "idle" /\ Becomes(r, x)
    BY <1>1, <1>2, BeginRun DEF BeginComplete, FieldsOK
  <2>2. r \notin Range(owner) /\ r \notin DOMAIN session
    BY <1>1, <2>1 DEF RunInv, OnLink, Made, Through, Undecided, Settled
  <2>3. RunInv(r)'
    BY <1>2, <2>1, <2>2 DEF BeginComplete, Accepts, RunInv, OnLink, Owned, Joined, Made, Through,
         Becomes, CompletedBy, Link, Undecided, Settled, PastCircle
  <2>4. UNCHANGED <<challenge, owner, circle, session>>
    BY <1>2 DEF BeginComplete
  <2>. HIDE DEF x
  <2>. QED BY <1>1, <2>1, <2>3, <2>4, CompletionMoves DEF FieldsOK, SessionsOK, CircleOK
<1>3. CASE FindAccount(r)
  <2>. DEFINE to == IF Known(Link(r).email) THEN AfterAccount(r) ELSE "email"
              x == Moved(run[r], to, AccountFor(r), run[r].seen)
  <2>1. IsRun(run[r]) /\ CompletedBy(r) /\ run[r].pc = "account"
    BY <1>1, <1>3 DEF FindAccount, At, CompletedBy, FieldsOK, RunsOK
  <2>2. run' = [run EXCEPT ![r] = [run[r] EXCEPT !.account = AccountFor(r), !.pc = to]]
    BY <1>1, <1>3 DEF FindAccount, FieldsOK, RunsOK
  <2>3. [run[r] EXCEPT !.account = AccountFor(r), !.pc = to] = x
    <3>1. ASSUME NEW y, IsRun(y), NEW v, NEW a
          PROVE  [y EXCEPT !.account = a, !.pc = v] = Moved(y, v, a, y.seen)
      BY <3>1, AccountField
    <3>. HIDE DEF to
    <3>. QED BY <2>1, <3>1
  <2>4. IsRun(x) /\ x.op = run[r].op /\ x.on = run[r].on /\ x.pc = to /\ x.account = AccountFor(r)
    BY DEF IsRun, Moved
  <2>. HIDE DEF x
  <2>5. RunsOK' /\ Becomes(r, x)
    BY <1>1, <2>2, <2>3, <2>4, ReplaceRun DEF FieldsOK
  <2>6. UNCHANGED <<challenge, owner, circle, session>>
    BY <1>3 DEF FindAccount
  <2>7. r \notin Range(owner) /\ r \notin DOMAIN session
    BY <1>1, <2>1 DEF RunInv, OnLink, Through, Undecided, CompletedBy
  <2>8. Link(r)' = Link(r) /\ CompletedBy(r)'
    BY <2>1, <2>4, <2>5, <2>6 DEF Link, Becomes, CompletedBy
  <2>9. RunInv(r)'
    <3>1. CASE Known(Link(r).email)
      <4>1. run'[r].pc \in {"circle", "consume"} /\ run'[r].account = owner[Link(r).email]
        BY <2>4, <2>5, <3>1 DEF Becomes, AfterAccount, AccountFor
      <4>2. run'[r].pc = "circle" <=> Link(r).via = "circle"
        BY <2>4, <2>5, <3>1 DEF Becomes, AfterAccount
      <4>. QED BY <1>1, <2>1, <2>4, <2>5, <2>6, <2>7, <2>8, <3>1, <4>1, <4>2
              DEF RunInv, OnLink, Owned, Joined, Made, Through, Becomes, Known,
                  Undecided, Settled, PastCircle
    <3>2. CASE ~Known(Link(r).email)
      <4>1. run'[r].pc = "email" /\ run'[r].account = r
        BY <2>4, <2>5, <3>2 DEF Becomes, AccountFor
      <4>2. Link(r).via # "none"
        BY <1>1, <2>1, <3>2 DEF MailInv, AskedRight, RunInv, OnLink, Link
      <4>. QED BY <1>1, <2>1, <2>4, <2>5, <2>6, <2>7, <2>8, <4>1, <4>2
              DEF RunInv, OnLink, Owned, Joined, Made, Through, Becomes,
                  Undecided, Settled, PastCircle
    <3>. QED BY <3>1, <3>2
  <2>. QED BY <1>1, <2>5, <2>6, <2>9, CompletionMoves DEF FieldsOK, SessionsOK, CircleOK
<1>4. CASE EmailTaken(r)
  <2>1. RunsOK' /\ CompletedBy(r) /\ run[r].pc = "email" /\ Becomes(r, NotStarted)
    BY <1>1, <1>4, FinishRun DEF EmailTaken, CompletedBy, FieldsOK
  <2>2. UNCHANGED <<challenge, owner, circle, session>>
    BY <1>4 DEF EmailTaken
  <2>3. r \notin Range(owner) /\ r \notin DOMAIN session
    BY <1>1, <2>1 DEF RunInv, OnLink, Through, Undecided, CompletedBy
  <2>4. RunInv(r)'
    BY <2>1, <2>2, <2>3 DEF RunInv, OnLink, Owned, Joined, Made, Through, Becomes, CompletedBy,
         NotStarted
  <2>. QED BY <1>1, <2>1, <2>2, <2>4, CompletionMoves DEF FieldsOK, SessionsOK, CircleOK
<1>5. ASSUME NEW from, NEW to, Advance(r, "complete", from, to), UNCHANGED challenge
      PROVE  /\ RunsOK' /\ Becomes(r, On(to)) /\ CompletedBy(r) /\ run[r].pc = from
             /\ CompletedBy(r)' /\ run'[r].pc = to /\ run'[r].account = run[r].account
             /\ run'[r].on = run[r].on /\ Link(r)' = Link(r)
  <2>1. RunsOK' /\ run[r].op = "complete" /\ run[r].pc = from /\ Becomes(r, On(to))
    BY <1>1, <1>5, AdvanceRun DEF FieldsOK
  <2>2. /\ On(to).op = run[r].op /\ On(to).pc = to
        /\ On(to).account = run[r].account /\ On(to).on = run[r].on
    BY DEF Moved
  <2>. HIDE DEF On
  <2>. QED BY <1>5, <2>1, <2>2 DEF Becomes, CompletedBy, Link
<1>. HIDE DEF On
<1>6. CASE ClaimEmail(r)
  <2>1. /\ RunsOK' /\ Becomes(r, On(AfterEmail(r))) /\ CompletedBy(r) /\ run[r].pc = "email"
        /\ CompletedBy(r)' /\ run'[r].pc = AfterEmail(r) /\ run'[r].account = run[r].account
        /\ run'[r].on = run[r].on /\ Link(r)' = Link(r)
    BY <1>5, <1>6 DEF ClaimEmail
  <2>2. run[r].account = r /\ Link(r).via # "none" /\ r \notin DOMAIN session
    BY <1>1, <2>1 DEF RunInv, OnLink, Through, CompletedBy
  <2>3. ~Known(Link(r).email)
    BY <1>6 DEF ClaimEmail, Taken
  <2>4. /\ DOMAIN owner' = DOMAIN owner \cup {Link(r).email} /\ owner'[Link(r).email] = r
        /\ \A e \in DOMAIN owner : owner'[e] = owner[e]
    BY <1>6, <2>2, <2>3 DEF ClaimEmail, Known
  <2>5. Range(owner') \subseteq Range(owner) \cup {r}
    BY <2>4 DEF Range
  <2>6. UNCHANGED <<challenge, circle, session>>
    BY <1>6 DEF ClaimEmail
  <2>7. RunInv(r)'
    <3>1. CASE Link(r).via = "beta"
      <4>1. run'[r].pc = "count"
        BY <2>1, <3>1 DEF AfterEmail
      <4>. QED BY <1>1, <2>1, <2>2, <2>4, <2>6, <3>1, <4>1
              DEF RunInv, OnLink, Owned, Joined, Made, Through, Known,
                  Undecided, Settled, PastCircle
    <3>2. CASE Link(r).via # "beta"
      <4>1. /\ run'[r].pc \in {"circle", "consume"}
            /\ run'[r].pc = "circle" <=> Link(r).via = "circle"
        BY <2>1, <3>2 DEF AfterEmail, AfterAccount
      <4>. QED BY <1>1, <2>1, <2>2, <2>4, <2>6, <4>1
              DEF RunInv, OnLink, Owned, Joined, Made, Through, Known,
                  Undecided, Settled, PastCircle
    <3>. QED BY <3>1, <3>2
  <2>. QED BY <1>1, <2>1, <2>4, <2>5, <2>6, <2>7, CompletionMoves
          DEF FieldsOK, SessionsOK, CircleOK
<1>7. CASE CountUse(r)
  <2>1. UNCHANGED <<challenge, owner, circle, session>> /\ Advance(r, "complete", "count", "consume")
    BY <1>7 DEF CountUse
  <2>2. /\ RunsOK' /\ Becomes(r, On("consume")) /\ CompletedBy(r) /\ run[r].pc = "count"
        /\ CompletedBy(r)' /\ run'[r].pc = "consume" /\ run'[r].account = run[r].account
        /\ run'[r].on = run[r].on /\ Link(r)' = Link(r)
    BY <1>5, <2>1
  <2>3. RunInv(r)'
    BY <1>1, <2>1, <2>2 DEF RunInv, OnLink, Owned, Joined, Made, Through, Known, CompletedBy,
         Undecided, Settled, PastCircle
  <2>. QED BY <1>1, <2>1, <2>2, <2>3, CompletionMoves DEF FieldsOK, SessionsOK, CircleOK
<1>8. CASE JoinCircle(r)
  <2>. DEFINE to == IF Admitted(r) THEN "consume" ELSE "refused"
  <2>1. UNCHANGED <<challenge, owner, session>> /\ Advance(r, "complete", "circle", to)
    BY <1>8 DEF JoinCircle
  <2>2. /\ RunsOK' /\ Becomes(r, On(to)) /\ CompletedBy(r) /\ run[r].pc = "circle"
        /\ CompletedBy(r)' /\ run'[r].pc = to /\ run'[r].account = run[r].account
        /\ run'[r].on = run[r].on /\ Link(r)' = Link(r)
    <3>. HIDE DEF to
    <3>. QED BY <1>5, <2>1
  <2>3. /\ CircleOK' /\ circle.joined \subseteq circle'.joined
        /\ Admitted(r) => run[r].account \in circle'.joined
    BY <1>1, <1>8 DEF JoinCircle, Admitted, FieldsOK, CircleOK
  <2>4. RunInv(r)'
    BY <1>1, <2>1, <2>2, <2>3 DEF RunInv, OnLink, Owned, Joined, Made, Through, Known, CompletedBy,
         Undecided, Settled, PastCircle
  <2>. QED BY <1>1, <2>1, <2>2, <2>3, <2>4, CompletionMoves DEF FieldsOK, SessionsOK
<1>9. CASE Consume(r)
  <2>. DEFINE k == run[r].on
              x == [email |-> challenge[k].email, via |-> challenge[k].via,
                    state |-> ConsumedState(k)]
  <2>1. RunsOK' /\ run[r].op = "complete" /\ run[r].pc = "consume" /\ Becomes(r, On("session"))
    BY <1>1, <1>9, AdvanceRun DEF Consume, FieldsOK, On
  <2>2. k \in Links /\ challenge[k].state \in {"open", "used", "lapsed"} /\ IsLink(challenge[k])
    BY <1>1, <2>1 DEF RunInv, OnLink, CompletedBy, Link, FieldsOK, LinksOK
  <2>3. /\ IsLink(x) /\ x.email = challenge[k].email /\ x.via = challenge[k].via
        /\ x.state \in {"open", "used", "lapsed"}
    BY <2>2 DEF IsLink, ConsumedState
  <2>4. challenge' = [challenge EXCEPT ![k] = [challenge[k] EXCEPT !.state = ConsumedState(k)]]
    BY <1>1, <1>9, <2>2 DEF Consume, Set, FieldsOK, LinksOK
  <2>5. [challenge[k] EXCEPT !.state = ConsumedState(k)] = x
    BY <2>2, LinkFields
  <2>6. x.via = "none" => Known(x.email)
    BY <2>2, <2>3 DEF MailInv, AskedRight
  <2>7. \A q \in Requests :
          \/ run'[q] = run[q]
          \/ /\ CompletedBy(q) /\ run[q].pc = "consume"
             /\ run'[q] = Moved(run[q], "session", run[q].account, run[q].seen)
    BY <2>1 DEF Becomes, CompletedBy, On
  <2>. HIDE DEF x, k
  <2>. QED BY <1>9, <2>1, <2>2, <2>3, <2>4, <2>5, <2>6, <2>7, LinkMoves DEF Consume
<1>10. CASE OpenSession(r)
  <2>1. /\ UNCHANGED <<challenge, owner, circle>> /\ Advance(r, "complete", "session", "done")
        /\ CreateSession(r, run[r].account)
    BY <1>10 DEF OpenSession
  <2>2. /\ RunsOK' /\ Becomes(r, On("done")) /\ CompletedBy(r) /\ run[r].pc = "session"
        /\ CompletedBy(r)' /\ run'[r].pc = "done" /\ run'[r].account = run[r].account
        /\ run'[r].on = run[r].on /\ Link(r)' = Link(r)
    BY <1>5, <2>1
  <2>3. /\ SessionsOK' /\ session'[r].account = run[r].account
        /\ DOMAIN session' = DOMAIN session \cup {r}
        /\ \A s \in DOMAIN session \ {r} : session'[s] = session[s]
    BY <1>1, <2>1, Created DEF FieldsOK
  <2>4. RunInv(r)'
    BY <1>1, <2>1, <2>2, <2>3 DEF RunInv, OnLink, Owned, Joined, Made, Through, Known, CompletedBy,
         Undecided, Settled, PastCircle
  <2>. QED BY <1>1, <2>1, <2>2, <2>3, <2>4, CompletionMoves DEF FieldsOK, CircleOK
<1>. QED BY <1>2, <1>3, <1>4, <1>6, <1>7, <1>8, <1>9, <1>10

\* The invites close; a completion is cut short.
LEMMA InviteSteps ==
  ASSUME MailInv, InviteCloses \/ CircleCloses
  PROVE  MailInv'
<1>1. UNCHANGED <<challenge, owner, sessionVars>> /\ circle'.joined = circle.joined /\ CircleOK'
  BY DEF InviteCloses, CircleCloses, MailInv, FieldsOK, CircleOK
<1>2. RunsOK' /\ SessionsOK' /\ LinksOK'
  BY <1>1 DEF sessionVars, MailInv, FieldsOK, RunsOK, SessionsOK, LinksOK
<1>. QED BY <1>1, <1>2
        DEF sessionVars, MailInv, FieldsOK, AskedRight, Known, RunInv, OnLink, Owned, Joined, Made,
            Through, CompletedBy, Link

LEMMA MagicSteps ==
  ASSUME MailInv, MagicNext
  PROVE  MailInv'
<1>1. ASSUME NEW r \in Requests, LoseRun(r), UNCHANGED linkVars
      PROVE  MailInv'
  BY <1>1, NoRunMoves DEF LoseRun, MailInv, FieldsOK, SessionsOK
<1>2. ASSUME NEW r \in Requests, CompleteStep(r)
      PROVE  MailInv'
  <2>1. ASSUME NEW l \in Links, BeginComplete(r, l) \/ MintLink(r, l)
        PROVE  MailInv'
    BY <2>1, CompletionSteps, MintSteps
  <2>2. ASSUME \/ FindAccount(r) \/ ClaimEmail(r) \/ EmailTaken(r) \/ CountUse(r)
               \/ JoinCircle(r) \/ Consume(r) \/ OpenSession(r)
        PROVE  MailInv'
    <3>1. CASE Links # {}
      BY <2>2, <3>1, CompletionSteps
    <3>2. CASE Links = {}
      <4>1. run[r].op = "complete"
        BY <2>2 DEF FindAccount, ClaimEmail, EmailTaken, CountUse, JoinCircle, Consume,
             OpenSession, Advance, Finish, At
      <4>. QED BY <3>2, <4>1 DEF MailInv, RunInv, OnLink, CompletedBy
    <3>. QED BY <3>1, <3>2
  <2>. QED BY <1>2, <2>1, <2>2 DEF CompleteStep
<1>. QED BY <1>1, <1>2, LinkSteps, InviteSteps DEF MagicNext

LEMMA MailStep == MailInv /\ [SignInNext]_vars => MailInv'
<1>. SUFFICES ASSUME MailInv, [SignInNext]_vars PROVE MailInv'
  OBVIOUS
<1>1. CASE SessionNext /\ UNCHANGED linkVars
  BY <1>1, SessionSteps
<1>2. CASE MagicNext
  BY <1>2, MagicSteps
<1>3. CASE CodeNext /\ UNCHANGED linkVars
  BY <1>3, CodeSteps
<1>4. CASE KeyNext /\ UNCHANGED linkVars
  BY <1>4, KeySteps
<1>5. CASE UNCHANGED vars
  BY <1>5, NoRunMoves DEF vars, sessionVars, MailInv, FieldsOK, SessionsOK
<1>. QED BY <1>1, <1>2, <1>3, <1>4, <1>5 DEF SignInNext

\* Everything known of the mail holds in every state.
THEOREM MailSafe == SignInSpec => []MailInv
BY MailInit, MailStep, PTL DEF SignInSpec

\* Every account that was made had something that vouched for it when its link
\* was asked for (handlers/auth.ts, complete), however completions, invites,
\* device links, passkeys and sign-outs interleave and wherever they are cut short.
THEOREM VouchedFor == SignInSpec => []NewcomersVouched
BY MailSafe, MailImplies, PTL

\* A session that a magic link opened belongs to the account that the link's
\* email names, whatever other completions for the same new email do.
THEOREM OwnersSession == SignInSpec => []SignedInAsOwner
BY MailSafe, MailImplies, PTL

-----------------------------------------------------------------------------
(* The handlers of one door leave those of the others alone.                *)

SessionOps == {"refresh", "sign-out", "suspend", "handoff", "end-all", "unsuspend"}
MagicOps == {"complete", "handoff"}
CodeOps == {"show", "scan", "claim", "confirm", "finish"}
KeyOps == {"enrol", "verify", "delete"}

\* Sessions are opened by run r alone, and none changes its account.
SessionsGrow(r) ==
  /\ DOMAIN session \subseteq DOMAIN session'
  /\ DOMAIN session' \subseteq DOMAIN session \cup {r}
  /\ \A s \in DOMAIN session : session'[s].account = session[s].account

\* A step of the handlers ops: what it leaves of sessions and runs.
Leaves(ops) ==
  /\ lost \subseteq lost'
  /\ \A q \in lost' : q \in lost \/ q \in Working
  /\ DOMAIN session \subseteq DOMAIN session'
  /\ \A s \in DOMAIN session : session'[s].account = session[s].account
  /\ \A q \in Requests :
       \/ run'[q] = run[q] /\ (q \in DOMAIN session' => q \in DOMAIN session)
       \/ /\ q \notin lost' /\ run'[q].op \in ops \cup {"none"}
          /\ run[q].pc = "idle" \/ run[q].op \in ops

LEMMA LeavesRun ==
  ASSUME NEW ops, NEW r \in Requests, NEW x, Becomes(r, x), r \notin lost, UNCHANGED lost,
         x.op \in ops \cup {"none"}, run[r].pc = "idle" \/ run[r].op \in ops, SessionsGrow(r)
  PROVE  Leaves(ops)
BY DEF Leaves, Becomes, SessionsGrow

LEMMA LeavesBegin ==
  ASSUME RunsOK, NEW ops, NEW r \in Requests, NEW op \in ops,
         NEW pc, NEW by, NEW on, NEW account, NEW seen,
         Begin(r, op, pc, by, on, account, seen), UNCHANGED <<session, lost>>
  PROVE  Leaves(ops)
<1>. DEFINE x == [op |-> op, pc |-> pc, by |-> by, on |-> on, account |-> account, seen |-> seen]
<1>1. Becomes(r, x) /\ r \notin lost /\ run[r].pc = "idle"
  BY BeginRun DEF Begin
<1>2. x.op \in ops /\ SessionsGrow(r)
  BY DEF SessionsGrow
<1>. HIDE DEF x
<1>. QED BY <1>1, <1>2, LeavesRun

LEMMA LeavesAdvance ==
  ASSUME RunsOK, NEW ops, NEW r \in Requests, NEW op \in ops, NEW from, NEW to,
         Advance(r, op, from, to), UNCHANGED lost, SessionsGrow(r)
  PROVE  Leaves(ops)
<1>. DEFINE x == Moved(run[r], to, run[r].account, run[r].seen)
<1>1. Becomes(r, x) /\ r \notin lost /\ x.op = op /\ run[r].op = op
  BY AdvanceRun DEF Advance, At, Moved
<1>. HIDE DEF x
<1>. QED BY <1>1, LeavesRun

LEMMA LeavesFinish ==
  ASSUME RunsOK, NEW ops, NEW r \in Requests, NEW op \in ops, NEW from, Finish(r, op, from),
         UNCHANGED lost, SessionsGrow(r)
  PROVE  Leaves(ops)
<1>1. /\ Becomes(r, NotStarted) /\ r \notin lost /\ NotStarted.op = "none"
      /\ run[r].op = op
  BY FinishRun DEF Finish, At, NotStarted
<1>. QED BY <1>1, LeavesRun

LEMMA LeavesLost ==
  ASSUME NEW ops, NEW r \in Requests, LoseRun(r)
  PROVE  Leaves(ops)
BY DEF LoseRun, Leaves

\* No run moves.
LEMMA LeavesRuns ==
  ASSUME NEW ops, UNCHANGED <<run, lost>>, DOMAIN session' = DOMAIN session,
         \A s \in DOMAIN session : session'[s].account = session[s].account
  PROVE  Leaves(ops)
BY DEF Leaves

\* A door opens the session of r.
LEMMA Opening ==
  ASSUME SessionsOK, NEW r \in Requests, r \notin DOMAIN session, CreateSession(r, run[r].account)
  PROVE  SessionsGrow(r)
<1>1. /\ DOMAIN session' = DOMAIN session \cup {r}
      /\ \A s \in DOMAIN session \ {r} : session'[s] = session[s]
  BY Created
<1>. QED BY <1>1 DEF SessionsGrow

LEMMA SessionsLeave == MailInv /\ SessionNext => Leaves(SessionOps)
<1>. SUFFICES ASSUME MailInv, SessionNext PROVE Leaves(SessionOps)
  OBVIOUS
<1>. USE DEF Ending
<1>1. RunsOK /\ SessionsOK
  BY DEF MailInv, FieldsOK
<1>2. \A op \in SessionOps : op \in SessionOps
  OBVIOUS
<1>3. ASSUME NEW r \in Requests, NEW s \in SessionIds, BeginRefresh(r, s)
      PROVE  Leaves(SessionOps)
  <2>1. "refresh" \in SessionOps
    BY DEF SessionOps
  <2>. QED BY <1>1, <1>3, <2>1, LeavesBegin DEF BeginRefresh
<1>4. ASSUME NEW r \in Requests, NEW s, NEW by, BeginSignOut(r, by, s)
      PROVE  Leaves(SessionOps)
  <2>1. "sign-out" \in SessionOps
    BY DEF SessionOps
  <2>. QED BY <1>1, <1>4, <2>1, LeavesBegin DEF BeginSignOut
<1>5. ASSUME NEW r \in Requests, NEW a, BeginSuspend(r, a) \/ BeginUnsuspend(r, a)
      PROVE  Leaves(SessionOps)
  <2>1. "suspend" \in SessionOps /\ "unsuspend" \in SessionOps
    BY DEF SessionOps
  <2>. QED BY <1>1, <1>5, <2>1, LeavesBegin DEF BeginSuspend, BeginUnsuspend
<1>6. ASSUME NEW r \in Requests, NEW a, NEW op \in {"handoff", "end-all"}, BeginEndAll(r, op, a)
      PROVE  Leaves(SessionOps)
  <2>1. op \in SessionOps
    BY DEF SessionOps
  <2>. QED BY <1>1, <1>6, <2>1, LeavesBegin DEF BeginEndAll
<1>7. ASSUME NEW r \in Requests, TouchSession(r)
      PROVE  Leaves(SessionOps)
  <2>1. SessionsKeepAccounts
    BY <1>1, <1>7, SetAge DEF TouchSession
  <2>2. SessionsGrow(r) /\ "refresh" \in SessionOps
    BY <2>1 DEF SessionsKeepAccounts, SessionsGrow, SessionOps
  <2>. QED BY <1>1, <1>7, <2>2, LeavesFinish DEF TouchSession
<1>8. ASSUME NEW r \in Requests, Flag(r) \/ AnswerSignOut(r) \/ Unflag(r)
      PROVE  Leaves(SessionOps)
  <2>1. /\ SessionsGrow(r) /\ UNCHANGED lost
        /\ Ending \subseteq SessionOps /\ "suspend" \in SessionOps /\ "unsuspend" \in SessionOps
    BY <1>8 DEF Flag, AnswerSignOut, Unflag, SessionsGrow, SessionOps
  <2>. QED BY <1>1, <1>8, <2>1, LeavesAdvance, LeavesFinish DEF Flag, AnswerSignOut, Unflag
<1>9. ASSUME NEW r \in Requests, RevokeSessions(r)
      PROVE  Leaves(SessionOps)
  <2>. DEFINE x == Moved(run[r], "answer", run[r].account, Targets(r))
  <2>1. IsRun(run[r]) /\ run[r].op \in Ending /\ r \notin lost
    BY <1>1, <1>9 DEF RevokeSessions, At, RunsOK
  <2>2. run' = [run EXCEPT ![r] = [run[r] EXCEPT !.pc = "answer", !.seen = Targets(r)]]
    BY <1>1, <1>9 DEF RevokeSessions, RunsOK
  <2>3. [run[r] EXCEPT !.pc = "answer", !.seen = Targets(r)] = x
    <3>1. ASSUME NEW y, IsRun(y), NEW w
          PROVE  [y EXCEPT !.pc = "answer", !.seen = w] = Moved(y, "answer", y.account, w)
      BY <3>1, SeenField
    <3>. QED BY <2>1, <3>1
  <2>4. IsRun(x) /\ x.op \in SessionOps
    BY <2>1 DEF IsRun, Moved, SessionOps
  <2>. HIDE DEF x
  <2>5. Becomes(r, x)
    BY <1>1, <2>2, <2>3, <2>4, ReplaceRun
  <2>6. SessionsKeepAccounts
    BY <1>1, <1>9, Revoked DEF RevokeSessions
  <2>7. SessionsGrow(r) /\ UNCHANGED lost
    BY <1>9, <2>6 DEF SessionsKeepAccounts, SessionsGrow, RevokeSessions
  <2>8. run[r].op \in SessionOps
    BY <2>1 DEF SessionOps
  <2>. QED BY <2>1, <2>4, <2>5, <2>7, <2>8, LeavesRun
<1>10. ASSUME NEW s \in SessionIds, Ages(s)
       PROVE  Leaves(SessionOps)
  <2>1. SessionsKeepAccounts
    BY <1>1, <1>10, SetAge DEF Ages
  <2>. QED BY <1>10, <2>1, LeavesRuns DEF Ages, SessionsKeepAccounts
<1>. QED BY <1>3, <1>4, <1>5, <1>6, <1>7, <1>8, <1>9, <1>10, LeavesLost DEF SessionNext, SessionStep

\* What FindAccount leaves in the run.
LEMMA FindRun ==
  ASSUME RunsOK, NEW r \in Requests, FindAccount(r)
  PROVE  /\ run[r].op = "complete" /\ \A q \in Requests \ {r} : run'[q] = run[q]
         /\ run'[r].op = "complete" /\ run'[r].on = run[r].on
         /\ run'[r].pc \in {"circle", "consume", "email"}
         /\ run'[r].pc = "email" => run'[r].account = r
<1>. DEFINE to == IF Known(Link(r).email) THEN AfterAccount(r) ELSE "email"
            x == Moved(run[r], to, AccountFor(r), run[r].seen)
<1>1. IsRun(run[r]) /\ run[r].op = "complete"
  BY DEF FindAccount, At, RunsOK
<1>2. run' = [run EXCEPT ![r] = [run[r] EXCEPT !.account = AccountFor(r), !.pc = to]]
  BY DEF FindAccount, RunsOK
<1>3. [run[r] EXCEPT !.account = AccountFor(r), !.pc = to] = x
  <2>1. ASSUME NEW y, IsRun(y), NEW v, NEW a
        PROVE  [y EXCEPT !.account = a, !.pc = v] = Moved(y, v, a, y.seen)
    BY <2>1, AccountField
  <2>. HIDE DEF to
  <2>. QED BY <1>1, <2>1
<1>4. /\ IsRun(x) /\ x.op = "complete" /\ x.on = run[r].on
      /\ x.pc = to /\ x.account = AccountFor(r)
  BY <1>1 DEF IsRun, Moved
<1>5. to \in {"circle", "consume", "email"} /\ (to = "email" => AccountFor(r) = r)
  BY DEF AfterAccount, AccountFor
<1>. HIDE DEF x, to
<1>6. Becomes(r, x)
  BY <1>2, <1>3, <1>4, ReplaceRun
<1>. QED BY <1>1, <1>4, <1>5, <1>6 DEF Becomes

LEMMA MagicLeaves == MailInv /\ MagicNext => Leaves(MagicOps)
<1>. SUFFICES ASSUME MailInv, MagicNext PROVE Leaves(MagicOps)
  OBVIOUS
<1>. USE DEF linkVars, sessionVars
<1>1. RunsOK /\ SessionsOK
  BY DEF MailInv, FieldsOK
<1>2. "complete" \in MagicOps
  BY DEF MagicOps
<1>3. ASSUME NEW r \in Requests, NEW l \in Links, BeginComplete(r, l) \/ MintLink(r, l)
      PROVE  Leaves(MagicOps)
  <2>1. CASE BeginComplete(r, l)
    BY <1>1, <1>2, <2>1, LeavesBegin DEF BeginComplete
  <2>2. CASE MintLink(r, l)
    <3>1. SessionsGrow(r) /\ UNCHANGED lost /\ Finish(r, "handoff", "answer")
      BY <2>2 DEF MintLink, SessionsGrow
    <3>2. "handoff" \in MagicOps
      BY DEF MagicOps
    <3>. QED BY <1>1, <3>1, <3>2, LeavesFinish
  <2>. QED BY <1>3, <2>1, <2>2
<1>4. ASSUME NEW r \in Requests, FindAccount(r)
      PROVE  Leaves(MagicOps)
  <2>1. run[r].op = "complete" /\ \E x : Becomes(r, x) /\ x.op = "complete"
    BY <1>1, <1>4, FindRun DEF Becomes
  <2>2. SessionsGrow(r) /\ UNCHANGED lost /\ r \notin lost
    BY <1>4 DEF FindAccount, At, SessionsGrow
  <2>. QED BY <1>2, <2>1, <2>2, LeavesRun
<1>5. ASSUME NEW r \in Requests,
             ClaimEmail(r) \/ EmailTaken(r) \/ CountUse(r) \/ JoinCircle(r) \/ Consume(r)
      PROVE  Leaves(MagicOps)
  <2>1. SessionsGrow(r) /\ UNCHANGED lost
    BY <1>5 DEF ClaimEmail, EmailTaken, CountUse, JoinCircle, Consume, SessionsGrow
  <2>2. \/ Finish(r, "complete", "email")
        \/ \E from, to : Advance(r, "complete", from, to)
    BY <1>5 DEF ClaimEmail, EmailTaken, CountUse, JoinCircle, Consume
  <2>. QED BY <1>1, <1>2, <2>1, <2>2, LeavesAdvance, LeavesFinish
<1>6. ASSUME NEW r \in Requests, OpenSession(r)
      PROVE  Leaves(MagicOps)
  <2>1. r \notin DOMAIN session
    BY <1>6 DEF OpenSession, Advance, At, MailInv, RunInv, Through
  <2>2. SessionsGrow(r)
    BY <1>1, <1>6, <2>1, Opening DEF OpenSession
  <2>. QED BY <1>1, <1>2, <1>6, <2>2, LeavesAdvance DEF OpenSession
<1>7. CASE (\E l \in Links : LinkStep(l)) \/ InviteCloses \/ CircleCloses
  <2>1. UNCHANGED sessionVars
    BY <1>7 DEF LinkStep, ReviewLink, AskLink, CheckInvite, InsertLink, LinkLapses,
         InviteCloses, CircleCloses
  <2>. QED BY <2>1, LeavesRuns
<1>. QED BY <1>3, <1>4, <1>5, <1>6, <1>7, LeavesLost DEF MagicNext, CompleteStep

LEMMA CodesLeave == MailInv /\ CodeNext => Leaves(CodeOps)
<1>. SUFFICES ASSUME MailInv, CodeNext PROVE Leaves(CodeOps)
  OBVIOUS
<1>. USE DEF CodeOps
<1>1. RunsOK /\ SessionsOK
  BY DEF MailInv, FieldsOK
<1>2. ASSUME NEW r \in Requests, NEW s, NEW c, NEW label,
             BeginShow(r, s, c, label) \/ BeginScan(r, s, c, label) \/ BeginClaim(r, c, label)
      PROVE  Leaves(CodeOps)
  <2>1. "show" \in CodeOps /\ "scan" \in CodeOps /\ "claim" \in CodeOps
    OBVIOUS
  <2>. HIDE DEF CodeOps
  <2>. QED BY <1>1, <1>2, <2>1, LeavesBegin DEF BeginShow, BeginScan, BeginClaim
<1>3. ASSUME NEW r \in Requests, NEW s, NEW c, BeginConfirm(r, s, c) \/ BeginFinish(r, c)
      PROVE  Leaves(CodeOps)
  <2>1. "confirm" \in CodeOps /\ "finish" \in CodeOps
    OBVIOUS
  <2>. HIDE DEF CodeOps
  <2>. QED BY <1>1, <1>3, <2>1, LeavesBegin DEF BeginConfirm, BeginFinish
<1>4. ASSUME NEW r \in Requests,
             \/ InsertShown(r) \/ FindScanned(r) \/ InsertScanned(r) \/ WriteClaim(r)
             \/ ReadRow(r) \/ Approve(r) \/ ConsumeCode(r)
      PROVE  Leaves(CodeOps)
  <2>1. SessionsGrow(r) /\ UNCHANGED lost
    BY <1>4 DEF InsertShown, FindScanned, InsertScanned, WriteClaim, ReadRow, Approve,
         ConsumeCode, SessionsGrow
  <2>2. \E op \in CodeOps : \/ \E from : Finish(r, op, from)
                           \/ \E from, to : Advance(r, op, from, to)
    BY <1>4 DEF InsertShown, FindScanned, InsertScanned, WriteClaim, ReadRow, Approve, ConsumeCode
  <2>. HIDE DEF CodeOps
  <2>. QED BY <1>1, <2>1, <2>2, LeavesAdvance, LeavesFinish
<1>5. ASSUME NEW r \in Requests, OpenLinked(r)
      PROVE  Leaves(CodeOps)
  <2>1. r \notin DOMAIN session
    BY <1>5 DEF OpenLinked, Advance, At, MailInv, RunInv, Through
  <2>2. SessionsGrow(r) /\ "finish" \in CodeOps
    BY <1>1, <1>5, <2>1, Opening DEF OpenLinked
  <2>. HIDE DEF CodeOps
  <2>. QED BY <1>1, <1>5, <2>2, LeavesAdvance DEF OpenLinked
<1>6. ASSUME NEW c, CodeLapses(c)
      PROVE  Leaves(CodeOps)
  BY <1>6, LeavesRuns DEF CodeLapses, sessionVars
<1>. QED BY <1>2, <1>3, <1>4, <1>5, <1>6, LeavesLost DEF CodeNext, CodeStep

\* What ReadKey and FindKey leave in the run.
LEMMA KeyRead ==
  ASSUME RunsOK, NEW r \in Requests, ReadKey(r) \/ FindKey(r)
  PROVE  \E x :
           /\ RunsOK' /\ Becomes(r, x)
           /\ ReadKey(r) /\ x # NotStarted =>
                 /\ x = Moved(run[r], "count", passkey[run[r].on.key].account,
                              passkey[run[r].on.key].row)
                 /\ Registered(run[r].on.key) /\ CountAccepted(run[r].on)
           /\ FindKey(r) /\ x # NotStarted =>
                 /\ x = Moved(run[r], "delete", run[r].account, passkey[run[r].on].row)
                 /\ Registered(run[r].on)
           /\ x.op \in {"verify", "delete", "none"}
<1>1. IsRun(run[r]) /\ run[r].op \in {"verify", "delete"}
  BY DEF ReadKey, FindKey, At, RunsOK
<1>. DEFINE k == run[r].on.key
            read == Moved(run[r], "count", passkey[k].account, passkey[k].row)
            found == Moved(run[r], "delete", run[r].account, passkey[run[r].on].row)
<1>2. [run[r] EXCEPT !.pc = "count", !.seen = passkey[k].row, !.account = passkey[k].account] = read
  <2>. DEFINE y == run[r]  w == passkey[k].row  a == passkey[k].account
  <2>1. IsRun(y)
    BY <1>1
  <2>. HIDE DEF y, w, a
  <2>2. \A v : [y EXCEPT !.pc = v, !.seen = w, !.account = a] = Moved(y, v, a, w)
    BY <2>1, KeyFields
  <2>3. [y EXCEPT !.pc = "count", !.seen = w, !.account = a] = Moved(y, "count", a, w)
    BY <2>2
  <2>. QED BY <2>3 DEF y, w, a
<1>3. [run[r] EXCEPT !.pc = "delete", !.seen = passkey[run[r].on].row] = found
  <2>1. ASSUME NEW y, IsRun(y), NEW w
        PROVE  [y EXCEPT !.pc = "delete", !.seen = w] = Moved(y, "delete", y.account, w)
    BY <2>1, SeenField
  <2>. QED BY <1>1, <2>1
<1>4. \A x \in {read, found, NotStarted} : IsRun(x) /\ x.op \in {"verify", "delete", "none"}
  BY <1>1 DEF IsRun, Moved, NotStarted
<1>. HIDE DEF read, found
<1>5. CASE ReadKey(r)
  <2>1. At(r, "verify", "key")
    BY <1>5 DEF ReadKey
  <2>2. CASE Registered(k) /\ CountAccepted(run[r].on)
    <3>1. run' = [run EXCEPT ![r] = read]
      BY <1>2, <1>5, <2>2 DEF ReadKey, RunsOK
    <3>2. RunsOK' /\ Becomes(r, read)
      BY <1>4, <3>1, ReplaceRun
    <3>. QED BY <1>4, <2>1, <2>2, <3>2 DEF FindKey, At, read
  <2>3. CASE ~(Registered(k) /\ CountAccepted(run[r].on))
    <3>1. run' = [run EXCEPT ![r] = NotStarted]
      BY <1>5, <2>3 DEF ReadKey
    <3>2. RunsOK' /\ Becomes(r, NotStarted)
      BY <1>4, <3>1, ReplaceRun
    <3>. QED BY <1>4, <3>2
  <2>. QED BY <2>2, <2>3
<1>6. CASE FindKey(r)
  <2>1. At(r, "delete", "find")
    BY <1>6 DEF FindKey
  <2>. DEFINE here == Registered(run[r].on) /\ passkey[run[r].on].account = run[r].account
  <2>2. CASE here
    <3>1. run' = [run EXCEPT ![r] = found]
      BY <1>3, <1>6, <2>2 DEF FindKey, RunsOK
    <3>2. RunsOK' /\ Becomes(r, found)
      BY <1>4, <3>1, ReplaceRun
    <3>. QED BY <1>4, <2>1, <2>2, <3>2 DEF ReadKey, At, found
  <2>3. CASE ~here
    <3>1. run' = [run EXCEPT ![r] = NotStarted]
      BY <1>6, <2>3 DEF FindKey
    <3>2. RunsOK' /\ Becomes(r, NotStarted)
      BY <1>4, <3>1, ReplaceRun
    <3>. QED BY <1>4, <3>2
  <2>. QED BY <2>2, <2>3
<1>. QED BY <1>5, <1>6

LEMMA KeysLeave == MailInv /\ KeyNext => Leaves(KeyOps)
<1>. SUFFICES ASSUME MailInv, KeyNext PROVE Leaves(KeyOps)
  OBVIOUS
<1>. USE DEF KeyOps
<1>1. RunsOK /\ SessionsOK
  BY DEF MailInv, FieldsOK
<1>2. ASSUME NEW r \in Requests, NEW s, NEW x,
             BeginVerify(r, x) \/ BeginEnrol(r, s, x) \/ BeginDelete(r, s, x)
      PROVE  Leaves(KeyOps)
  <2>1. "verify" \in KeyOps /\ "enrol" \in KeyOps /\ "delete" \in KeyOps
    OBVIOUS
  <2>. HIDE DEF KeyOps
  <2>. QED BY <1>1, <1>2, <2>1, LeavesBegin DEF BeginVerify, BeginEnrol, BeginDelete
<1>3. ASSUME NEW r \in Requests,
             \/ FindTicket(r) \/ FindDuplicate(r) \/ InsertKey(r) \/ KeyTaken(r)
             \/ DropTicket(r) \/ WriteCount(r) \/ DeleteKey(r)
      PROVE  Leaves(KeyOps)
  <2>1. SessionsGrow(r) /\ UNCHANGED lost
    BY <1>3 DEF FindTicket, FindDuplicate, InsertKey, KeyTaken, DropTicket, WriteCount, DeleteKey,
         SessionsGrow
  <2>2. \E op \in KeyOps : \/ \E from : Finish(r, op, from)
                          \/ \E from, to : Advance(r, op, from, to)
    BY <1>3 DEF FindTicket, FindDuplicate, InsertKey, KeyTaken, DropTicket, WriteCount, DeleteKey
  <2>. HIDE DEF KeyOps
  <2>. QED BY <1>1, <2>1, <2>2, LeavesAdvance, LeavesFinish
<1>4. ASSUME NEW r \in Requests, ReadKey(r) \/ FindKey(r)
      PROVE  Leaves(KeyOps)
  <2>1. PICK x : Becomes(r, x) /\ x.op \in KeyOps \cup {"none"}
    BY <1>1, <1>4, KeyRead
  <2>2. /\ SessionsGrow(r) /\ UNCHANGED lost /\ r \notin lost
        /\ run[r].op \in KeyOps
    BY <1>4 DEF ReadKey, FindKey, At, SessionsGrow
  <2>. QED BY <2>1, <2>2, LeavesRun
<1>5. ASSUME NEW r \in Requests, OpenWithKey(r)
      PROVE  Leaves(KeyOps)
  <2>1. r \notin DOMAIN session
    BY <1>5 DEF OpenWithKey, Advance, At, MailInv, RunInv, Through
  <2>2. SessionsGrow(r) /\ "verify" \in KeyOps
    BY <1>1, <1>5, <2>1, Opening DEF OpenWithKey
  <2>. HIDE DEF KeyOps
  <2>. QED BY <1>1, <1>5, <2>2, LeavesAdvance DEF OpenWithKey
<1>6. ASSUME NEW t, NEW k, NEW s,
             Sign(k, t) \/ IssueRegister(t, s) \/ IssueAuthenticate(t) \/ TicketLapses(t)
      PROVE  Leaves(KeyOps)
  <2>1. UNCHANGED sessionVars
    BY <1>6 DEF Sign, IssueRegister, IssueAuthenticate, TicketLapses
  <2>. QED BY <2>1, LeavesRuns DEF sessionVars
<1>. QED BY <1>2, <1>3, <1>4, <1>5, <1>6, LeavesLost DEF KeyNext, KeyStep

-----------------------------------------------------------------------------
(* A run that was cut short stands where it stood.                          *)

LostOK == \A r \in lost : r \in Requests /\ run[r].pc \notin {"idle", "refused", "done"}
Base == MailInv /\ LostOK

LEMMA LostStays ==
  ASSUME LostOK, NEW ops, Leaves(ops)
  PROVE  LostOK'
BY DEF LostOK, Leaves, Working

LEMMA BaseStep == Base /\ [SignInNext]_vars => Base'
<1>. SUFFICES ASSUME Base, [SignInNext]_vars PROVE Base'
  OBVIOUS
<1>1. MailInv /\ MailInv'
  BY MailStep DEF Base
<1>2. CASE UNCHANGED vars
  BY <1>1, <1>2 DEF Base, LostOK, vars, sessionVars
<1>3. CASE SignInNext
  <2>1. PICK ops : Leaves(ops)
    BY <1>1, <1>3, SessionsLeave, MagicLeaves, CodesLeave, KeysLeave DEF SignInNext
  <2>. QED BY <1>1, <2>1, LostStays DEF Base
<1>. QED BY <1>2, <1>3

THEOREM BaseSafe == SignInSpec => []Base
<1>1. SignInInit => Base
  BY MailInit DEF SignInInit, Init, Base, LostOK
<1>. QED BY <1>1, BaseStep, PTL DEF SignInSpec

\* One more, at most.
LEMMA OneMore ==
  ASSUME NEW S, IsFiniteSet(S), NEW x, NEW T, T \subseteq S \cup {x}
  PROVE  IsFiniteSet(T) /\ Cardinality(T) <= Cardinality(S) + 1
<1>1. /\ IsFiniteSet(S \cup {x}) /\ Cardinality(S \cup {x}) <= Cardinality(S) + 1
      /\ Cardinality(S) \in Nat /\ Cardinality(S \cup {x}) \in Nat
  BY FS_AddElement, FS_CardinalityType
<1>2. IsFiniteSet(T) /\ Cardinality(T) <= Cardinality(S \cup {x}) /\ Cardinality(T) \in Nat
  BY <1>1, FS_Subset, FS_CardinalityType
<1>. QED BY <1>1, <1>2

LEMMA BothSets ==
  ASSUME NEW S, IsFiniteSet(S), NEW T, IsFiniteSet(T)
  PROVE  /\ IsFiniteSet(S \cup T)
         /\ Cardinality(S \cup T) <= Cardinality(S) + Cardinality(T)
<1>1. IsFiniteSet(S \cap T)
  BY FS_Subset
<1>2. Cardinality(S \cap T) \in Nat /\ Cardinality(S) \in Nat /\ Cardinality(T) \in Nat
  BY <1>1, FS_CardinalityType
<1>3. /\ IsFiniteSet(S \cup T)
      /\ Cardinality(S \cup T) = Cardinality(S) + Cardinality(T) - Cardinality(S \cap T)
  BY FS_Union
<1>. QED BY <1>2, <1>3

-----------------------------------------------------------------------------
(* Device links.  What a run knows of its row stays true while it runs: the *)
(* row keeps its account, and its label once it is claimed, unless claims   *)
(* overlapped.                                                              *)

IsRow(x) == x = [mode |-> x.mode, account |-> x.account, label |-> x.label,
                 claimed |-> x.claimed, approver |-> x.approver, shown |-> x.shown,
                 consumed |-> x.consumed]
RowsOK == qr = [c \in DOMAIN qr |-> qr[c]] /\ \A c \in DOMAIN qr : IsRow(qr[c])

\* The row of c was approved by a session of its account, under the label it has.
ApprovedRight(c) ==
  /\ HasRow(c) /\ Row(c).claimed /\ Row(c).approver \in DOMAIN session
  /\ session[Row(c).approver].account = Row(c).account
  /\ c \in crossed \/ Row(c).shown = Row(c).label
ApprovalsRight == \A c \in DOMAIN qr : qr[c].approver # Nothing => ApprovedRight(c)

\* Run r has the label of its row, unless claims of it overlapped.
Labelled(r) == run[r].on \in crossed \/ run[r].seen = Row(run[r].on).label

\* Run r executes op, on another token than its like.
Only(r, op) ==
  \A q \in Requests \ lost : q # r /\ run[q].op = op => run[q].on # run[r].on

Showing(r) ==
  run[r].op = "show" /\ r \notin lost =>
    /\ run[r].pc = "insert" /\ run[r].on \in RelayCodes
    /\ ~HasRow(run[r].on) /\ Only(r, "show")
Scanning(r) == run[r].op = "scan" => run[r].on \in DeviceCodes
Claiming(r) ==
  run[r].op = "claim" =>
    /\ run[r].pc = "write" /\ HasRow(run[r].on)
    /\ r \in lost \/ run[r].on \in crossed
       \/ ((Row(run[r].on).claimed => Labelled(r)) /\ Only(r, "claim"))
Confirming(r) ==
  run[r].op = "confirm" =>
    /\ HasRow(run[r].on) /\ Row(run[r].on).claimed /\ Labelled(r)
    /\ run[r].by \in DOMAIN session /\ session[run[r].by].account = run[r].account
    /\ run[r].pc = "approve" => OwnRow(r)
Finishing(r) ==
  run[r].op = "finish" =>
    /\ run[r].pc \in {"session", "consume", "done"}
    /\ ApprovedRight(run[r].on) /\ OwnRow(r) /\ Labelled(r)
    /\ r \in DOMAIN session => session[r].account = run[r].account
    /\ run[r].pc = "done" => Row(run[r].on).consumed

CodeRun(r) == Showing(r) /\ Scanning(r) /\ Claiming(r) /\ Confirming(r) /\ Finishing(r)

\* The completions of c that were not cut short.
Finishers(c) == {r \in Requests \ lost : run[r].op = "finish" /\ run[r].on = c}

CodeInv ==
  /\ RowsOK /\ ApprovalsRight
  /\ \A r \in Requests : CodeRun(r)
  /\ \A c \in Codes : Cardinality(Finishers(c)) <= MaxFinishes

LEMMA CodeInit == SignInInit => CodeInv
<1>. SUFFICES ASSUME SignInInit PROVE CodeInv
  OBVIOUS
<1>. USE DEF SignInInit, Init, QrInit
<1>1. RowsOK /\ ApprovalsRight
  BY DEF RowsOK, ApprovalsRight
<1>2. \A r \in Requests : run[r].op = "none"
  BY DEF NotStarted
<1>3. \A r \in Requests : CodeRun(r)
  BY <1>2 DEF CodeRun, Showing, Scanning, Claiming, Confirming, Finishing
<1>4. ASSUME NEW c \in Codes
      PROVE  Cardinality(Finishers(c)) <= MaxFinishes
  <2>1. Finishers(c) = {}
    BY <1>2 DEF Finishers
  <2>. QED BY <2>1, FS_EmptySet, DeviceLinksAssumption
<1>. QED BY <1>1, <1>3, <1>4 DEF CodeInv

LEMMA CodeImplies == Base /\ CodeInv => LinkedAsApproved /\ DeviceLinkOpens
<1>. SUFFICES ASSUME Base, CodeInv PROVE LinkedAsApproved /\ DeviceLinkOpens
  OBVIOUS
<1>1. ASSUME NEW c \in Codes, NEW r \in Linked(c)
      PROVE  /\ Row(c).approver \in DOMAIN session
             /\ session[Row(c).approver].account = session[r].account
             /\ c \in crossed \/ run[r].seen = Row(c).shown
  <2>1. r \in Requests /\ run[r].op = "finish" /\ run[r].on = c /\ r \in DOMAIN session
    BY <1>1 DEF Linked
  <2>2. Finishing(r)
    BY <2>1 DEF CodeInv, CodeRun
  <2>. QED BY <2>1, <2>2 DEF Finishing, ApprovedRight, OwnRow, Labelled
<1>2. ASSUME NEW c \in Codes
      PROVE  Cardinality(Linked(c)) <= MaxFinishes + Cardinality(lost)
  <2>1. IsFiniteSet(Finishers(c)) /\ IsFiniteSet(lost)
    BY SessionsAssumption, FS_Subset DEF Finishers, Base, LostOK
  <2>2. Linked(c) \subseteq Finishers(c) \cup lost
    BY DEF Linked, Finishers
  <2>3. /\ IsFiniteSet(Finishers(c) \cup lost)
        /\ Cardinality(Finishers(c) \cup lost) <= Cardinality(Finishers(c)) + Cardinality(lost)
    BY <2>1, BothSets
  <2>4. Cardinality(Linked(c)) <= Cardinality(Finishers(c) \cup lost) /\ IsFiniteSet(Linked(c))
    BY <2>2, <2>3, FS_Subset
  <2>5. Cardinality(Finishers(c)) <= MaxFinishes
    BY DEF CodeInv
  <2>6. /\ Cardinality(Linked(c)) \in Nat /\ Cardinality(Finishers(c)) \in Nat
        /\ Cardinality(lost) \in Nat /\ Cardinality(Finishers(c) \cup lost) \in Nat
    BY <2>1, <2>3, <2>4, FS_CardinalityType
  <2>. QED BY <2>3, <2>4, <2>5, <2>6, DeviceLinksAssumption
<1>. QED BY <1>1, <1>2 DEF LinkedAsApproved, DeviceLinkOpens

LEMMA FewerFinishers ==
  ASSUME NEW c \in Codes, Cardinality(Finishers(c)) <= MaxFinishes,
         Finishers(c)' \subseteq Finishers(c)
  PROVE  Cardinality(Finishers(c))' <= MaxFinishes
<1>1. IsFiniteSet(Finishers(c)) /\ IsFiniteSet(Finishers(c)')
  BY SessionsAssumption, FS_Subset DEF Finishers
<1>2. PICK T : T = Finishers(c)'
  OBVIOUS
<1>3. Cardinality(T) <= Cardinality(Finishers(c))
  BY <1>1, <1>2, FS_Subset
<1>4. Cardinality(T) \in Nat /\ Cardinality(Finishers(c)) \in Nat
  BY <1>1, <1>2, FS_CardinalityType
<1>5. Cardinality(T) <= MaxFinishes
  BY <1>3, <1>4, DeviceLinksAssumption
<1>. QED BY <1>2, <1>5

\* Other handlers leave device links alone.
LEMMA CodeBeside ==
  ASSUME CodeInv, NEW ops, Leaves(ops), ops \cap CodeOps = {}, UNCHANGED <<qr, crossed>>
  PROVE  CodeInv'
<1>1. ASSUME NEW q \in Requests, run'[q].op \in CodeOps
      PROVE  run'[q] = run[q] /\ (q \in DOMAIN session' => q \in DOMAIN session)
  BY <1>1 DEF Leaves, CodeOps
<1>2. \A c \in DOMAIN qr : ApprovedRight(c) => ApprovedRight(c)'
  BY DEF ApprovedRight, Leaves, HasRow, Row
<1>3. RowsOK' /\ ApprovalsRight'
  BY <1>2 DEF CodeInv, RowsOK, ApprovalsRight
<1>4. ASSUME NEW q \in Requests, run'[q].op \in CodeOps
      PROVE  CodeRun(q)'
  <2>1. CodeRun(q) /\ run'[q] = run[q] /\ (q \in DOMAIN session' => q \in DOMAIN session)
    BY <1>1, <1>4 DEF CodeInv
  <2>2. \A op \in CodeOps : Only(q, op) => Only(q, op)'
    BY <1>1, <2>1 DEF Only, Leaves
  <2>3. "show" \in CodeOps /\ "claim" \in CodeOps
    BY DEF CodeOps
  <2>4. Showing(q)' /\ Scanning(q)' /\ Claiming(q)'
    BY <2>1, <2>2, <2>3 DEF CodeRun, Showing, Scanning, Claiming, HasRow, Row, Labelled, Leaves
  <2>5. Confirming(q)'
    BY <2>1 DEF CodeRun, Confirming, HasRow, Row, Labelled, OwnRow, Leaves
  <2>6. Finishing(q)'
    BY <1>2, <2>1 DEF CodeRun, Finishing, HasRow, Row, Labelled, OwnRow, Leaves, ApprovedRight
  <2>. QED BY <2>4, <2>5, <2>6 DEF CodeRun
<1>5. \A q \in Requests : CodeRun(q)'
  BY <1>4 DEF CodeRun, Showing, Scanning, Claiming, Confirming, Finishing, CodeOps
<1>6. ASSUME NEW c \in Codes
      PROVE  Cardinality(Finishers(c))' <= MaxFinishes
  <2>1. Finishers(c)' \subseteq Finishers(c)
    BY <1>1 DEF Finishers, Leaves, CodeOps
  <2>. QED BY <2>1, FewerFinishers DEF CodeInv
<1>. QED BY <1>3, <1>5, <1>6 DEF CodeInv

\* A step of run r of a device link: rows keep what the other runs have read of them.
RowsKept ==
  /\ DOMAIN qr \subseteq DOMAIN qr' /\ crossed \subseteq crossed'
  /\ \A c \in DOMAIN qr :
       /\ qr'[c].account = qr[c].account
       /\ qr[c].consumed => qr'[c].consumed
       /\ qr[c].claimed => qr'[c].claimed /\ (c \in crossed' \/ qr'[c].label = qr[c].label)
       /\ ApprovedRight(c) => ApprovedRight(c)'

LEMMA CodeMoves ==
  ASSUME CodeInv, NEW r \in Requests, NEW x, Becomes(r, x), UNCHANGED lost, SessionsGrow(r),
         RowsKept, RowsOK', ApprovalsRight', CodeRun(r)',
         \A q \in Requests \ {r} : q \notin lost /\ run[q].op = "show" =>
           run[q].on \notin DOMAIN qr' /\ (x.op = "show" => x.on # run[q].on),
         \A q \in Requests \ {r} : q \notin lost /\ run[q].op = "claim" =>
           \/ run[q].on \in crossed'
           \/ /\ qr'[run[q].on].claimed => run[q].seen = qr'[run[q].on].label
              /\ x.op = "claim" => x.on # run[q].on,
         \A c \in Codes :
           \/ Finishers(c)' \subseteq Finishers(c)
           \/ Cardinality(Finishers(c))' <= MaxFinishes
  PROVE  CodeInv'
<1>1. ASSUME NEW q \in Requests \ {r}
      PROVE  CodeRun(q)'
  <2>1. CodeRun(q) /\ run'[q] = run[q] /\ (q \in DOMAIN session' => q \in DOMAIN session)
    BY <1>1 DEF CodeInv, Becomes, SessionsGrow
  <2>2. \A p \in Requests \ {r} : run'[p] = run[p]
    BY DEF Becomes
  <2>3. run'[r] = x
    BY DEF Becomes
  <2>4. Showing(q)'
    BY <1>1, <2>1, <2>2, <2>3 DEF CodeRun, Showing, Only, HasRow
  <2>5. Claiming(q)'
    <3>1. SUFFICES ASSUME run[q].op = "claim" PROVE Claiming(q)'
      BY <2>1 DEF Claiming
    <3>2. run[q].pc = "write" /\ HasRow(run[q].on)'
      BY <2>1, <3>1 DEF CodeRun, Claiming, RowsKept, HasRow
    <3>3. CASE q \in lost \/ run[q].on \in crossed'
      BY <2>1, <3>1, <3>2, <3>3 DEF Claiming
    <3>4. CASE q \notin lost /\ run[q].on \notin crossed'
      <4>1. /\ qr'[run[q].on].claimed => run[q].seen = qr'[run[q].on].label
            /\ x.op = "claim" => x.on # run[q].on
        BY <1>1, <3>1, <3>4
      <4>2. Only(q, "claim")
        BY <2>1, <3>1, <3>4 DEF CodeRun, Claiming, RowsKept
      <4>3. Only(q, "claim")'
        BY <2>1, <2>2, <2>3, <4>1, <4>2 DEF Only
      <4>. QED BY <2>1, <3>1, <3>2, <4>1, <4>3 DEF Claiming, Labelled, Row
    <3>. QED BY <3>3, <3>4
  <2>6. Scanning(q)' /\ Confirming(q)'
    BY <2>1 DEF CodeRun, Scanning, Confirming, HasRow, Row, Labelled, OwnRow, RowsKept, SessionsGrow
  <2>7. Finishing(q)'
    BY <2>1 DEF CodeRun, Finishing, HasRow, Row, Labelled, OwnRow, RowsKept, SessionsGrow,
         ApprovedRight
  <2>. QED BY <2>4, <2>5, <2>6, <2>7 DEF CodeRun
<1>2. \A c \in Codes : Cardinality(Finishers(c))' <= MaxFinishes
  BY FewerFinishers DEF CodeInv
<1>. QED BY <1>1, <1>2 DEF CodeInv

\* The rows stay as they are.
LEMMA CodeRunMoves ==
  ASSUME CodeInv, NEW r \in Requests, NEW x, Becomes(r, x),
         UNCHANGED <<lost, session, qr, crossed>>,
         CodeRun(r)', x.op \notin {"show", "claim", "finish"}
  PROVE  CodeInv'
<1>1. SessionsGrow(r) /\ RowsKept /\ RowsOK' /\ ApprovalsRight'
  BY DEF SessionsGrow, RowsKept, CodeInv, RowsOK, ApprovalsRight, ApprovedRight, HasRow, Row
<1>2. \A q \in Requests \ {r} : q \notin lost /\ run[q].op = "show" =>
        run[q].on \notin DOMAIN qr' /\ (x.op = "show" => x.on # run[q].on)
  BY DEF CodeInv, CodeRun, Showing, HasRow
<1>3. \A q \in Requests \ {r} : q \notin lost /\ run[q].op = "claim" =>
        \/ run[q].on \in crossed'
        \/ /\ qr'[run[q].on].claimed => run[q].seen = qr'[run[q].on].label
           /\ x.op = "claim" => x.on # run[q].on
  BY DEF CodeInv, CodeRun, Claiming, Labelled, Row
<1>4. \A c \in Codes : Finishers(c)' \subseteq Finishers(c)
  BY DEF Finishers, Becomes
<1>. QED BY <1>1, <1>2, <1>3, <1>4, CodeMoves

\* The first statement of a handler; the rows stay as they are.
LEMMA CodeBegins ==
  ASSUME Base, CodeInv, NEW r \in Requests, NEW s \in SessionIds, NEW c \in Codes, NEW label,
         \/ BeginShow(r, s, c, label) \/ BeginScan(r, s, c, label) \/ BeginClaim(r, c, label)
         \/ BeginConfirm(r, s, c) \/ BeginFinish(r, c)
  PROVE  CodeInv'
<1>1. RunsOK
  BY DEF Base, MailInv, FieldsOK
<1>2. UNCHANGED <<lost, session, qr>> /\ crossed \subseteq crossed' /\ r \notin lost
      /\ run[r].pc = "idle"
  BY DEF BeginShow, BeginScan, BeginClaim, BeginConfirm, BeginFinish, Begin, qrVars
<1>3. SessionsGrow(r) /\ RowsKept /\ RowsOK' /\ ApprovalsRight'
  BY <1>2 DEF SessionsGrow, RowsKept, CodeInv, RowsOK, ApprovalsRight, ApprovedRight, HasRow, Row
<1>4. r \notin DOMAIN session
  BY <1>2 DEF Base, MailInv, RunInv, Through
<1>5. \A q \in Requests \ {r} : q \notin lost /\ run[q].op = "show" =>
        run[q].pc = "insert" /\ run[q].on \notin DOMAIN qr'
  BY <1>2 DEF CodeInv, CodeRun, Showing, HasRow
<1>6. \A q \in Requests \ {r} : q \notin lost /\ run[q].op = "claim" =>
        /\ run[q].pc = "write"
        /\ \/ run[q].on \in crossed'
           \/ qr'[run[q].on].claimed => run[q].seen = qr'[run[q].on].label
  BY <1>2 DEF CodeInv, CodeRun, Claiming, Labelled, Row
<1>7. ASSUME NEW x, Becomes(r, x), x.op # "show", x.op # "claim", x.op # "finish", CodeRun(r)'
      PROVE  CodeInv'
  <2>1. \A d \in Codes : Finishers(d)' \subseteq Finishers(d)
    BY <1>2, <1>7 DEF Finishers, Becomes
  <2>. QED BY <1>2, <1>3, <1>5, <1>6, <1>7, <2>1, CodeMoves
<1>8. CASE BeginShow(r, s, c, label)
  <2>. DEFINE x == [op |-> "show", pc |-> "insert", by |-> s, on |-> c,
                    account |-> session[s].account, seen |-> label]
  <2>1. Becomes(r, x) /\ x.op = "show" /\ x.on = c /\ x.pc = "insert"
    BY <1>1, <1>8, BeginRun DEF BeginShow
  <2>. HIDE DEF x
  <2>2. \A q \in Requests \ {r} : q \notin lost /\ run[q].op = "show" => c # run[q].on
    BY <1>5, <1>8 DEF BeginShow, Working
  <2>3. CodeRun(r)'
    <3>1. Only(r, "show")'
      BY <1>2, <2>1, <2>2 DEF Only, Becomes
    <3>. QED BY <1>2, <1>8, <2>1, <3>1
            DEF BeginShow, HasRow, Becomes, CodeRun, Showing, Scanning, Claiming, Confirming,
                Finishing
  <2>4. \A d \in Codes : Finishers(d)' \subseteq Finishers(d)
    BY <1>2, <2>1 DEF Finishers, Becomes
  <2>. QED BY <1>2, <1>3, <1>5, <1>6, <2>1, <2>2, <2>3, <2>4, CodeMoves
<1>9. CASE BeginScan(r, s, c, label)
  <2>. DEFINE x == [op |-> "scan", pc |-> "find", by |-> s, on |-> c,
                    account |-> session[s].account, seen |-> label]
  <2>1. Becomes(r, x) /\ x.op = "scan" /\ x.on = c
    BY <1>1, <1>9, BeginRun DEF BeginScan
  <2>. HIDE DEF x
  <2>2. CodeRun(r)'
    BY <1>9, <2>1 DEF BeginScan, Becomes, CodeRun, Showing, Scanning, Claiming, Confirming,
       Finishing
  <2>. QED BY <1>7, <2>1, <2>2
<1>10. CASE BeginClaim(r, c, label)
  <2>. DEFINE x == [op |-> "claim", pc |-> "write", by |-> Nothing, on |-> c,
                    account |-> Nothing, seen |-> label]
  <2>1. Becomes(r, x) /\ x.op = "claim" /\ x.on = c /\ x.seen = label /\ x.pc = "write"
    BY <1>1, <1>10, BeginRun DEF BeginClaim
  <2>. HIDE DEF x
  <2>2. ASSUME NEW q \in Requests \ {r}, q \notin lost, run[q].op = "claim", run[q].on = c
        PROVE  c \in crossed'
    <3>1. q \in Running("claim")
      BY <1>6, <2>2 DEF Running, Working
    <3>. QED BY <1>10, <2>2, <3>1 DEF BeginClaim
  <2>3. HasRow(c) /\ (Row(c).claimed => Row(c).label = label)
    BY <1>10 DEF BeginClaim, Claimable
  <2>4. CodeRun(r)'
    <3>1. c \in crossed' \/ Only(r, "claim")'
      BY <1>2, <2>1, <2>2 DEF Only, Becomes
    <3>. QED BY <1>2, <2>1, <2>3, <3>1
            DEF HasRow, Row, Labelled, Becomes, CodeRun, Showing, Scanning, Claiming, Confirming,
                Finishing
  <2>5. \A d \in Codes : Finishers(d)' \subseteq Finishers(d)
    BY <1>2, <2>1 DEF Finishers, Becomes
  <2>6. \A q \in Requests \ {r} : q \notin lost /\ run[q].op = "claim" =>
          \/ run[q].on \in crossed'
          \/ /\ qr'[run[q].on].claimed => run[q].seen = qr'[run[q].on].label
             /\ x.op = "claim" => x.on # run[q].on
    BY <1>6, <2>1, <2>2
  <2>. QED BY <1>2, <1>3, <1>5, <2>1, <2>4, <2>5, <2>6, CodeMoves
<1>11. CASE BeginConfirm(r, s, c)
  <2>. DEFINE x == [op |-> "confirm", pc |-> "row", by |-> s, on |-> c,
                    account |-> session[s].account, seen |-> Row(c).label]
  <2>1. /\ Becomes(r, x) /\ x.op = "confirm" /\ x.on = c /\ x.pc = "row" /\ x.by = s
        /\ x.account = session[s].account /\ x.seen = Row(c).label
    BY <1>1, <1>11, BeginRun DEF BeginConfirm
  <2>. HIDE DEF x
  <2>2. HasRow(c) /\ Row(c).claimed /\ s \in DOMAIN session
    BY <1>11 DEF BeginConfirm, State, Usable
  <2>3. CodeRun(r)'
    BY <1>2, <2>1, <2>2 DEF HasRow, Row, Labelled, Becomes, CodeRun, Showing, Scanning, Claiming,
       Confirming, Finishing
  <2>. QED BY <1>7, <2>1, <2>3
<1>12. CASE BeginFinish(r, c)
  <2>. DEFINE x == [op |-> "finish", pc |-> "session", by |-> Nothing, on |-> c,
                    account |-> Row(c).account, seen |-> Row(c).label]
  <2>1. /\ Becomes(r, x) /\ x.op = "finish" /\ x.on = c /\ x.pc = "session"
        /\ x.account = Row(c).account /\ x.seen = Row(c).label
    BY <1>1, <1>12, BeginRun DEF BeginFinish
  <2>. HIDE DEF x
  <2>2. HasRow(c) /\ Row(c).approver # Nothing /\ ~Row(c).consumed
    BY <1>12 DEF BeginFinish, Finishable, State
  <2>3. ApprovedRight(c)
    BY <2>2 DEF CodeInv, ApprovalsRight, HasRow, Row
  <2>4. ApprovedRight(c)'
    BY <1>3, <2>2, <2>3 DEF RowsKept, HasRow
  <2>5. CodeRun(r)'
    BY <1>2, <1>4, <2>1, <2>4 DEF HasRow, Row, Labelled, OwnRow, ApprovedRight, Becomes, CodeRun,
       Showing, Scanning, Claiming, Confirming, Finishing
  <2>6. Finishers(c) = FinishesOf(c)
    <3>1. ASSUME NEW q \in Finishers(c)
          PROVE  q \in FinishesOf(c)
      <4>1. q \in Requests \ lost /\ run[q].op = "finish" /\ run[q].on = c /\ Finishing(q)
        BY <3>1 DEF Finishers, CodeInv, CodeRun
      <4>. QED BY <2>2, <4>1 DEF Finishing, FinishesOf, Running, Working
    <3>. QED BY <3>1 DEF Finishers, FinishesOf, Running, Working
  <2>7. Cardinality(Finishers(c))' <= MaxFinishes
    <3>1. Finishers(c)' \subseteq Finishers(c) \cup {r}
      BY <1>2, <2>1 DEF Finishers, Becomes
    <3>2. IsFiniteSet(Finishers(c)) /\ Cardinality(Finishers(c)) < MaxFinishes
      BY <1>12, <2>6, SessionsAssumption, FS_Subset DEF Finishers, BeginFinish
    <3>3. PICK T : T = Finishers(c)'
      OBVIOUS
    <3>4. /\ Cardinality(T) <= Cardinality(Finishers(c)) + 1 /\ Cardinality(T) \in Nat
          /\ Cardinality(Finishers(c)) \in Nat
      BY <3>1, <3>2, <3>3, OneMore, FS_CardinalityType
    <3>5. Cardinality(T) <= MaxFinishes
      BY <3>2, <3>4, DeviceLinksAssumption
    <3>. QED BY <3>3, <3>5
  <2>8. \A d \in Codes : d # c => Finishers(d)' \subseteq Finishers(d)
    BY <1>2, <2>1 DEF Finishers, Becomes
  <2>. QED BY <1>2, <1>3, <1>5, <1>6, <2>1, <2>5, <2>7, <2>8, CodeMoves
<1>. QED BY <1>8, <1>9, <1>10, <1>11, <1>12

\* A row after a change of a field, of two.
LEMMA RowField ==
  ASSUME NEW y, IsRow(y), NEW v
  PROVE  /\ [y EXCEPT !.label = v] =
              [mode |-> y.mode, account |-> y.account, label |-> v, claimed |-> y.claimed,
               approver |-> y.approver, shown |-> y.shown, consumed |-> y.consumed]
         /\ [y EXCEPT !.claimed = v] =
              [mode |-> y.mode, account |-> y.account, label |-> y.label, claimed |-> v,
               approver |-> y.approver, shown |-> y.shown, consumed |-> y.consumed]
         /\ [y EXCEPT !.approver = v] =
              [mode |-> y.mode, account |-> y.account, label |-> y.label, claimed |-> y.claimed,
               approver |-> v, shown |-> y.shown, consumed |-> y.consumed]
         /\ [y EXCEPT !.shown = v] =
              [mode |-> y.mode, account |-> y.account, label |-> y.label, claimed |-> y.claimed,
               approver |-> y.approver, shown |-> v, consumed |-> y.consumed]
         /\ [y EXCEPT !.consumed = v] =
              [mode |-> y.mode, account |-> y.account, label |-> y.label, claimed |-> y.claimed,
               approver |-> y.approver, shown |-> y.shown, consumed |-> v]
<1>1. [y EXCEPT !.label = v] =
        [mode |-> y.mode, account |-> y.account, label |-> v, claimed |-> y.claimed,
         approver |-> y.approver, shown |-> y.shown, consumed |-> y.consumed]
  BY DEF IsRow
<1>2. [y EXCEPT !.claimed = v] =
        [mode |-> y.mode, account |-> y.account, label |-> y.label, claimed |-> v,
         approver |-> y.approver, shown |-> y.shown, consumed |-> y.consumed]
  BY DEF IsRow
<1>3. [y EXCEPT !.approver = v] =
        [mode |-> y.mode, account |-> y.account, label |-> y.label, claimed |-> y.claimed,
         approver |-> v, shown |-> y.shown, consumed |-> y.consumed]
  BY DEF IsRow
<1>4. [y EXCEPT !.shown = v] =
        [mode |-> y.mode, account |-> y.account, label |-> y.label, claimed |-> y.claimed,
         approver |-> y.approver, shown |-> v, consumed |-> y.consumed]
  BY DEF IsRow
<1>5. [y EXCEPT !.consumed = v] =
        [mode |-> y.mode, account |-> y.account, label |-> y.label, claimed |-> y.claimed,
         approver |-> y.approver, shown |-> y.shown, consumed |-> v]
  BY DEF IsRow
<1>. QED BY <1>1, <1>2, <1>3, <1>4, <1>5

LEMMA RowClaims ==
  ASSUME NEW y, IsRow(y), NEW v, NEW w
  PROVE  [y EXCEPT !.label = v, !.claimed = w] =
           [mode |-> y.mode, account |-> y.account, label |-> v, claimed |-> w,
            approver |-> y.approver, shown |-> y.shown, consumed |-> y.consumed]
<1>1. PICK z : z = [y EXCEPT !.label = v]
  OBVIOUS
<1>2. z = [mode |-> y.mode, account |-> y.account, label |-> v, claimed |-> y.claimed,
           approver |-> y.approver, shown |-> y.shown, consumed |-> y.consumed]
  BY <1>1, RowField
<1>3. IsRow(z)
  BY <1>2 DEF IsRow
<1>4. [z EXCEPT !.claimed = w] =
        [mode |-> z.mode, account |-> z.account, label |-> z.label, claimed |-> w,
         approver |-> z.approver, shown |-> z.shown, consumed |-> z.consumed]
  BY <1>3, RowField
<1>5. [y EXCEPT !.label = v, !.claimed = w] = [z EXCEPT !.claimed = w]
  BY <1>1
<1>. QED BY <1>2, <1>4, <1>5

LEMMA RowApproves ==
  ASSUME NEW y, IsRow(y), NEW v, NEW w
  PROVE  [y EXCEPT !.approver = v, !.shown = w] =
           [mode |-> y.mode, account |-> y.account, label |-> y.label, claimed |-> y.claimed,
            approver |-> v, shown |-> w, consumed |-> y.consumed]
<1>1. PICK z : z = [y EXCEPT !.approver = v]
  OBVIOUS
<1>2. z = [mode |-> y.mode, account |-> y.account, label |-> y.label, claimed |-> y.claimed,
           approver |-> v, shown |-> y.shown, consumed |-> y.consumed]
  BY <1>1, RowField
<1>3. IsRow(z)
  BY <1>2 DEF IsRow
<1>4. [z EXCEPT !.shown = w] =
        [mode |-> z.mode, account |-> z.account, label |-> z.label, claimed |-> z.claimed,
         approver |-> z.approver, shown |-> w, consumed |-> z.consumed]
  BY <1>3, RowField
<1>5. [y EXCEPT !.approver = v, !.shown = w] = [z EXCEPT !.shown = w]
  BY <1>1
<1>. QED BY <1>2, <1>4, <1>5

LEMMA ReplaceRow ==
  ASSUME RowsOK, NEW c \in DOMAIN qr, NEW x, IsRow(x), qr' = [qr EXCEPT ![c] = x]
  PROVE  /\ RowsOK' /\ DOMAIN qr' = DOMAIN qr /\ qr'[c] = x
         /\ \A d \in DOMAIN qr \ {c} : qr'[d] = qr[d]
<1>1. qr' = [d \in DOMAIN qr |-> IF d = c THEN x ELSE qr[d]]
  BY DEF RowsOK
<1>2. DOMAIN qr' = DOMAIN qr /\ qr'[c] = x /\ \A d \in DOMAIN qr \ {c} : qr'[d] = qr[d]
  BY <1>1
<1>3. qr' = [d \in DOMAIN qr' |-> qr'[d]]
  BY <1>1
<1>. QED BY <1>2, <1>3 DEF RowsOK

\* A row is inserted.
LEMMA CodeInserts ==
  ASSUME CodeInv, NEW r \in Requests, Becomes(r, NotStarted), UNCHANGED <<lost, session, crossed>>,
         NEW c, ~HasRow(c), NEW mode, NEW account, NEW label, NEW claimed,
         InsertRow(c, mode, account, label, claimed),
         \A q \in Requests \ {r} : q \notin lost /\ run[q].op = "show" => run[q].on # c
  PROVE  CodeInv'
<1>1. /\ DOMAIN qr' = DOMAIN qr \cup {c} /\ qr'[c].approver = Nothing /\ IsRow(qr'[c])
      /\ \A d \in DOMAIN qr : qr'[d] = qr[d] /\ d # c
      /\ qr' = [d \in DOMAIN qr' |-> qr'[d]]
  BY DEF InsertRow, HasRow, IsRow
<1>2. NotStarted.op = "none"
  BY DEF NotStarted
<1>3. SessionsGrow(r) /\ RowsOK'
  BY <1>1 DEF SessionsGrow, CodeInv, RowsOK
<1>4. \A d \in DOMAIN qr : ApprovedRight(d) => ApprovedRight(d)'
  BY <1>1 DEF ApprovedRight, HasRow, Row
<1>5. RowsKept
  BY <1>1, <1>4 DEF RowsKept
<1>6. ApprovalsRight'
  BY <1>1, <1>4 DEF CodeInv, ApprovalsRight
<1>7. CodeRun(r)'
  BY <1>2 DEF Becomes, CodeRun, Showing, Scanning, Claiming, Confirming, Finishing
<1>8. \A q \in Requests \ {r} : q \notin lost /\ run[q].op = "show" => run[q].on \notin DOMAIN qr'
  BY <1>1 DEF CodeInv, CodeRun, Showing, HasRow
<1>9. \A q \in Requests \ {r} : q \notin lost /\ run[q].op = "claim" =>
        \/ run[q].on \in crossed'
        \/ qr'[run[q].on].claimed => run[q].seen = qr'[run[q].on].label
  BY <1>1 DEF CodeInv, CodeRun, Claiming, Labelled, HasRow, Row
<1>10. \A d \in Codes : Finishers(d)' \subseteq Finishers(d)
  BY <1>2 DEF Finishers, Becomes
<1>. QED BY <1>2, <1>3, <1>5, <1>6, <1>7, <1>8, <1>9, <1>10, CodeMoves

\* A row that is there is written, and says nothing new to the runs.
LEMMA CodeWrites ==
  ASSUME CodeInv, NEW r \in Requests, NEW x, Becomes(r, x), x.op \in {"none", "finish"},
         x.op = "none" \/ (run[r].op = "finish" /\ x.on = run[r].on),
         UNCHANGED <<lost, session, crossed>>,
         NEW c \in DOMAIN qr, NEW y, IsRow(y), qr' = [qr EXCEPT ![c] = y],
         y.account = qr[c].account, qr[c].consumed => y.consumed, qr[c].claimed => y.claimed,
         qr[c].claimed => c \in crossed \/ y.label = qr[c].label,
         y.approver # Nothing => ApprovedRight(c)', ApprovedRight(c) => ApprovedRight(c)',
         CodeRun(r)',
         \A q \in Requests \ {r} : q \notin lost /\ run[q].op = "claim" /\ run[q].on = c =>
           c \in crossed \/ (y.claimed => run[q].seen = y.label)
  PROVE  CodeInv'
<1>1. /\ RowsOK' /\ DOMAIN qr' = DOMAIN qr /\ qr'[c] = y
      /\ \A d \in DOMAIN qr \ {c} : qr'[d] = qr[d]
  BY ReplaceRow DEF CodeInv
<1>2. SessionsGrow(r)
  BY DEF SessionsGrow
<1>3. \A d \in DOMAIN qr \ {c} : ApprovedRight(d) => ApprovedRight(d)'
  BY <1>1 DEF ApprovedRight, HasRow, Row
<1>4. RowsKept
  BY <1>1, <1>3 DEF RowsKept
<1>5. ApprovalsRight'
  BY <1>1, <1>3 DEF CodeInv, ApprovalsRight
<1>6. \A q \in Requests \ {r} : q \notin lost /\ run[q].op = "show" => run[q].on \notin DOMAIN qr'
  BY <1>1 DEF CodeInv, CodeRun, Showing, HasRow
<1>7. ASSUME NEW q \in Requests \ {r}, q \notin lost, run[q].op = "claim"
      PROVE  \/ run[q].on \in crossed'
             \/ qr'[run[q].on].claimed => run[q].seen = qr'[run[q].on].label
  <2>1. HasRow(run[q].on) /\ (run[q].on \in crossed \/ (Row(run[q].on).claimed => Labelled(q)))
    BY <1>7 DEF CodeInv, CodeRun, Claiming
  <2>2. CASE run[q].on = c
    BY <1>1, <1>7, <2>2
  <2>3. CASE run[q].on # c
    BY <1>1, <1>7, <2>1, <2>3 DEF Labelled, HasRow, Row
  <2>. QED BY <2>2, <2>3
<1>8. \A d \in Codes : Finishers(d)' \subseteq Finishers(d)
  BY DEF Finishers, Becomes
<1>9. x.op # "show" /\ x.op # "claim"
  OBVIOUS
<1>. QED BY <1>1, <1>2, <1>4, <1>5, <1>6, <1>7, <1>8, <1>9, CodeMoves

\* The later statements of the handlers.
LEMMA CodeStatements ==
  ASSUME Base, CodeInv, NEW r \in Requests,
         \/ InsertShown(r) \/ FindScanned(r) \/ InsertScanned(r) \/ WriteClaim(r)
         \/ ReadRow(r) \/ Approve(r) \/ OpenLinked(r) \/ ConsumeCode(r)
  PROVE  CodeInv'
<1>c. PICK c : c = run[r].on
  OBVIOUS
<1>. DEFINE On(to) == Moved(run[r], to, run[r].account, run[r].seen)
<1>1. RunsOK /\ SessionsOK /\ RowsOK /\ CodeRun(r)
  BY DEF Base, MailInv, FieldsOK, CodeInv
<1>2. NotStarted.op = "none"
  BY DEF NotStarted
<1>3. Becomes(r, NotStarted) => CodeRun(r)'
  BY <1>2 DEF Becomes, CodeRun, Showing, Scanning, Claiming, Confirming, Finishing
<1>4. ASSUME Becomes(r, NotStarted), UNCHANGED <<lost, session, qr, crossed>>
      PROVE  CodeInv'
  BY <1>2, <1>3, <1>4, CodeRunMoves
<1>5. ASSUME NEW op, NEW from, NEW to, Advance(r, op, from, to)
      PROVE  /\ Becomes(r, On(to)) /\ run[r].op = op /\ run[r].pc = from /\ r \notin lost
             /\ On(to).op = op /\ On(to).on = c /\ On(to).pc = to /\ On(to).by = run[r].by
             /\ On(to).account = run[r].account /\ On(to).seen = run[r].seen
  BY <1>c, <1>1, <1>5, AdvanceRun DEF Moved, Advance, At
<1>6. ASSUME NEW op, NEW from, Finish(r, op, from)
      PROVE  Becomes(r, NotStarted) /\ run[r].op = op /\ run[r].pc = from /\ r \notin lost
  BY <1>c, <1>1, <1>6, FinishRun DEF Finish, At
<1>. HIDE DEF On
<1>7. CASE InsertShown(r)
  <2>1. Becomes(r, NotStarted) /\ run[r].op = "show" /\ r \notin lost
    BY <1>6, <1>7 DEF InsertShown
  <2>2. ~HasRow(c) /\ Only(r, "show")
    BY <1>c, <1>1, <2>1 DEF CodeRun, Showing
  <2>3. \A q \in Requests \ {r} : q \notin lost /\ run[q].op = "show" => run[q].on # c
    BY <1>c, <2>2 DEF Only
  <2>4. InsertRow(c, "source_display", run[r].account, run[r].seen, FALSE)
    BY <1>c, <1>7 DEF InsertShown
  <2>5. UNCHANGED <<lost, session, crossed>>
    BY <1>c, <1>7 DEF InsertShown
  <2>. QED BY <2>1, <2>2, <2>3, <2>4, <2>5, CodeInserts
<1>8. CASE FindScanned(r)
  <2>1. UNCHANGED <<lost, session, qr, crossed>>
    BY <1>8 DEF FindScanned, qrVars
  <2>2. CASE Finish(r, "scan", "find")
    BY <1>4, <1>6, <2>1, <2>2
  <2>3. CASE Advance(r, "scan", "find", "insert")
    <3>1. Becomes(r, On("insert")) /\ On("insert").op = "scan" /\ On("insert").on = c
          /\ run[r].op = "scan"
      BY <1>5, <2>3
    <3>2. CodeRun(r)'
      BY <1>c, <1>1, <3>1 DEF Becomes, CodeRun, Showing, Scanning, Claiming, Confirming, Finishing
    <3>. QED BY <2>1, <3>1, <3>2, CodeRunMoves
  <2>. QED BY <1>8, <2>2, <2>3 DEF FindScanned
<1>9. CASE InsertScanned(r)
  <2>1. /\ Becomes(r, NotStarted) /\ run[r].op = "scan" /\ r \notin lost
        /\ UNCHANGED <<lost, session, crossed>>
    BY <1>6, <1>9 DEF InsertScanned
  <2>2. CASE HasRow(c)
    BY <1>c, <1>4, <1>9, <2>1, <2>2 DEF InsertScanned
  <2>3. CASE ~HasRow(c)
    <3>1. c \in DeviceCodes
      BY <1>c, <1>1, <2>1 DEF CodeRun, Scanning
    <3>2. ASSUME NEW q \in Requests \ {r}, q \notin lost, run[q].op = "show"
          PROVE  run[q].on # c
      BY <3>1, <3>2, DeviceLinksAssumption DEF CodeInv, CodeRun, Showing
    <3>3. InsertRow(c, "target_display", run[r].account, run[r].seen, TRUE)
      BY <1>c, <1>9, <2>3 DEF InsertScanned
    <3>. QED BY <2>1, <2>3, <3>2, <3>3, CodeInserts
  <2>. QED BY <2>2, <2>3
<1>10. CASE WriteClaim(r)
  <2>1. /\ Becomes(r, NotStarted) /\ run[r].op = "claim" /\ r \notin lost
        /\ UNCHANGED <<lost, session, crossed>>
    BY <1>6, <1>10 DEF WriteClaim
  <2>2. /\ c \in DOMAIN qr /\ IsRow(qr[c])
        /\ c \in crossed \/ ((qr[c].claimed => run[r].seen = qr[c].label) /\ Only(r, "claim"))
    BY <1>c, <1>1, <2>1 DEF CodeRun, Claiming, HasRow, Row, Labelled, RowsOK
  <2>3. PICK y : y = [mode |-> qr[c].mode, account |-> qr[c].account, label |-> run[r].seen,
                      claimed |-> TRUE, approver |-> qr[c].approver, shown |-> qr[c].shown,
                      consumed |-> qr[c].consumed]
    OBVIOUS
  <2>4. /\ IsRow(y) /\ y.account = qr[c].account /\ y.claimed /\ y.label = run[r].seen
        /\ y.approver = qr[c].approver /\ y.shown = qr[c].shown /\ y.consumed = qr[c].consumed
    BY <2>3 DEF IsRow
  <2>5. qr' = [qr EXCEPT ![c] = y]
    <3>1. qr' = [qr EXCEPT ![c] = [qr[c] EXCEPT !.label = run[r].seen, !.claimed = TRUE]]
      BY <1>c, <1>1, <1>10, <2>2 DEF WriteClaim, RowsOK
    <3>2. PICK z, v, w : IsRow(z) /\ z = qr[c] /\ v = run[r].seen /\ w = TRUE
      BY <2>2
    <3>3. [z EXCEPT !.label = v, !.claimed = w] =
            [mode |-> z.mode, account |-> z.account, label |-> v, claimed |-> w,
             approver |-> z.approver, shown |-> z.shown, consumed |-> z.consumed]
      <4>1. IsRow(z)
        BY <3>2
      <4>. QED BY ONLY <4>1, RowClaims
    <3>4. [z EXCEPT !.label = v, !.claimed = w] = y
      BY <2>3, <3>2, <3>3
    <3>5. qr' = [qr EXCEPT ![c] = [z EXCEPT !.label = v, !.claimed = w]]
      BY <3>1, <3>2
    <3>. QED BY <3>4, <3>5
  <2>6. qr'[c] = y /\ DOMAIN qr' = DOMAIN qr
    BY <1>c, <1>1, <2>2, <2>4, <2>5, ReplaceRow
  <2>7. ApprovedRight(c) => c \in crossed \/ y.label = qr[c].label
    BY <2>2, <2>4 DEF ApprovedRight, Row
  <2>8. ApprovedRight(c) => ApprovedRight(c)'
    BY <2>1, <2>2, <2>4, <2>6, <2>7 DEF ApprovedRight, HasRow, Row
  <2>9. y.approver # Nothing => ApprovedRight(c)'
    BY <2>2, <2>4, <2>8 DEF CodeInv, ApprovalsRight
  <2>10. \A q \in Requests \ {r} : q \notin lost /\ run[q].op = "claim" /\ run[q].on = c =>
           c \in crossed
    BY <1>c, <2>2 DEF Only
  <2>11. qr[c].claimed => c \in crossed \/ y.label = qr[c].label
    BY <2>2, <2>4
  <2>. QED BY <1>2, <1>3, <2>1, <2>2, <2>4, <2>5, <2>8, <2>9, <2>10, <2>11, CodeWrites
<1>11. CASE ReadRow(r)
  <2>1. UNCHANGED <<lost, session, qr, crossed>>
    BY <1>11 DEF ReadRow, qrVars
  <2>2. CASE Finish(r, "confirm", "row")
    BY <1>4, <1>6, <2>1, <2>2
  <2>3. CASE Advance(r, "confirm", "row", "approve") /\ OwnRow(r)
    <3>1. /\ Becomes(r, On("approve")) /\ On("approve").op = "confirm" /\ On("approve").on = c
          /\ run[r].op = "confirm" /\ On("approve").by = run[r].by
          /\ On("approve").account = run[r].account /\ On("approve").seen = run[r].seen
      BY <1>5, <2>3
    <3>2. CodeRun(r)'
      BY <1>c, <1>1, <2>1, <2>3, <3>1 DEF Becomes, CodeRun, Showing, Scanning, Claiming, Confirming,
         Finishing, HasRow, Row, Labelled, OwnRow
    <3>. QED BY <2>1, <3>1, <3>2, CodeRunMoves
  <2>. QED BY <1>11, <2>2, <2>3 DEF ReadRow
<1>12. CASE Approve(r)
  <2>1. /\ Becomes(r, NotStarted) /\ run[r].op = "confirm" /\ run[r].pc = "approve" /\ r \notin lost
        /\ UNCHANGED <<lost, session, crossed>>
    BY <1>6, <1>12 DEF Approve
  <2>2. /\ c \in DOMAIN qr /\ IsRow(qr[c]) /\ qr[c].claimed
        /\ c \in crossed \/ run[r].seen = qr[c].label
        /\ run[r].by \in DOMAIN session /\ session[run[r].by].account = qr[c].account
    BY <1>c, <1>1, <2>1 DEF CodeRun, Confirming, HasRow, Row, Labelled, OwnRow, RowsOK
  <2>3. PICK y : y = [mode |-> qr[c].mode, account |-> qr[c].account, label |-> qr[c].label,
                      claimed |-> qr[c].claimed, approver |-> run[r].by, shown |-> run[r].seen,
                      consumed |-> qr[c].consumed]
    OBVIOUS
  <2>4. /\ IsRow(y) /\ y.account = qr[c].account /\ y.claimed /\ y.label = qr[c].label
        /\ y.approver = run[r].by /\ y.shown = run[r].seen /\ y.consumed = qr[c].consumed
    BY <2>2, <2>3 DEF IsRow
  <2>5. qr' = [qr EXCEPT ![c] = y]
    <3>1. PICK z, v, w : IsRow(z) /\ z = qr[c] /\ v = run[r].by /\ w = run[r].seen
      BY <2>2
    <3>2. [z EXCEPT !.approver = v, !.shown = w] =
            [mode |-> z.mode, account |-> z.account, label |-> z.label,
             claimed |-> z.claimed, approver |-> v, shown |-> w, consumed |-> z.consumed]
      BY <3>1, RowApproves
    <3>3. [z EXCEPT !.approver = v, !.shown = w] = y
      BY <2>3, <3>1, <3>2
    <3>4. Approved(r) = [z EXCEPT !.approver = v, !.shown = w]
      BY <1>c, <3>1 DEF Approved, Row
    <3>. QED BY <1>c, <1>12, <3>3, <3>4 DEF Approve
  <2>6. qr'[c] = y /\ DOMAIN qr' = DOMAIN qr
    BY <1>c, <1>1, <2>2, <2>4, <2>5, ReplaceRow
  <2>7. ApprovedRight(c)'
    BY <2>1, <2>2, <2>4, <2>6 DEF ApprovedRight, HasRow, Row
  <2>8. ASSUME NEW q \in Requests \ {r}, q \notin lost, run[q].op = "claim", run[q].on = c
        PROVE  c \in crossed \/ (y.claimed => run[q].seen = y.label)
    BY <2>2, <2>4, <2>8 DEF CodeInv, CodeRun, Claiming, Labelled, Row
  <2>. QED BY <1>2, <1>3, <2>1, <2>2, <2>4, <2>5, <2>7, <2>8, CodeWrites
<1>13. CASE ConsumeCode(r)
  <2>1. /\ Becomes(r, On("done")) /\ run[r].op = "finish" /\ r \notin lost
        /\ On("done").op = "finish" /\ On("done").on = c /\ On("done").pc = "done"
        /\ On("done").account = run[r].account /\ On("done").seen = run[r].seen
        /\ UNCHANGED <<lost, session, crossed>>
    BY <1>5, <1>13 DEF ConsumeCode
  <2>2. c \in DOMAIN qr /\ IsRow(qr[c]) /\ ApprovedRight(c)
    BY <1>c, <1>1, <2>1 DEF CodeRun, Finishing, ApprovedRight, HasRow, RowsOK
  <2>3. PICK y : y = [mode |-> qr[c].mode, account |-> qr[c].account, label |-> qr[c].label,
                      claimed |-> qr[c].claimed, approver |-> qr[c].approver,
                      shown |-> qr[c].shown, consumed |-> TRUE]
    OBVIOUS
  <2>4. /\ IsRow(y) /\ y.account = qr[c].account /\ y.claimed = qr[c].claimed
        /\ y.label = qr[c].label /\ y.approver = qr[c].approver /\ y.shown = qr[c].shown
        /\ y.consumed
    BY <2>3 DEF IsRow
  <2>5. qr' = [qr EXCEPT ![c] = y]
    <3>1. qr' = [qr EXCEPT ![c] = [qr[c] EXCEPT !.consumed = TRUE]]
      BY <1>c, <1>1, <1>13, <2>2 DEF ConsumeCode, RowsOK
    <3>2. [qr[c] EXCEPT !.consumed = TRUE] = y
      BY <2>2, <2>3, RowField
    <3>. QED BY <3>1, <3>2
  <2>6. qr'[c] = y /\ DOMAIN qr' = DOMAIN qr
    BY <1>c, <1>1, <2>2, <2>4, <2>5, ReplaceRow
  <2>7. run'[r].op = "finish" /\ run'[r].on = c /\ run'[r].account = run[r].account
        /\ run'[r].seen = run[r].seen
    BY <2>1 DEF Becomes
  <2>8. ApprovedRight(c)'
    BY <2>1, <2>2, <2>4, <2>6 DEF ApprovedRight, HasRow, Row
  <2>11. CodeRun(r)'
    <3>1. /\ qr[c].account = run[r].account
          /\ c \in crossed \/ run[r].seen = qr[c].label
          /\ r \in DOMAIN session => session[r].account = run[r].account
      BY <1>c, <1>1, <2>1 DEF CodeRun, Finishing, Labelled, OwnRow, Row
    <3>2. run'[r].pc = "done" /\ c \in DOMAIN qr
      BY <2>1, <2>2 DEF Becomes
    <3>3. /\ qr'[c].account = run'[r].account /\ qr'[c].consumed
          /\ c \in crossed' \/ run'[r].seen = qr'[c].label
          /\ r \in DOMAIN session' => session'[r].account = run'[r].account
      <4>1. qr'[c].account = run'[r].account
        BY <1>c, <2>4, <2>6, <2>7, <3>1
      <4>2. qr'[c].consumed
        BY <2>4, <2>6
      <4>3. c \in crossed' \/ run'[r].seen = qr'[c].label
        BY <2>1, <2>4, <2>6, <2>7, <3>1
      <4>4. r \in DOMAIN session' => session'[r].account = run'[r].account
        BY <2>1, <2>7, <3>1
      <4>. QED BY <4>1, <4>2, <4>3, <4>4
    <3>4. ApprovedRight(run[r].on)'
      <4>1. ASSUME NEW d, d = run'[r].on
            PROVE  ApprovedRight(d)'
        BY <2>7, <2>8, <4>1
      <4>. QED BY <4>1 DEF ApprovedRight, HasRow, Row
    <3>5. Finishing(r)'
      BY <2>7, <3>2, <3>3, <3>4 DEF Finishing, Row, Labelled, OwnRow
    <3>. QED BY <2>7, <3>5 DEF CodeRun, Showing, Scanning, Claiming, Confirming
  <2>9. ASSUME NEW q \in Requests \ {r}, q \notin lost, run[q].op = "claim", run[q].on = c
        PROVE  c \in crossed \/ (y.claimed => run[q].seen = y.label)
    BY <2>2, <2>4, <2>9 DEF CodeInv, CodeRun, Claiming, Labelled, Row
  <2>10. run[r].op = "finish" /\ On("done").on = run[r].on
    BY <1>c, <2>1
  <2>. QED BY <2>1, <2>2, <2>4, <2>5, <2>8, <2>9, <2>10, <2>11, CodeWrites
<1>14. CASE OpenLinked(r)
  <2>1. /\ Becomes(r, On("consume")) /\ run[r].op = "finish" /\ run[r].pc = "session"
        /\ r \notin lost /\ On("consume").op = "finish" /\ On("consume").on = c
        /\ On("consume").pc = "consume"
        /\ On("consume").account = run[r].account /\ On("consume").seen = run[r].seen
        /\ UNCHANGED <<lost, qr, crossed>>
    BY <1>5, <1>14 DEF OpenLinked, qrVars
  <2>2. /\ session'[r].account = run[r].account /\ DOMAIN session' = DOMAIN session \cup {r}
        /\ \A s \in DOMAIN session \ {r} : session'[s] = session[s]
    BY <1>c, <1>1, <1>14, Created DEF OpenLinked
  <2>3. r \notin DOMAIN session
    BY <2>1 DEF Base, MailInv, RunInv, Through
  <2>4. SessionsGrow(r)
    BY <2>2, <2>3 DEF SessionsGrow
  <2>5. \A d \in DOMAIN qr : ApprovedRight(d) => ApprovedRight(d)'
    BY <2>1, <2>4 DEF ApprovedRight, HasRow, Row, SessionsGrow
  <2>6. RowsKept /\ RowsOK' /\ ApprovalsRight'
    BY <2>1, <2>5 DEF RowsKept, CodeInv, RowsOK, ApprovalsRight
  <2>7. CodeRun(r)'
    BY <1>c, <1>1, <2>1, <2>2, <2>5 DEF Becomes, CodeRun, Showing, Scanning, Claiming, Confirming,
       Finishing, HasRow, Row, Labelled, OwnRow, ApprovedRight
  <2>8. \A q \in Requests \ {r} : q \notin lost /\ run[q].op = "show" => run[q].on \notin DOMAIN qr'
    BY <2>1 DEF CodeInv, CodeRun, Showing, HasRow
  <2>9. \A q \in Requests \ {r} : q \notin lost /\ run[q].op = "claim" =>
          \/ run[q].on \in crossed'
          \/ qr'[run[q].on].claimed => run[q].seen = qr'[run[q].on].label
    BY <2>1 DEF CodeInv, CodeRun, Claiming, Labelled, Row
  <2>10. \A d \in Codes : Finishers(d)' \subseteq Finishers(d)
    BY <1>c, <2>1 DEF Finishers, Becomes
  <2>11. On("consume").op # "show" /\ On("consume").op # "claim"
    BY <2>1
  <2>. QED BY <2>1, <2>4, <2>6, <2>7, <2>8, <2>9, <2>10, <2>11, CodeMoves
<1>. QED BY <1>7, <1>8, <1>9, <1>10, <1>11, <1>12, <1>13, <1>14

LEMMA CodeKept == Base /\ CodeInv /\ [SignInNext]_vars => CodeInv'
<1>. SUFFICES ASSUME Base, CodeInv, [SignInNext]_vars PROVE CodeInv'
  OBVIOUS
<1>1. MailInv
  BY DEF Base
<1>2. CASE SessionNext /\ UNCHANGED qrVars
  <2>1. Leaves(SessionOps) /\ SessionOps \cap CodeOps = {} /\ UNCHANGED <<qr, crossed>>
    BY <1>1, <1>2, SessionsLeave DEF SessionOps, CodeOps, qrVars
  <2>. QED BY <2>1, CodeBeside
<1>3. CASE MagicNext /\ UNCHANGED qrVars
  <2>1. Leaves(MagicOps) /\ MagicOps \cap CodeOps = {} /\ UNCHANGED <<qr, crossed>>
    BY <1>1, <1>3, MagicLeaves DEF MagicOps, CodeOps, qrVars
  <2>. QED BY <2>1, CodeBeside
<1>4. CASE KeyNext /\ UNCHANGED qrVars
  <2>1. Leaves(KeyOps) /\ KeyOps \cap CodeOps = {} /\ UNCHANGED <<qr, crossed>>
    BY <1>1, <1>4, KeysLeave DEF KeyOps, CodeOps, qrVars
  <2>. QED BY <2>1, CodeBeside
<1>5. ASSUME Leaves({}), UNCHANGED <<qr, crossed>>
      PROVE  CodeInv'
  <2>1. {} \cap CodeOps = {}
    OBVIOUS
  <2>. QED BY <1>5, <2>1, CodeBeside
<1>6. CASE CodeNext
  <2>1. ASSUME NEW r \in Requests, LoseRun(r), UNCHANGED qrVars
        PROVE  CodeInv'
    BY <1>5, <2>1, LeavesLost DEF qrVars
  <2>2. ASSUME NEW c, CodeLapses(c)
        PROVE  CodeInv'
    <3>1. UNCHANGED <<run, lost, session, qr, crossed>>
      BY <2>2 DEF CodeLapses, sessionVars
    <3>. QED BY <1>5, <3>1, LeavesRuns
  <2>3. ASSUME NEW r \in Requests, CodeStep(r)
        PROVE  CodeInv'
    <3>1. CASE \/ InsertShown(r) \/ FindScanned(r) \/ InsertScanned(r) \/ WriteClaim(r)
               \/ ReadRow(r) \/ Approve(r) \/ OpenLinked(r) \/ ConsumeCode(r)
      BY <3>1, CodeStatements
    <3>2. ASSUME NEW c \in Codes, NEW label, NEW s \in SessionIds,
                 \/ BeginShow(r, s, c, label) \/ BeginScan(r, s, c, label)
                 \/ BeginClaim(r, c, label) \/ BeginConfirm(r, s, c) \/ BeginFinish(r, c)
          PROVE  CodeInv'
      BY <3>2, CodeBegins
    <3>3. r \in SessionIds
      BY DEF SessionIds
    <3>. QED BY <2>3, <3>1, <3>2, <3>3 DEF CodeStep
  <2>. QED BY <1>6, <2>1, <2>2, <2>3 DEF CodeNext
<1>7. CASE UNCHANGED vars
  <2>1. UNCHANGED <<run, lost, session, qr, crossed>>
    BY <1>7 DEF vars, sessionVars, qrVars
  <2>. QED BY <1>5, <2>1, LeavesRuns
<1>. QED BY <1>2, <1>3, <1>4, <1>6, <1>7 DEF SignInNext

\* What the runs of a device link know of it holds in every state.
THEOREM CodesSafe == SignInSpec => []CodeInv
BY CodeInit, CodeKept, BaseSafe, PTL DEF SignInSpec

\* A device gets into an account through a link (handlers/devices.ts, complete) only
\* when a session of that account approved it under the label that the device has,
\* unless claims overlapped; with every other door at work, and wherever handlers
\* are cut short.
THEOREM LinkedByOwner == SignInSpec => []LinkedAsApproved
BY CodesSafe, BaseSafe, CodeImplies, PTL

-----------------------------------------------------------------------------
(* Magic links.  A link is used up before the session of any of its         *)
(* completions, so those that were begun overlap; and the invite vouches    *)
(* for no more newcomers than it has uses left, except for those who wait.  *)

\* The completions of l that were not cut short or refused.
Completers(l) ==
  {r \in Requests \ lost : CompletedBy(r) /\ run[r].on = l /\ run[r].pc # "refused"}

\* The completions that have made an account and not counted it.
Uncounted == {r \in Requests : CompletedBy(r) /\ run[r].pc = "count"}

\* Links vouched by the invite that may make an account yet.
Hopeful == {l \in Links : Pending(l) /\ ~Known(challenge[l].email)}

UsedUp(r) == CompletedBy(r) /\ run[r].pc \in {"session", "done"} => Link(r).state # "open"
CountsOwn(r) == CompletedBy(r) /\ run[r].pc = "count" => run[r].account = r

InviteOK == invite = [uses |-> invite.uses, open |-> invite.open] /\ invite.uses \in Nat
Admits ==
  Cardinality(Admittees) + Cardinality(Hopeful) <=
    InviteUses + (MaxPending - 1) + Cardinality(lost)

LinkInv ==
  /\ InviteOK /\ UsesCounted /\ Admits
  /\ \A r \in Requests : UsedUp(r) /\ CountsOwn(r)
  /\ \A l \in Links : Cardinality(Completers(l)) <= MaxCompletes

\* A completion's statements after the first.
Completes(r) ==
  \/ FindAccount(r) \/ ClaimEmail(r) \/ EmailTaken(r) \/ CountUse(r) \/ JoinCircle(r)
  \/ Consume(r) \/ OpenSession(r)

LEMMA CompletionRun ==
  ASSUME RunsOK, NEW r \in Requests, Completes(r)
  PROVE  /\ CompletedBy(r) /\ r \notin lost /\ UNCHANGED lost
         /\ run[r].pc \in {"account", "email", "circle", "count", "consume", "session"}
         /\ \A q \in Requests \ {r} : run'[q] = run[q]
         /\ \/ EmailTaken(r) /\ run'[r] = NotStarted
            \/ CompletedBy(r)' /\ run'[r].on = run[r].on
         /\ run'[r].pc = "session" => Consume(r)
         /\ run'[r].pc = "done" => run[r].pc = "session" /\ OpenSession(r)
         /\ run'[r].pc = "count" => ClaimEmail(r) /\ run'[r].account = run[r].account
         /\ run[r].pc = "count" => CountUse(r)
         /\ ClaimEmail(r) => run[r].pc = "email" /\ run'[r].pc = AfterEmail(r)
         /\ CountUse(r) => run[r].pc = "count" /\ run'[r].pc = "consume"
<1>1. ASSUME NEW from, NEW to, Advance(r, "complete", from, to)
      PROVE  /\ CompletedBy(r) /\ r \notin lost /\ run[r].pc = from
             /\ \A q \in Requests \ {r} : run'[q] = run[q]
             /\ CompletedBy(r)' /\ run'[r].on = run[r].on /\ run'[r].pc = to
             /\ run'[r].account = run[r].account
  <2>1. /\ Becomes(r, Moved(run[r], to, run[r].account, run[r].seen))
        /\ run[r].op = "complete" /\ run[r].pc = from /\ r \notin lost
    BY <1>1, AdvanceRun DEF Advance, At
  <2>. QED BY <2>1 DEF Moved, Becomes, CompletedBy
<1>2. UNCHANGED lost
  BY DEF Completes, FindAccount, ClaimEmail, EmailTaken, CountUse, JoinCircle, Consume, OpenSession
<1>3. CASE FindAccount(r)
  <2>1. run[r].pc = "account" /\ r \notin lost
    BY <1>3 DEF FindAccount, At
  <2>2. ~ClaimEmail(r) /\ ~CountUse(r)
    BY <2>1 DEF ClaimEmail, CountUse, Advance, At
  <2>. QED BY <1>2, <1>3, <2>1, <2>2, FindRun DEF CompletedBy
<1>4. CASE EmailTaken(r)
  <2>1. Becomes(r, NotStarted) /\ CompletedBy(r) /\ run[r].pc = "email" /\ r \notin lost
    BY <1>4, FinishRun DEF EmailTaken, Finish, At, CompletedBy
  <2>2. ~ClaimEmail(r) /\ ~CountUse(r)
    BY <1>4, <2>1 DEF EmailTaken, ClaimEmail, CountUse, Advance, At
  <2>. QED BY <1>2, <1>4, <2>1, <2>2 DEF Becomes, NotStarted
<1>5. CASE ClaimEmail(r)
  <2>1. /\ CompletedBy(r) /\ r \notin lost /\ run[r].pc = "email"
        /\ \A q \in Requests \ {r} : run'[q] = run[q]
        /\ CompletedBy(r)' /\ run'[r].on = run[r].on /\ run'[r].pc = AfterEmail(r)
        /\ run'[r].account = run[r].account
    BY <1>1, <1>5 DEF ClaimEmail
  <2>2. AfterEmail(r) \in {"count", "circle", "consume"} /\ ~CountUse(r)
    BY <2>1 DEF AfterEmail, AfterAccount, CountUse, Advance, At
  <2>. QED BY <1>2, <1>5, <2>1, <2>2
<1>6. CASE CountUse(r)
  <2>1. /\ CompletedBy(r) /\ r \notin lost /\ run[r].pc = "count"
        /\ \A q \in Requests \ {r} : run'[q] = run[q]
        /\ CompletedBy(r)' /\ run'[r].on = run[r].on /\ run'[r].pc = "consume"
    BY <1>1, <1>6 DEF CountUse
  <2>2. ~ClaimEmail(r)
    BY <2>1 DEF ClaimEmail, At
  <2>. QED BY <1>2, <1>6, <2>1, <2>2
<1>7. CASE JoinCircle(r)
  <2>1. /\ CompletedBy(r) /\ r \notin lost /\ run[r].pc = "circle"
        /\ \A q \in Requests \ {r} : run'[q] = run[q]
        /\ CompletedBy(r)' /\ run'[r].on = run[r].on /\ run'[r].pc \in {"consume", "refused"}
    BY <1>1, <1>7 DEF JoinCircle
  <2>2. ~ClaimEmail(r) /\ ~CountUse(r)
    BY <2>1 DEF ClaimEmail, CountUse, Advance, At
  <2>. QED BY <1>2, <2>1, <2>2
<1>8. CASE Consume(r)
  <2>1. /\ CompletedBy(r) /\ r \notin lost /\ run[r].pc = "consume"
        /\ \A q \in Requests \ {r} : run'[q] = run[q]
        /\ CompletedBy(r)' /\ run'[r].on = run[r].on /\ run'[r].pc = "session"
    BY <1>1, <1>8 DEF Consume
  <2>2. ~ClaimEmail(r) /\ ~CountUse(r)
    BY <2>1 DEF ClaimEmail, CountUse, Advance, At
  <2>. QED BY <1>2, <1>8, <2>1, <2>2
<1>9. CASE OpenSession(r)
  <2>1. /\ CompletedBy(r) /\ r \notin lost /\ run[r].pc = "session"
        /\ \A q \in Requests \ {r} : run'[q] = run[q]
        /\ CompletedBy(r)' /\ run'[r].on = run[r].on /\ run'[r].pc = "done"
    BY <1>1, <1>9 DEF OpenSession
  <2>2. ~ClaimEmail(r) /\ ~CountUse(r)
    BY <2>1 DEF ClaimEmail, CountUse, Advance, At
  <2>. QED BY <1>2, <1>9, <2>1, <2>2
<1>. QED BY <1>3, <1>4, <1>5, <1>6, <1>7, <1>8, <1>9 DEF Completes

\* Different elements have different images, so there are no more of them.
LEMMA NoMoreThan ==
  ASSUME NEW S, NEW T, IsFiniteSet(S), IsFiniteSet(T), NEW f \in [S -> T],
         \A x, y \in S : f[x] = f[y] => x = y
  PROVE  Cardinality(S) <= Cardinality(T)
<1>1. Cardinality(S) \in Nat /\ Cardinality(T) \in Nat
  BY FS_CardinalityType
<1>2. ~(Cardinality(T) < Cardinality(S))
  BY FS_PigeonHole
<1>. QED BY <1>1, <1>2

LEMMA FewerCompleters ==
  ASSUME NEW l \in Links, Cardinality(Completers(l)) <= MaxCompletes,
         Completers(l)' \subseteq Completers(l)
  PROVE  Cardinality(Completers(l))' <= MaxCompletes
<1>1. IsFiniteSet(Completers(l)) /\ IsFiniteSet(Completers(l)')
  BY SessionsAssumption, FS_Subset DEF Completers
<1>2. PICK T : T = Completers(l)'
  OBVIOUS
<1>3. Cardinality(T) <= Cardinality(Completers(l))
  BY <1>1, <1>2, FS_Subset
<1>4. Cardinality(T) \in Nat /\ Cardinality(Completers(l)) \in Nat
  BY <1>1, <1>2, FS_CardinalityType
<1>5. Cardinality(T) <= MaxCompletes
  BY <1>3, <1>4, MagicLinksAssumption
<1>. QED BY <1>2, <1>5

LEMMA InviteInit == SignInInit => LinkInv
<1>. SUFFICES ASSUME SignInInit PROVE LinkInv
  OBVIOUS
<1>. USE DEF SignInInit, Init, LinkInit
<1>1. \A r \in Requests : ~CompletedBy(r) /\ r \notin Range(owner)
  BY SessionsAssumption, MagicLinksAssumption DEF CompletedBy, NotStarted, Range
<1>2. invite.uses = 0 /\ InviteOK
  BY DEF InviteOK, NewInvite
<1>3. \A r \in Requests : UsedUp(r) /\ CountsOwn(r)
  BY <1>1 DEF UsedUp, CountsOwn
<1>4. Admittees = {} /\ Uncounted = {}
  BY <1>1 DEF Admittees, Newcomers, Uncounted
<1>5. Hopeful = {}
  <2>1. \A l \in Links : challenge[l].via = "none"
    BY DEF NoLink
  <2>. QED BY <2>1 DEF Hopeful, Pending
<1>6. UsesCounted
  <2>1. Cardinality(Admittees) = 0 /\ Cardinality(Uncounted) = 0
    BY <1>4, FS_EmptySet
  <2>2. Cardinality({r \in Requests : CompletedBy(r) /\ run[r].pc = "count"}) = 0
    BY <2>1 DEF Uncounted
  <2>3. Cardinality(Admittees) = 0 + 0
    BY <2>1
  <2>. QED BY <1>2, <2>2, <2>3 DEF UsesCounted
<1>7. Admits
  <2>1. Cardinality(lost) = 0 /\ Cardinality({}) = 0
    BY FS_EmptySet
  <2>. QED BY <1>4, <1>5, <2>1, MagicLinksAssumption DEF Admits
<1>8. ASSUME NEW l \in Links
      PROVE  Cardinality(Completers(l)) <= MaxCompletes
  <2>1. Completers(l) = {}
    BY <1>1 DEF Completers
  <2>. QED BY <2>1, FS_EmptySet, MagicLinksAssumption
<1>. QED BY <1>2, <1>3, <1>6, <1>7, <1>8 DEF LinkInv

\* The sets that are counted are finite.
LEMMA LinkSets ==
  ASSUME Base
  PROVE  /\ IsFiniteSet(Admittees) /\ Cardinality(Admittees) \in Nat
         /\ IsFiniteSet(Uncounted) /\ Cardinality(Uncounted) \in Nat
         /\ IsFiniteSet(Hopeful) /\ Cardinality(Hopeful) \in Nat
         /\ IsFiniteSet(lost) /\ Cardinality(lost) \in Nat
<1>1. Admittees \subseteq Requests /\ Uncounted \subseteq Requests /\ Hopeful \subseteq Links
      /\ lost \subseteq Requests
  BY DEF Admittees, Newcomers, Uncounted, Hopeful, Base, LostOK
<1>2. /\ IsFiniteSet(Admittees) /\ IsFiniteSet(Uncounted) /\ IsFiniteSet(Hopeful)
      /\ IsFiniteSet(lost)
  BY <1>1, SessionsAssumption, MagicLinksAssumption, FS_Subset
<1>. QED BY <1>2, FS_CardinalityType

LEMMA LinkSetsAfter ==
  ASSUME Base'
  PROVE  /\ IsFiniteSet(Uncounted') /\ IsFiniteSet(Hopeful')
         /\ Cardinality(Hopeful') \in Nat /\ Cardinality(Uncounted') \in Nat
         /\ IsFiniteSet(lost') /\ Cardinality(lost') \in Nat
<1>1. Uncounted' \subseteq Requests /\ Hopeful' \subseteq Links /\ lost' \subseteq Requests
  BY DEF Uncounted, Hopeful, Base, LostOK
<1>2. IsFiniteSet(Uncounted') /\ IsFiniteSet(Hopeful') /\ IsFiniteSet(lost')
  BY <1>1, SessionsAssumption, MagicLinksAssumption, FS_Subset
<1>. QED BY <1>2, FS_CardinalityType

LEMMA LinkImplies == Base /\ LinkInv => LinkOpens /\ InviteAdmits
<1>. SUFFICES ASSUME Base, LinkInv PROVE LinkOpens /\ InviteAdmits
  OBVIOUS
<1>1. ASSUME NEW l \in Links
      PROVE  Cardinality(Opened(l)) <= MaxCompletes
  <2>1. Opened(l) \subseteq Completers(l)
    <3>1. ASSUME NEW r \in Opened(l)
          PROVE  r \in Requests /\ CompletedBy(r) /\ run[r].on = l /\ run[r].pc = "done"
      BY DEF Opened, Base, MailInv, RunInv, Through, CompletedBy
    <3>. QED BY <3>1 DEF Completers, Base, LostOK
  <2>2. IsFiniteSet(Completers(l)) /\ Cardinality(Completers(l)) <= MaxCompletes
    BY SessionsAssumption, FS_Subset DEF Completers, LinkInv
  <2>3. Cardinality(Opened(l)) <= Cardinality(Completers(l)) /\ IsFiniteSet(Opened(l))
    BY <2>1, <2>2, FS_Subset
  <2>4. Cardinality(Opened(l)) \in Nat /\ Cardinality(Completers(l)) \in Nat
    BY <2>2, <2>3, FS_CardinalityType
  <2>. QED BY <2>2, <2>3, <2>4, MagicLinksAssumption
<1>2. Cardinality(Admittees) <= InviteUses + (MaxPending - 1) + Cardinality(lost)
  BY LinkSets, MagicLinksAssumption DEF LinkInv, Admits
<1>. QED BY <1>1, <1>2 DEF LinkOpens, InviteAdmits, LinkInv

\* What link k becomes in a step: of one that waits, only the state changes, and
\* none is open again.
LinkTurns(k) ==
  \/ challenge'[k] = challenge[k]
  \/ challenge[k].state \in {"idle", "check", "insert"}
  \/ /\ challenge'[k].email = challenge[k].email /\ challenge'[k].via = challenge[k].via
     /\ challenge'[k].state # "open"

\* A step of another handler, or of links alone: completions stand where they stood.
LEMMA LinkBeside ==
  ASSUME Base, Base', LinkInv, NEW ops, Leaves(ops), "complete" \notin ops,
         UNCHANGED owner, InviteOK', invite'.uses = invite.uses,
         \A k \in Links : LinkTurns(k),
         \/ Hopeful' \subseteq Hopeful
         \/ Cardinality(Admittees) + Cardinality(Hopeful') <=
              InviteUses + (MaxPending - 1) + Cardinality(lost)
  PROVE  LinkInv'
<1>1. ASSUME NEW q \in Requests, CompletedBy(q)'
      PROVE  run'[q] = run[q] /\ CompletedBy(q)
  BY <1>1 DEF Leaves, CompletedBy
<1>2. ASSUME NEW q \in Requests, CompletedBy(q)
      PROVE  /\ run[q].on \in Links /\ challenge'[run[q].on].via = Link(q).via
             /\ challenge'[run[q].on].state = "open" => Link(q).state = "open"
  <2>1. OnLink(q)
    BY DEF Base, MailInv, RunInv
  <2>2. run[q].on \in Links /\ Link(q).state \notin {"idle", "check", "insert"}
    BY <1>2, <2>1 DEF OnLink
  <2>. QED BY <2>2 DEF LinkTurns, Link
<1>3. ASSUME NEW q \in Requests, q \in Range(owner)
      PROVE  CompletedBy(q) /\ run'[q] = run[q]
  <2>1. Made(q)'
    BY DEF Base, MailInv, RunInv
  <2>2. CompletedBy(q)'
    BY <1>3, <2>1 DEF Made
  <2>. QED BY <1>1, <2>2
<1>4. Admittees' = Admittees
  BY <1>2, <1>3 DEF Admittees, Newcomers, Link
<1>5. Uncounted' = Uncounted
  <2>1. Uncounted' \subseteq Uncounted
    BY <1>1 DEF Uncounted
  <2>2. ASSUME NEW q \in Uncounted
        PROVE  q \in Range(owner)
    BY DEF Uncounted, LinkInv, CountsOwn, Base, MailInv, RunInv, Owned, Settled, Known, Range
  <2>3. Uncounted \subseteq Uncounted'
    BY <1>3, <2>2 DEF Uncounted, CompletedBy
  <2>. QED BY <2>1, <2>3
<1>6. UsesCounted'
  BY <1>4, <1>5 DEF LinkInv, UsesCounted, Uncounted
<1>7. Admits'
  <2>1. /\ Cardinality(lost) \in Nat /\ Cardinality(lost') \in Nat
        /\ Cardinality(lost) <= Cardinality(lost')
    BY LinkSets, LinkSetsAfter, FS_Subset DEF Leaves
  <2>2. /\ Cardinality(Admittees) \in Nat /\ Cardinality(Hopeful) \in Nat
        /\ Cardinality(Hopeful') \in Nat
    BY LinkSets, LinkSetsAfter
  <2>3. Hopeful' \subseteq Hopeful => Cardinality(Hopeful') <= Cardinality(Hopeful)
    BY LinkSets, FS_Subset
  <2>4. /\ Cardinality(Admittees) + Cardinality(Hopeful') <=
             InviteUses + (MaxPending - 1) + Cardinality(lost)
    BY <2>1, <2>2, <2>3, MagicLinksAssumption DEF LinkInv, Admits
  <2>5. PICK a, b, c, d : /\ a = Cardinality(Admittees) /\ b = Cardinality(Hopeful')
                          /\ c = Cardinality(lost) /\ d = Cardinality(lost')
    OBVIOUS
  <2>6. /\ a \in Nat /\ b \in Nat /\ c \in Nat /\ d \in Nat /\ c <= d
        /\ InviteUses \in Nat /\ MaxPending \in Nat
        /\ a + b <= InviteUses + (MaxPending - 1) + c
    BY <2>1, <2>2, <2>4, <2>5, MagicLinksAssumption
  <2>7. a + b <= InviteUses + (MaxPending - 1) + d
    BY ONLY <2>6
  <2>. QED BY <1>4, <2>5, <2>7 DEF Admits
<1>8. \A q \in Requests : UsedUp(q)' /\ CountsOwn(q)'
  <2>1. ASSUME NEW q \in Requests, CompletedBy(q)'
        PROVE  UsedUp(q)' /\ CountsOwn(q)'
    <3>1. run'[q] = run[q] /\ CompletedBy(q) /\ UsedUp(q) /\ CountsOwn(q)
      BY <1>1, <2>1 DEF LinkInv
    <3>. QED BY <1>2, <3>1 DEF UsedUp, CountsOwn, Link, CompletedBy
  <2>. QED BY <2>1 DEF UsedUp, CountsOwn
<1>9. ASSUME NEW l \in Links
      PROVE  Cardinality(Completers(l))' <= MaxCompletes
  <2>1. Completers(l)' \subseteq Completers(l)
    BY <1>1 DEF Completers, Leaves
  <2>. QED BY <2>1, FewerCompleters DEF LinkInv
<1>. QED BY <1>6, <1>7, <1>8, <1>9 DEF LinkInv

\* The same of a step that changes no link.
LEMMA LinksRest ==
  ASSUME Base, Base', LinkInv, NEW ops, Leaves(ops), "complete" \notin ops,
         UNCHANGED <<challenge, owner>>, InviteOK', invite'.uses = invite.uses
  PROVE  LinkInv'
<1>1. \A k \in Links : CompletionsOf(k)' \subseteq CompletionsOf(k)
  BY DEF CompletionsOf, Running, Working, Leaves
<1>2. Hopeful' \subseteq Hopeful
  BY <1>1 DEF Hopeful, Pending, Known
<1>3. \A k \in Links : LinkTurns(k)
  BY DEF LinkTurns
<1>. QED BY <1>2, <1>3, LinkBeside

\* Only link l changes, and no run.
LEMMA OneLink ==
  ASSUME Base, Base', LinkInv, NEW l \in Links, NEW x, challenge' = [challenge EXCEPT ![l] = x],
         UNCHANGED <<owner, invite, run, lost, session>>,
         \/ challenge[l].state \in {"idle", "check", "insert"}
         \/ x.email = challenge[l].email /\ x.via = challenge[l].via /\ x.state # "open",
         \/ x.via = "beta" /\ x.state \in {"insert", "open"} =>
              Pending(l) /\ x.email = challenge[l].email
         \/ Cardinality(Admittees) + Cardinality(Hopeful) + 1 <=
              InviteUses + (MaxPending - 1) + Cardinality(lost)
  PROVE  LinkInv'
<1>1. challenge' = [k \in Links |-> IF k = l THEN x ELSE challenge[k]]
  BY DEF Base, MailInv, FieldsOK, LinksOK
<1>2. challenge'[l] = x /\ \A k \in Links \ {l} : challenge'[k] = challenge[k]
  BY <1>1
<1>3. \A k \in Links : LinkTurns(k)
  BY <1>2 DEF LinkTurns
<1>4. Leaves({}) /\ "complete" \notin {} /\ InviteOK' /\ invite'.uses = invite.uses
  <2>1. InviteOK' /\ invite'.uses = invite.uses
    BY DEF LinkInv, InviteOK
  <2>2. Leaves({})
    BY LeavesRuns
  <2>. QED BY <2>1, <2>2
<1>5. \A k \in Links : CompletionsOf(k)' = CompletionsOf(k)
  BY DEF CompletionsOf, Running, Working
<1>6. Hopeful' \subseteq Hopeful \cup {l}
  BY <1>2, <1>5 DEF Hopeful, Pending, Known
<1>7. CASE x.via = "beta" /\ x.state \in {"insert", "open"} =>
             Pending(l) /\ x.email = challenge[l].email
  <2>1. CompletionsOf(l) # {} =>
          x.email = challenge[l].email /\ x.via = challenge[l].via
    <3>1. ASSUME NEW r \in CompletionsOf(l)
          PROVE  challenge[l].state \notin {"idle", "check", "insert"}
      <4>1. r \in Requests /\ CompletedBy(r) /\ run[r].on = l
        BY DEF CompletionsOf, Running, Working, CompletedBy
      <4>2. OnLink(r)
        BY <4>1 DEF Base, MailInv, RunInv
      <4>. QED BY <4>1, <4>2 DEF OnLink, Link
    <3>. QED BY <3>1
  <2>2. l \in Hopeful' => l \in Hopeful
    BY <1>2, <1>5, <1>7, <2>1 DEF Hopeful, Pending, Known
  <2>3. Hopeful' \subseteq Hopeful
    BY <1>6, <2>2
  <2>. QED BY <1>3, <1>4, <2>3, LinkBeside
<1>8. CASE Cardinality(Admittees) + Cardinality(Hopeful) + 1 <=
             InviteUses + (MaxPending - 1) + Cardinality(lost)
  <2>1. Cardinality(Hopeful') <= Cardinality(Hopeful) + 1
    BY <1>6, LinkSets, OneMore
  <2>2. PICK a, b, c, d : /\ a = Cardinality(Admittees) /\ b = Cardinality(Hopeful)
                          /\ c = Cardinality(lost) /\ d = Cardinality(Hopeful')
    OBVIOUS
  <2>3. /\ a \in Nat /\ b \in Nat /\ c \in Nat /\ d \in Nat /\ d <= b + 1
        /\ InviteUses \in Nat /\ MaxPending \in Nat
        /\ a + b + 1 <= InviteUses + (MaxPending - 1) + c
    BY <1>8, <2>1, <2>2, LinkSets, LinkSetsAfter, MagicLinksAssumption
  <2>4. a + d <= InviteUses + (MaxPending - 1) + c
    BY ONLY <2>3
  <2>5. Cardinality(Admittees) + Cardinality(Hopeful') <=
          InviteUses + (MaxPending - 1) + Cardinality(lost)
    BY <2>2, <2>4
  <2>. QED BY <1>3, <1>4, <2>5, LinkBeside
<1>. QED BY <1>7, <1>8

\* While the invite has uses left and fewer links wait than may, it has room for one
\* more: every completion that has an account and no count yet holds a link of its own.
LEMMA InviteHasRoom ==
  ASSUME Base, LinkInv, InviteValid,
         Cardinality({k \in Links : Pending(k)}) < MaxPending
  PROVE  Cardinality(Admittees) + Cardinality(Hopeful) + 1 <=
           InviteUses + (MaxPending - 1) + Cardinality(lost)
<1>. DEFINE Waits == {k \in Links : Pending(k)}
            Live == Uncounted \ lost
            Served == Waits \ Hopeful
<1>1. IsFiniteSet(Waits) /\ Cardinality(Waits) \in Nat
  <2>1. Waits \subseteq Links
    OBVIOUS
  <2>2. IsFiniteSet(Waits)
    BY <2>1, MagicLinksAssumption, FS_Subset
  <2>. QED BY <2>2, FS_CardinalityType
<1>2. /\ IsFiniteSet(Served) /\ Cardinality(Served) \in Nat
      /\ Cardinality(Served) = Cardinality(Waits) - Cardinality(Hopeful)
  <2>1. Waits \cap Hopeful = Hopeful
    BY DEF Hopeful
  <2>2. /\ IsFiniteSet(Served)
        /\ Cardinality(Served) = Cardinality(Waits) - Cardinality(Waits \cap Hopeful)
    BY <1>1, FS_Difference
  <2>. QED BY <2>1, <2>2, FS_CardinalityType
<1>3. IsFiniteSet(Live) /\ Cardinality(Live) \in Nat
  BY LinkSets, FS_Subset, FS_CardinalityType
<1>4. Cardinality(Live) <= Cardinality(Served)
  <2>. DEFINE f == [r \in Live |-> run[r].on]
  <2>1. ASSUME NEW r \in Live
        PROVE  /\ run[r].on \in Served /\ owner[Link(r).email] = r
    <3>1. r \in Requests /\ r \notin lost /\ CompletedBy(r) /\ run[r].pc = "count"
      BY DEF Uncounted
    <3>2. OnLink(r) /\ Owned(r) /\ CountsOwn(r)
      BY <3>1 DEF Base, MailInv, RunInv, LinkInv
    <3>3. /\ run[r].on \in Links /\ Link(r).via = "beta"
          /\ Known(Link(r).email) /\ owner[Link(r).email] = r
      BY <3>1, <3>2 DEF OnLink, Owned, CountsOwn, Settled
    <3>4. r \in CompletionsOf(run[r].on)
      BY <3>1 DEF CompletionsOf, Running, Working, CompletedBy
    <3>5. Pending(run[r].on)
      BY <3>3, <3>4 DEF Pending, Link
    <3>. QED BY <3>3, <3>5 DEF Hopeful, Link
  <2>2. f \in [Live -> Served]
    BY <2>1
  <2>3. ASSUME NEW x \in Live, NEW y \in Live, f[x] = f[y]
        PROVE  x = y
    BY <2>1, <2>3 DEF Link
  <2>. HIDE DEF f, Live, Served
  <2>. QED BY <1>2, <1>3, <2>2, <2>3, NoMoreThan
<1>5. Cardinality(Uncounted) <= Cardinality(Live) + Cardinality(lost)
  <2>1. Uncounted \subseteq Live \cup lost
    OBVIOUS
  <2>. HIDE DEF Live
  <2>2. /\ IsFiniteSet(Live \cup lost)
        /\ Cardinality(Live \cup lost) <= Cardinality(Live) + Cardinality(lost)
    BY <1>3, LinkSets, BothSets
  <2>3. Cardinality(Uncounted) <= Cardinality(Live \cup lost)
    BY <2>1, <2>2, FS_Subset
  <2>4. Cardinality(Live \cup lost) \in Nat
    BY <2>2, FS_CardinalityType
  <2>. QED BY <1>3, <2>2, <2>3, <2>4, LinkSets
<1>6. Cardinality(Admittees) = invite.uses + Cardinality(Uncounted)
  BY DEF LinkInv, UsesCounted, Uncounted
<1>7. invite.uses \in Nat /\ invite.uses < InviteUses /\ Cardinality(Waits) < MaxPending
  BY DEF LinkInv, InviteOK, InviteValid
<1>. HIDE DEF Waits, Live, Served
<1>8. PICK a, b, c, d, u, w, v, m :
        /\ a = Cardinality(Admittees) /\ b = Cardinality(Hopeful) /\ c = Cardinality(lost)
        /\ d = Cardinality(Uncounted) /\ u = invite.uses /\ w = Cardinality(Waits)
        /\ v = Cardinality(Live) /\ m = Cardinality(Served)
  OBVIOUS
<1>9. /\ a \in Nat /\ b \in Nat /\ c \in Nat /\ d \in Nat /\ u \in Nat /\ w \in Nat
      /\ v \in Nat /\ m \in Nat /\ InviteUses \in Nat /\ MaxPending \in Nat
      /\ a = u + d /\ d <= v + c /\ v <= m /\ m = w - b /\ u < InviteUses /\ w < MaxPending
  BY <1>1, <1>2, <1>3, <1>4, <1>5, <1>6, <1>7, <1>8, LinkSets, MagicLinksAssumption
<1>10. a + b + 1 <= InviteUses + (MaxPending - 1) + c
  BY ONLY <1>9
<1>. QED BY <1>8, <1>10

LEMMA LinksCount ==
  ASSUME Base, Base', LinkInv, NEW l \in Links, LinkStep(l)
  PROVE  LinkInv'
<1>. USE DEF sessionVars
<1>1. IsLink(challenge[l])
  BY DEF Base, MailInv, FieldsOK, LinksOK
<1>2. CASE ReviewLink(l)
  <2>1. PICK x : x = [email |-> ReviewEmail, via |-> "operator", state |-> "open"]
    OBVIOUS
  <2>. QED BY <1>2, <2>1, OneLink DEF ReviewLink
<1>3. ASSUME NEW e, NEW via, AskLink(l, e, via)
      PROVE  LinkInv'
  <2>1. PICK x : x = IF Known(e) THEN [email |-> e, via |-> "none", state |-> "insert"]
                     ELSE [email |-> e, via |-> via, state |-> "check"]
    OBVIOUS
  <2>2. x.via = "none" \/ x.state = "check"
    BY <2>1
  <2>3. /\ challenge' = [challenge EXCEPT ![l] = x] /\ challenge[l].state = "idle"
        /\ UNCHANGED <<owner, invite, run, lost, session>>
    BY <1>3, <2>1 DEF AskLink
  <2>. QED BY <2>2, <2>3, OneLink
<1>4. CASE CheckInvite(l)
  <2>1. PICK x : x = [challenge[l] EXCEPT !.state = "insert"]
    OBVIOUS
  <2>2. x.email = challenge[l].email /\ x.via = challenge[l].via /\ x.state = "insert"
    BY <1>1, <2>1, LinkFields
  <2>3. /\ challenge' = [challenge EXCEPT ![l] = IF Vouched(l) THEN x ELSE NoLink]
        /\ challenge[l].state = "check" /\ UNCHANGED <<owner, invite, run, lost, session>>
    BY <1>4, <2>1 DEF CheckInvite, Base, MailInv, FieldsOK, LinksOK
  <2>4. CASE ~Vouched(l)
    <3>1. challenge' = [challenge EXCEPT ![l] = NoLink] /\ NoLink.state = "idle"
      BY <2>3, <2>4 DEF NoLink
    <3>. QED BY <2>3, <3>1, OneLink
  <2>5. CASE Vouched(l) /\ challenge[l].via # "beta"
    BY <2>2, <2>3, <2>5, OneLink
  <2>6. CASE Vouched(l) /\ challenge[l].via = "beta"
    <3>1. InviteValid /\ Cardinality({k \in Links : Pending(k)}) < MaxPending
      BY <1>4, <2>6 DEF Vouched, CheckInvite
    <3>. QED BY <2>2, <2>3, <2>6, <3>1, InviteHasRoom, OneLink
  <2>. QED BY <2>4, <2>5, <2>6
<1>5. CASE InsertLink(l) \/ LinkLapses(l)
  <2>1. PICK to : /\ \/ to = "open" /\ challenge[l].state = "insert"
                     \/ to = "lapsed" /\ challenge[l].state = "open"
                  /\ Set(l, to)
    BY <1>5 DEF InsertLink, LinkLapses
  <2>2. PICK x : x = [challenge[l] EXCEPT !.state = to]
    OBVIOUS
  <2>3. x.email = challenge[l].email /\ x.via = challenge[l].via /\ x.state = to
    BY <1>1, <2>2, LinkFields
  <2>4. /\ challenge' = [challenge EXCEPT ![l] = x]
        /\ UNCHANGED <<owner, invite, run, lost, session>>
    BY <1>5, <2>1, <2>2 DEF Set, InsertLink, LinkLapses, Base, MailInv, FieldsOK, LinksOK
  <2>5. x.via = "beta" /\ x.state \in {"insert", "open"} => Pending(l)
    BY <2>1, <2>3 DEF Pending
  <2>. QED BY <2>1, <2>3, <2>4, <2>5, OneLink
<1>. QED BY <1>2, <1>3, <1>4, <1>5 DEF LinkStep

\* A hand-off mints a link to an account that has an email.
LEMMA MintCounts ==
  ASSUME Base, Base', LinkInv, NEW r \in Requests, NEW l \in Links, MintLink(r, l)
  PROVE  LinkInv'
<1>1. PICK e \in DOMAIN owner :
        challenge' = [challenge EXCEPT ![l] = [email |-> e, via |-> "none", state |-> "open"]]
  BY DEF MintLink
<1>2. /\ challenge'[l].via = "none" /\ \A k \in Links \ {l} : challenge'[k] = challenge[k]
      /\ challenge[l].state = "idle"
  BY <1>1 DEF MintLink, Base, MailInv, FieldsOK, LinksOK
<1>3. \A k \in Links : LinkTurns(k)
  BY <1>2 DEF LinkTurns
<1>4. Leaves({"handoff"}) /\ "complete" \notin {"handoff"}
  <2>1. SessionsGrow(r) /\ UNCHANGED lost /\ Finish(r, "handoff", "answer") /\ RunsOK
    BY DEF MintLink, SessionsGrow, Base, MailInv, FieldsOK
  <2>. QED BY <2>1, LeavesFinish
<1>5. UNCHANGED <<owner, invite>> /\ InviteOK' /\ invite'.uses = invite.uses
  BY DEF MintLink, LinkInv, InviteOK
<1>6. \A k \in Links : CompletionsOf(k)' \subseteq CompletionsOf(k)
  BY <1>4 DEF CompletionsOf, Running, Working, Leaves
<1>7. Hopeful' \subseteq Hopeful
  BY <1>2, <1>5, <1>6 DEF Hopeful, Pending, Known
<1>. QED BY <1>3, <1>4, <1>5, <1>7, LinkBeside

\* A completion begins: those of its link that were begun before are all running yet.
LEMMA BeginCounts ==
  ASSUME Base, LinkInv, NEW r \in Requests, NEW l \in Links, BeginComplete(r, l)
  PROVE  LinkInv'
<1>. DEFINE x == [op |-> "complete", pc |-> "account", by |-> Nothing, on |-> l,
                  account |-> Nothing, seen |-> Nothing]
<1>1. /\ run[r].pc = "idle" /\ \A q \in Requests \ {r} : run'[q] = run[q]
      /\ CompletedBy(r)' /\ run'[r].on = l /\ run'[r].pc = "account" /\ r \notin lost
      /\ UNCHANGED <<linkVars, lost>>
  <2>1. run[r].pc = "idle" /\ Becomes(r, x)
    BY BeginRun DEF BeginComplete, Base, MailInv, FieldsOK
  <2>. QED BY <2>1 DEF Becomes, CompletedBy, BeginComplete, Begin
<1>. USE DEF linkVars
<1>2. challenge[l].state = "open" /\ Cardinality(CompletionsOf(l)) < MaxCompletes
  BY DEF BeginComplete, Accepts
<1>3. ~CompletedBy(r) /\ r \notin Range(owner)
  <2>1. OnLink(r) /\ Made(r)
    BY DEF Base, MailInv, RunInv
  <2>. QED BY <1>1, <2>1 DEF OnLink, Made, Undecided, Settled
<1>4. Admittees' = Admittees /\ Uncounted' = Uncounted
  <2>1. Admittees' = Admittees
    BY <1>1, <1>3 DEF Admittees, Newcomers
  <2>2. Uncounted' = Uncounted
    BY <1>1, <1>3 DEF Uncounted, CompletedBy
  <2>. QED BY <2>1, <2>2
<1>5. Hopeful' \subseteq Hopeful
  <2>1. \A k \in Links \ {l} : CompletionsOf(k)' = CompletionsOf(k)
    BY <1>1, <1>3 DEF CompletionsOf, Running, Working, CompletedBy
  <2>. QED BY <1>1, <1>2, <2>1 DEF Hopeful, Pending, Known
<1>6. UsesCounted' /\ InviteOK'
  BY <1>1, <1>4 DEF LinkInv, UsesCounted, Uncounted, InviteOK
<1>7. Admits'
  <2>1. Cardinality(Hopeful') <= Cardinality(Hopeful) /\ Cardinality(Hopeful') \in Nat
    BY <1>5, LinkSets, FS_Subset, FS_CardinalityType
  <2>2. Cardinality(Admittees') + Cardinality(Hopeful') <=
          InviteUses + (MaxPending - 1) + Cardinality(lost')
    BY <1>1, <1>4, <2>1, LinkSets, MagicLinksAssumption DEF LinkInv, Admits
  <2>. QED BY <2>2 DEF Admits
<1>8. \A q \in Requests : UsedUp(q)' /\ CountsOwn(q)'
  BY <1>1 DEF LinkInv, UsedUp, CountsOwn, CompletedBy, Link
<1>9. ASSUME NEW k \in Links
      PROVE  Cardinality(Completers(k))' <= MaxCompletes
  <2>1. CASE k # l
    <3>1. Completers(k)' \subseteq Completers(k)
      BY <1>1, <2>1 DEF Completers, CompletedBy
    <3>. QED BY <3>1, FewerCompleters DEF LinkInv
  <2>2. CASE k = l
    <3>1. Completers(l) \subseteq CompletionsOf(l)
      <4>1. ASSUME NEW q \in Completers(l)
            PROVE  q \in CompletionsOf(l)
        <5>1. q \in Requests \ lost /\ CompletedBy(q) /\ run[q].on = l /\ run[q].pc # "refused"
          BY DEF Completers
        <5>2. OnLink(q) /\ UsedUp(q)
          BY <5>1 DEF Base, MailInv, RunInv, LinkInv
        <5>3. run[q].pc \notin {"idle", "done"}
          BY <1>2, <5>1, <5>2 DEF OnLink, UsedUp, Link, Undecided, Settled
        <5>. QED BY <5>1, <5>3 DEF CompletionsOf, Running, Working, CompletedBy
      <4>. QED BY <4>1
    <3>2. IsFiniteSet(CompletionsOf(l)) /\ Cardinality(CompletionsOf(l)) \in Nat
      <4>1. CompletionsOf(l) \subseteq Requests
        BY DEF CompletionsOf, Running, Working
      <4>. QED BY <4>1, SessionsAssumption, FS_Subset, FS_CardinalityType
    <3>3. Completers(l)' \subseteq CompletionsOf(l) \cup {r}
      BY <1>1, <3>1 DEF Completers, CompletedBy
    <3>4. /\ IsFiniteSet(Completers(l)')
          /\ Cardinality(Completers(l)') <= Cardinality(CompletionsOf(l)) + 1
      BY <3>2, <3>3, OneMore
    <3>5. Cardinality(Completers(l)') \in Nat
      BY <3>4, FS_CardinalityType
    <3>6. Cardinality(Completers(l)') <= MaxCompletes
      BY <1>2, <3>2, <3>4, <3>5, MagicLinksAssumption
    <3>. QED BY <2>2, <3>6
  <2>. QED BY <2>1, <2>2
<1>. QED BY <1>6, <1>7, <1>8, <1>9 DEF LinkInv

\* What the statements of a completion leave of the links: none opens again, none is
\* hopeful that was not, and no completion but r moves.
LEMMA CompletionLeaves ==
  ASSUME Base, LinkInv, NEW r \in Requests, Completes(r)
  PROVE  /\ \A l \in Links : /\ challenge'[l].email = challenge[l].email
                             /\ challenge'[l].via = challenge[l].via
         /\ Hopeful' \subseteq Hopeful
         /\ \A q \in Requests : UsedUp(q)' /\ CountsOwn(q)'
         /\ \A l \in Links : Cardinality(Completers(l))' <= MaxCompletes
<1>. USE DEF linkVars
<1>1. RunsOK /\ LinksOK
  BY DEF Base, MailInv, FieldsOK
<1>2. /\ CompletedBy(r) /\ r \notin lost /\ UNCHANGED lost
      /\ run[r].pc \in {"account", "email", "circle", "count", "consume", "session"}
      /\ \A q \in Requests \ {r} : run'[q] = run[q]
      /\ run'[r] = NotStarted \/ (CompletedBy(r)' /\ run'[r].on = run[r].on)
      /\ run'[r].pc = "session" => Consume(r)
      /\ run'[r].pc = "done" => run[r].pc = "session" /\ OpenSession(r)
      /\ run'[r].pc = "count" => ClaimEmail(r) /\ run'[r].account = run[r].account
      /\ ClaimEmail(r) => run[r].pc = "email"
  BY <1>1, CompletionRun
<1>3. OnLink(r) /\ run[r].on \in Links
  BY <1>2 DEF Base, MailInv, RunInv, OnLink
<1>4. ASSUME NEW l \in Links
      PROVE  /\ challenge'[l].email = challenge[l].email /\ challenge'[l].via = challenge[l].via
             /\ \/ challenge'[l].state = challenge[l].state
                \/ challenge'[l].state = "used" /\ challenge[l].state = "open"
             /\ Consume(r) /\ l = run[r].on => challenge'[l].state # "open"
  <2>1. CASE Consume(r)
    <3>1. PICK x : x = [challenge[run[r].on] EXCEPT !.state = ConsumedState(run[r].on)]
      OBVIOUS
    <3>2. /\ x.email = challenge[run[r].on].email /\ x.via = challenge[run[r].on].via
          /\ x.state = ConsumedState(run[r].on)
      BY <1>1, <1>3, <3>1, LinkFields DEF LinksOK
    <3>3. challenge' = [challenge EXCEPT ![run[r].on] = x]
      BY <1>1, <1>3, <2>1, <3>1 DEF Consume, Set, LinksOK
    <3>4. challenge'[run[r].on] = x /\ (l # run[r].on => challenge'[l] = challenge[l])
      BY <1>1, <1>3, <3>3 DEF LinksOK
    <3>. QED BY <3>2, <3>4 DEF ConsumedState
  <2>2. CASE ~Consume(r)
    BY <2>2 DEF Completes, FindAccount, ClaimEmail, EmailTaken, CountUse, JoinCircle, OpenSession
  <2>. QED BY <2>1, <2>2
<1>5. \A e : Known(e) => Known(e)'
  BY DEF Known, Completes, FindAccount, ClaimEmail, EmailTaken, CountUse, JoinCircle, Consume,
         OpenSession
<1>6. Hopeful' \subseteq Hopeful
  <2>1. \A l \in Links : CompletionsOf(l)' \subseteq CompletionsOf(l)
    BY <1>2 DEF CompletionsOf, Running, Working, CompletedBy, NotStarted
  <2>. QED BY <1>4, <1>5, <2>1 DEF Hopeful, Pending
<1>7. \A q \in Requests : UsedUp(q)' /\ CountsOwn(q)'
  <2>1. ASSUME NEW q \in Requests \ {r}
        PROVE  UsedUp(q)' /\ CountsOwn(q)'
    <3>1. run'[q] = run[q] /\ UsedUp(q) /\ CountsOwn(q) /\ OnLink(q)
      BY <1>2 DEF LinkInv, Base, MailInv, RunInv
    <3>2. CompletedBy(q) => run[q].on \in Links
      BY <3>1 DEF OnLink
    <3>. QED BY <1>4, <3>1, <3>2 DEF UsedUp, CountsOwn, CompletedBy, Link
  <2>2. CountsOwn(r)'
    BY <1>2, <1>3 DEF CountsOwn, OnLink, NotStarted, CompletedBy
  <2>3. UsedUp(r)'
    <3>1. CASE run'[r].pc = "session" /\ CompletedBy(r)'
      <4>1. run'[r].on = run[r].on /\ challenge'[run[r].on].state # "open"
        BY <1>2, <1>3, <1>4, <3>1 DEF NotStarted
      <4>. QED BY <4>1 DEF UsedUp, Link
    <3>2. CASE run'[r].pc = "done" /\ CompletedBy(r)'
      <4>1. run'[r].on = run[r].on /\ run[r].pc = "session"
        BY <1>2, <3>2 DEF NotStarted
      <4>2. UsedUp(r)
        BY DEF LinkInv
      <4>3. challenge[run[r].on].state # "open"
        BY <1>2, <4>1, <4>2 DEF UsedUp, Link
      <4>4. challenge'[run[r].on].state # "open"
        BY <1>3, <1>4, <4>3
      <4>. QED BY <4>1, <4>4 DEF UsedUp, Link
    <3>. QED BY <3>1, <3>2 DEF UsedUp
  <2>. QED BY <2>1, <2>2, <2>3
<1>8. ASSUME NEW l \in Links
      PROVE  Cardinality(Completers(l))' <= MaxCompletes
  <2>1. Completers(l)' \subseteq Completers(l)
    BY <1>2 DEF Completers, CompletedBy, NotStarted
  <2>. QED BY <2>1, FewerCompleters DEF LinkInv
<1>. QED BY <1>4, <1>6, <1>7, <1>8

\* Who is let in, and who has been counted, after a statement of a completion.
LEMMA CompletionCounts ==
  ASSUME Base, Base', LinkInv, NEW r \in Requests, Completes(r)
  PROVE  LinkInv'
<1>1. RunsOK /\ LinksOK
  BY DEF Base, MailInv, FieldsOK
<1>2. /\ CompletedBy(r) /\ UNCHANGED lost
      /\ \A q \in Requests \ {r} : run'[q] = run[q]
      /\ \/ EmailTaken(r) /\ run'[r] = NotStarted
         \/ CompletedBy(r)' /\ run'[r].on = run[r].on
      /\ run'[r].pc = "count" => ClaimEmail(r)
      /\ run[r].pc = "count" => CountUse(r)
      /\ ClaimEmail(r) => run[r].pc = "email" /\ run'[r].pc = AfterEmail(r)
      /\ CountUse(r) => run[r].pc = "count" /\ run'[r].pc = "consume"
  BY <1>1, CompletionRun
<1>3. /\ \A l \in Links : /\ challenge'[l].email = challenge[l].email
                          /\ challenge'[l].via = challenge[l].via
      /\ Hopeful' \subseteq Hopeful
      /\ \A q \in Requests : UsedUp(q)' /\ CountsOwn(q)'
      /\ \A l \in Links : Cardinality(Completers(l))' <= MaxCompletes
  BY CompletionLeaves
<1>4. OnLink(r) /\ run[r].on \in Links
  BY <1>2 DEF Base, MailInv, RunInv, OnLink
<1>5. ASSUME NEW q \in Requests, q \in Range(owner)
      PROVE  /\ CompletedBy(q) /\ run[q].on \in Links /\ run'[q].on = run[q].on
             /\ challenge'[run'[q].on].via = challenge[run[q].on].via
  <2>1. Made(q) /\ OnLink(q)
    BY DEF Base, MailInv, RunInv
  <2>2. CompletedBy(q) /\ run[q].on \in Links
    BY <1>5, <2>1 DEF Made, OnLink
  <2>3. run'[q].on = run[q].on
    <3>1. CASE q = r /\ EmailTaken(r)
      <4>1. run[r].pc = "email"
        BY <3>1 DEF EmailTaken, At
      <4>. QED BY <1>2, <1>4, <1>5, <3>1, <4>1 DEF OnLink, Undecided
    <3>. QED BY <1>2, <3>1
  <2>. QED BY <1>3, <2>2, <2>3
<1>6. Cardinality(Hopeful') <= Cardinality(Hopeful)
  BY <1>3, LinkSets, FS_Subset
<1>7. CASE ~ClaimEmail(r)
  <2>1. UNCHANGED owner
    BY <1>7 DEF Completes, FindAccount, EmailTaken, CountUse, JoinCircle, Consume, OpenSession,
       linkVars
  <2>2. Admittees' = Admittees
    BY <1>5, <2>1 DEF Admittees, Newcomers
  <2>3. Admits'
    <3>1. Cardinality(Admittees') + Cardinality(Hopeful') <=
            InviteUses + (MaxPending - 1) + Cardinality(lost')
      BY <1>2, <1>6, <2>2, LinkSets, LinkSetsAfter, MagicLinksAssumption DEF LinkInv, Admits
    <3>. QED BY <3>1 DEF Admits
  <2>4. CASE CountUse(r)
    <3>1. /\ InviteOK' /\ invite'.uses = invite.uses + 1
      BY <2>4 DEF CountUse, LinkInv, InviteOK
    <3>2. Uncounted' = Uncounted \ {r} /\ r \in Uncounted
      BY <1>2, <2>4 DEF Uncounted, CompletedBy
    <3>3. Cardinality(Uncounted') = Cardinality(Uncounted) - 1
      BY <3>2, LinkSets, FS_RemoveElement
    <3>4. Cardinality(Admittees) = invite.uses + Cardinality(Uncounted) /\ invite.uses \in Nat
      BY DEF LinkInv, UsesCounted, Uncounted, InviteOK
    <3>5. Cardinality(Admittees') = invite'.uses + Cardinality(Uncounted')
      BY <2>2, <3>1, <3>3, <3>4, LinkSets
    <3>6. UsesCounted'
      BY <3>5 DEF UsesCounted, Uncounted
    <3>. QED BY <1>3, <2>3, <3>1, <3>6 DEF LinkInv
  <2>5. CASE ~CountUse(r)
    <3>1. InviteOK' /\ invite'.uses = invite.uses
      BY <1>7, <2>5 DEF Completes, FindAccount, EmailTaken, JoinCircle, Consume, OpenSession,
         linkVars, LinkInv, InviteOK
    <3>2. Uncounted' = Uncounted
      BY <1>2, <1>7, <2>5 DEF Uncounted, CompletedBy, NotStarted
    <3>3. UsesCounted'
      BY <2>2, <3>1, <3>2 DEF LinkInv, UsesCounted, Uncounted
    <3>. QED BY <1>3, <2>3, <3>1, <3>3 DEF LinkInv
  <2>. QED BY <2>4, <2>5
<1>8. CASE ClaimEmail(r)
  <2>1. /\ run[r].pc = "email" /\ run'[r].pc = AfterEmail(r) /\ run[r].account = r
        /\ r \notin Range(owner) /\ r \notin lost /\ UNCHANGED <<challenge, invite>>
        /\ CompletedBy(r)' /\ run'[r].on = run[r].on /\ ~Known(Link(r).email)
    BY <1>2, <1>4, <1>8 DEF OnLink, ClaimEmail, Taken, At, EmailTaken, Undecided
  <2>2. /\ Range(owner') = Range(owner) \cup {r} /\ Known(Link(r).email)'
    BY <1>8, <2>1 DEF ClaimEmail, Range, Known, Link
  <2>3. InviteOK' /\ invite'.uses = invite.uses
    BY <2>1 DEF LinkInv, InviteOK
  <2>4. CASE Link(r).via = "beta"
    <3>1. Admittees' = Admittees \cup {r} /\ r \notin Admittees
      <4>1. r \in Admittees'
        BY <2>1, <2>2, <2>4 DEF Admittees, Newcomers, Link
      <4>2. ASSUME NEW q \in Requests \ {r}
            PROVE  q \in Admittees' <=> q \in Admittees
        <5>1. q \in Range(owner') <=> q \in Range(owner)
          BY <2>2
        <5>. QED BY <1>5, <5>1 DEF Admittees, Newcomers
      <4>. QED BY <2>1, <4>1, <4>2 DEF Admittees, Newcomers
    <3>2. Uncounted' = Uncounted \cup {r} /\ r \notin Uncounted
      BY <1>2, <2>1, <2>4 DEF Uncounted, CompletedBy, AfterEmail
    <3>3. Hopeful' \subseteq Hopeful \ {run[r].on} /\ run[r].on \in Hopeful
      <4>1. r \in CompletionsOf(run[r].on)
        BY <1>2, <2>1 DEF CompletionsOf, Running, Working, CompletedBy
      <4>2. run[r].on \in Hopeful
        BY <1>4, <2>1, <2>4, <4>1 DEF Hopeful, Pending, Link
      <4>3. run[r].on \notin Hopeful'
        BY <2>1, <2>2 DEF Hopeful, Link, Known
      <4>. QED BY <1>3, <4>2, <4>3
    <3>4. Cardinality(Admittees') = Cardinality(Admittees) + 1
      BY <3>1, LinkSets, FS_AddElement
    <3>5. Cardinality(Uncounted') = Cardinality(Uncounted) + 1
      BY <3>2, LinkSets, FS_AddElement
    <3>6. Cardinality(Hopeful') <= Cardinality(Hopeful) - 1
      <4>1. /\ IsFiniteSet(Hopeful \ {run[r].on})
            /\ Cardinality(Hopeful \ {run[r].on}) = Cardinality(Hopeful) - 1
        BY <3>3, LinkSets, FS_RemoveElement
      <4>2. Cardinality(Hopeful') <= Cardinality(Hopeful \ {run[r].on})
        BY <3>3, <4>1, FS_Subset
      <4>. QED BY <4>1, <4>2
    <3>7. UsesCounted'
      <4>1. Cardinality(Admittees) = invite.uses + Cardinality(Uncounted) /\ invite.uses \in Nat
        BY DEF LinkInv, UsesCounted, Uncounted, InviteOK
      <4>2. Cardinality(Admittees') = invite'.uses + Cardinality(Uncounted')
        BY <2>3, <3>4, <3>5, <4>1, LinkSets
      <4>. QED BY <4>2 DEF UsesCounted, Uncounted
    <3>8. Admits'
      <4>1. Cardinality(Admittees') + Cardinality(Hopeful') <=
              InviteUses + (MaxPending - 1) + Cardinality(lost')
        BY <1>2, <3>4, <3>6, LinkSets, LinkSetsAfter, MagicLinksAssumption DEF LinkInv, Admits
      <4>. QED BY <4>1 DEF Admits
    <3>. QED BY <1>3, <2>3, <3>7, <3>8 DEF LinkInv
  <2>5. CASE Link(r).via # "beta"
    <3>1. Admittees' = Admittees
      <4>1. r \notin Admittees' /\ r \notin Admittees
        BY <2>1, <2>5 DEF Admittees, Newcomers, Link
      <4>2. ASSUME NEW q \in Requests \ {r}
            PROVE  q \in Admittees' <=> q \in Admittees
        <5>1. q \in Range(owner') <=> q \in Range(owner)
          BY <2>2
        <5>. QED BY <1>5, <5>1 DEF Admittees, Newcomers
      <4>. QED BY <4>1, <4>2 DEF Admittees, Newcomers
    <3>2. Uncounted' = Uncounted
      <4>1. run'[r].pc # "count" /\ run[r].pc # "count"
        BY <2>1, <2>5 DEF AfterEmail, AfterAccount
      <4>. QED BY <1>2, <4>1 DEF Uncounted, CompletedBy
    <3>3. UsesCounted'
      BY <2>3, <3>1, <3>2 DEF LinkInv, UsesCounted, Uncounted
    <3>4. Admits'
      <4>1. Cardinality(Admittees') + Cardinality(Hopeful') <=
              InviteUses + (MaxPending - 1) + Cardinality(lost')
        BY <1>2, <1>6, <3>1, LinkSets, LinkSetsAfter, MagicLinksAssumption DEF LinkInv, Admits
      <4>. QED BY <4>1 DEF Admits
    <3>. QED BY <1>3, <2>3, <3>3, <3>4 DEF LinkInv
  <2>. QED BY <2>4, <2>5
<1>. QED BY <1>7, <1>8

LEMMA LinkKept == Base /\ LinkInv /\ [SignInNext]_vars => LinkInv'
<1>. SUFFICES ASSUME Base, LinkInv, [SignInNext]_vars PROVE LinkInv'
  OBVIOUS
<1>1. Base' /\ MailInv
  BY BaseStep DEF Base
<1>2. ASSUME NEW ops, Leaves(ops), "complete" \notin ops, UNCHANGED linkVars
      PROVE  LinkInv'
  BY <1>1, <1>2, LinksRest DEF linkVars, LinkInv, InviteOK
<1>3. CASE SessionNext /\ UNCHANGED linkVars
  BY <1>1, <1>2, <1>3, SessionsLeave DEF SessionOps
<1>4. CASE CodeNext /\ UNCHANGED linkVars
  BY <1>1, <1>2, <1>4, CodesLeave DEF CodeOps
<1>5. CASE KeyNext /\ UNCHANGED linkVars
  BY <1>1, <1>2, <1>5, KeysLeave DEF KeyOps
<1>6. CASE UNCHANGED vars
  <2>1. UNCHANGED <<run, lost, session, linkVars>>
    BY <1>6 DEF vars, sessionVars
  <2>2. Leaves({}) /\ "complete" \notin {}
    BY <2>1, LeavesRuns
  <2>. QED BY <1>2, <2>1, <2>2
<1>7. CASE MagicNext
  <2>1. ASSUME NEW l \in Links, LinkStep(l)
        PROVE  LinkInv'
    BY <1>1, <2>1, LinksCount
  <2>2. ASSUME NEW r \in Requests, LoseRun(r), UNCHANGED linkVars
        PROVE  LinkInv'
    <3>1. Leaves({}) /\ "complete" \notin {}
      BY <2>2, LeavesLost
    <3>. QED BY <1>2, <2>2, <3>1
  <2>3. CASE InviteCloses \/ CircleCloses
    <3>1. /\ UNCHANGED <<challenge, owner, run, lost, session>>
          /\ InviteOK' /\ invite'.uses = invite.uses
      BY <2>3 DEF InviteCloses, CircleCloses, sessionVars, LinkInv, InviteOK
    <3>2. Leaves({}) /\ "complete" \notin {}
      BY <3>1, LeavesRuns
    <3>. QED BY <1>1, <3>1, <3>2, LinksRest
  <2>4. ASSUME NEW r \in Requests, CompleteStep(r)
        PROVE  LinkInv'
    <3>1. ASSUME NEW l \in Links, BeginComplete(r, l) \/ MintLink(r, l)
          PROVE  LinkInv'
      BY <1>1, <3>1, BeginCounts, MintCounts
    <3>2. CASE Completes(r)
      BY <1>1, <3>2, CompletionCounts
    <3>. QED BY <2>4, <3>1, <3>2 DEF CompleteStep, Completes
  <2>. QED BY <1>7, <2>1, <2>2, <2>3, <2>4 DEF MagicNext
<1>. QED BY <1>3, <1>4, <1>5, <1>6, <1>7 DEF SignInNext

\* What the links, their completions and the invite hold in every state.
THEOREM LinksSafe == SignInSpec => []LinkInv
BY InviteInit, LinkKept, BaseSafe, PTL DEF SignInSpec

\* The beta invite (handlers/auth.ts, resolveBootstrapAccess and completeAuth): it is
\* tested when a link is asked for and counted when an account is made, and still it
\* counts every account but those of completions that were cut short between the two,
\* and lets in no more than its uses, the links that wait at once, and those.
THEOREM InviteBounds == SignInSpec => []InviteAdmits
BY LinksSafe, BaseSafe, LinkImplies, PTL

-----------------------------------------------------------------------------
(* Passkeys.  A challenge is signed once and deleted before the session; a  *)
(* counter only rises while nobody else signs in with the credential.       *)

IsTicket(x) == x = [kind |-> x.kind, account |-> x.account, open |-> x.open]
TicketsOK ==
  /\ ticket = [t \in DOMAIN ticket |-> ticket[t]]
  /\ \A t \in DOMAIN ticket : IsTicket(ticket[t])

IsKey(x) == x = [row |-> x.row, account |-> x.account, counter |-> x.counter]
KeysOK ==
  /\ passkey = [k \in DOMAIN passkey |-> passkey[k]]
  /\ \A k \in DOMAIN passkey : IsKey(passkey[k])

\* What authenticators have signed: a count each, one answer to a challenge.
Signed(k) == {x.count : x \in {y \in response : y.key = k}} \cup {0}
ResponsesOK ==
  /\ \A x \in response : x.challenge \in DOMAIN ticket /\ x.count \in Nat
  /\ \A x, y \in response : x.challenge = y.challenge => x = y
  /\ \A x \in response : x.key \in Counting => x.count # 0
  /\ \A k \in Credentials : \E n \in Signed(k) : \A m \in Signed(k) : m <= n

\* Row id belongs to credential k: it was there at the start, or run id enrolled k.
RowOfKey(id, k) ==
  \/ id \in DOMAIN FirstKeys /\ id = k
  \/ /\ id \in Requests /\ run[id].op = "enrol" /\ run[id].pc \in {"ticket", "done"}
     /\ run[id].on.key = k

RowsOfKeys ==
  \A k \in DOMAIN passkey : RowOfKey(passkey[k].row, k) /\ passkey[k].counter \in Nat

Enrolling(r) == run[r].op = "enrol" => run[r].on \in response
Verifying(r) ==
  run[r].op = "verify" =>
    /\ run[r].pc \in {"key", "count", "ticket", "session", "done"} /\ run[r].on \in response
    /\ run[r].pc \in {"session", "done"} => ~ticket[run[r].on.challenge].open
    /\ run[r].pc # "key" => RowOfKey(run[r].seen, run[r].on.key)

\* Credentials of which the counter means something.
Tracked == Counting \ raced

\* Run r has written its count.
Wrote(r) == run[r].op = "verify" /\ run[r].pc \in {"ticket", "session", "done"}

Alone(r) ==
  r \in Running("verify") =>
    \A q \in Running("verify") : q # r /\ run[q].on.key = run[r].on.key => run[r].on.key \in raced
Ahead(r) ==
  r \in Running("verify") /\ run[r].pc = "count" /\ run[r].on.key \in Tracked =>
    \A q \in Requests : Wrote(q) /\ run[q].seen = run[r].seen => run[q].on.count < run[r].on.count
Counted(r) ==
  Wrote(r) /\ run[r].on.key \in Tracked /\ Registered(run[r].on.key)
           /\ passkey[run[r].on.key].row = run[r].seen
    => run[r].on.count <= passkey[run[r].on.key].counter
Distinct(r) ==
  Wrote(r) /\ run[r].on.key \in Tracked =>
    \A q \in Requests : Wrote(q) /\ q # r /\ run[q].seen = run[r].seen =>
      run[q].on.count # run[r].on.count

KeyRun(r) ==
  /\ Enrolling(r) /\ Verifying(r)
  /\ Alone(r) /\ Ahead(r) /\ Counted(r) /\ Distinct(r)

\* The sign-ins with an answer to t that were not cut short.
Verifiers(t) == {r \in Requests \ lost : run[r].op = "verify" /\ run[r].on.challenge = t}

KeyInv ==
  /\ TicketsOK /\ KeysOK /\ ResponsesOK /\ RowsOfKeys
  /\ \A r \in Requests : KeyRun(r)
  /\ \A t \in DOMAIN ticket : Cardinality(Verifiers(t)) <= MaxVerifies

LEMMA KeyInit == SignInInit => KeyInv
<1>. SUFFICES ASSUME SignInInit PROVE KeyInv
  OBVIOUS
<1>. USE DEF SignInInit, Init, KeysInit
<1>1. \A r \in Requests : run[r].op = "none"
  BY DEF NotStarted
<1>2. TicketsOK
  BY DEF TicketsOK
<1>3. KeysOK /\ RowsOfKeys
  BY DEF KeysOK, IsKey, RowsOfKeys, RowOfKey
<1>4. ResponsesOK
  <2>1. \A k \in Credentials : Signed(k) = {0}
    BY DEF Signed
  <2>2. ASSUME NEW k \in Credentials
        PROVE  \E n \in Signed(k) : \A m \in Signed(k) : m <= n
    <3>1. 0 \in Signed(k) /\ \A m \in Signed(k) : m = 0
      BY <2>1
    <3>2. \A m \in Signed(k) : m <= 0
      BY ONLY <3>1
    <3>. QED BY ONLY <3>1, <3>2
  <2>3. response = {}
    OBVIOUS
  <2>. QED BY <2>2, <2>3 DEF ResponsesOK
<1>5. \A r \in Requests : KeyRun(r)
  BY <1>1 DEF KeyRun, Enrolling, Verifying, Alone, Ahead, Counted, Distinct, Wrote, Running
<1>6. \A t \in DOMAIN ticket : Cardinality(Verifiers(t)) <= MaxVerifies
  OBVIOUS
<1>. QED BY <1>2, <1>3, <1>4, <1>5, <1>6 DEF KeyInv

LEMMA KeyImplies == Base /\ KeyInv => PasskeyOpens /\ CountsDistinct
<1>. SUFFICES ASSUME Base, KeyInv PROVE PasskeyOpens /\ CountsDistinct
  OBVIOUS
<1>1. ASSUME NEW r \in SignedIn
      PROVE  /\ r \in Requests /\ run[r].op = "verify" /\ run[r].pc = "done" /\ r \notin lost
  BY DEF SignedIn, Base, LostOK, MailInv, RunInv, Through
<1>2. ASSUME NEW t \in DOMAIN ticket
      PROVE  Cardinality({r \in SignedIn : run[r].on.challenge = t}) <= MaxVerifies
  <2>. DEFINE S == {r \in SignedIn : run[r].on.challenge = t}
  <2>1. S \subseteq Verifiers(t)
    BY <1>1 DEF Verifiers
  <2>2. IsFiniteSet(Verifiers(t)) /\ Cardinality(Verifiers(t)) <= MaxVerifies
    BY SessionsAssumption, FS_Subset DEF Verifiers, KeyInv
  <2>. HIDE DEF S
  <2>3. Cardinality(S) <= Cardinality(Verifiers(t)) /\ IsFiniteSet(S)
    BY <2>1, <2>2, FS_Subset
  <2>4. Cardinality(S) \in Nat /\ Cardinality(Verifiers(t)) \in Nat
    BY <2>2, <2>3, FS_CardinalityType
  <2>5. Cardinality(S) <= MaxVerifies
    BY <2>2, <2>3, <2>4, PasskeysAssumption
  <2>. QED BY <2>5 DEF S
<1>3. ASSUME NEW q \in SignedIn, NEW r \in SignedIn
      PROVE  \/ q = r \/ run[q].seen # run[r].seen
             \/ run[r].on.key \in raced \/ run[r].on.key \notin Counting
             \/ run[q].on.count # run[r].on.count
  <2>1. Wrote(q) /\ Wrote(r) /\ Distinct(r)
    BY <1>1 DEF Wrote, KeyInv, KeyRun
  <2>. QED BY <1>1, <2>1 DEF Distinct, Tracked
<1>. QED BY <1>2, <1>3 DEF PasskeyOpens, CountsDistinct

\* A challenge that is not open stays so.
TicketsKept ==
  /\ TicketsOK' /\ DOMAIN ticket \subseteq DOMAIN ticket'
  /\ \A t \in DOMAIN ticket : ~ticket[t].open => ~ticket'[t].open

LEMMA TicketField ==
  ASSUME NEW x, IsTicket(x), NEW v
  PROVE  [x EXCEPT !.open = v] = [kind |-> x.kind, account |-> x.account, open |-> v]
BY DEF IsTicket

LEMMA Lapsed ==
  ASSUME TicketsOK, NEW t \in DOMAIN ticket, Lapse(t)
  PROVE  TicketsKept /\ DOMAIN ticket' = DOMAIN ticket /\ ~ticket'[t].open
<1>1. PICK x : x = [kind |-> ticket[t].kind, account |-> ticket[t].account, open |-> FALSE]
  OBVIOUS
<1>2. IsTicket(x) /\ ~x.open
  BY <1>1 DEF IsTicket
<1>3. ticket' = [ticket EXCEPT ![t] = [ticket[t] EXCEPT !.open = FALSE]]
  BY DEF Lapse, TicketsOK
<1>4. ticket' = [ticket EXCEPT ![t] = x]
  BY <1>1, <1>3, TicketField DEF TicketsOK
<1>5. ticket' = [u \in DOMAIN ticket |-> IF u = t THEN x ELSE ticket[u]]
  BY <1>4 DEF TicketsOK
<1>6. /\ DOMAIN ticket' = DOMAIN ticket
      /\ \A u \in DOMAIN ticket : ticket'[u] = IF u = t THEN x ELSE ticket[u]
  BY <1>5
<1>7. TicketsOK'
  BY <1>2, <1>5, <1>6 DEF TicketsOK
<1>. QED BY <1>2, <1>6, <1>7 DEF TicketsKept

\* Each row id belongs to one credential.
LEMMA OneCredential ==
  ASSUME NEW id, NEW j, NEW k, RowOfKey(id, j), RowOfKey(id, k)
  PROVE  j = k
BY PasskeysAssumption DEF RowOfKey

LEMMA FewerVerifiers ==
  ASSUME NEW t, Cardinality(Verifiers(t)) <= MaxVerifies, Verifiers(t)' \subseteq Verifiers(t)
  PROVE  Cardinality(Verifiers(t))' <= MaxVerifies
<1>1. IsFiniteSet(Verifiers(t)) /\ IsFiniteSet(Verifiers(t)')
  BY SessionsAssumption, FS_Subset DEF Verifiers
<1>2. PICK T : T = Verifiers(t)'
  OBVIOUS
<1>3. Cardinality(T) <= Cardinality(Verifiers(t))
  BY <1>1, <1>2, FS_Subset
<1>4. Cardinality(T) \in Nat /\ Cardinality(Verifiers(t)) \in Nat
  BY <1>1, <1>2, FS_CardinalityType
<1>5. Cardinality(T) <= MaxVerifies
  BY <1>3, <1>4, PasskeysAssumption
<1>. QED BY <1>2, <1>5

\* Other handlers leave passkeys alone; challenges are issued and answered, and lapse.
LEMMA KeyBeside ==
  ASSUME Base, KeyInv, NEW ops, Leaves(ops), ops \cap KeyOps = {}, UNCHANGED <<passkey, raced>>,
         TicketsKept, ResponsesOK', response \subseteq response'
  PROVE  KeyInv'
<1>1. ASSUME NEW q \in Requests, run'[q].op \in KeyOps
      PROVE  run'[q] = run[q]
  BY <1>1 DEF Leaves, KeyOps
<1>2. ASSUME NEW q \in Requests, run[q].op \in KeyOps, run[q].pc # "idle"
      PROVE  run'[q] = run[q]
  BY <1>2 DEF Leaves, KeyOps
<1>3. \A id, k : RowOfKey(id, k) => RowOfKey(id, k)'
  BY <1>2 DEF RowOfKey, KeyOps
<1>4. KeysOK' /\ RowsOfKeys'
  BY <1>3 DEF KeyInv, KeysOK, RowsOfKeys
<1>5. "enrol" \in KeyOps /\ "verify" \in KeyOps
  BY DEF KeyOps
<1>6. \A q \in Requests : q \in Running("verify")' => q \in Running("verify")
  BY <1>1, <1>5 DEF Running, Working, Leaves
<1>7. \A q \in Requests : Wrote(q)' => Wrote(q) /\ run'[q] = run[q]
  BY <1>1, <1>5 DEF Wrote
<1>8. ASSUME NEW q \in Requests, run'[q].op \in KeyOps
      PROVE  KeyRun(q)'
  <2>1. KeyRun(q) /\ run'[q] = run[q]
    BY <1>1, <1>8 DEF KeyInv
  <2>2. Enrolling(q)'
    BY <2>1 DEF KeyRun, Enrolling
  <2>3. Verifying(q)'
    <3>1. run[q].op = "verify" => run[q].on.challenge \in DOMAIN ticket
      BY <2>1 DEF KeyRun, Verifying, KeyInv, ResponsesOK
    <3>. QED BY <1>3, <2>1, <3>1 DEF KeyRun, Verifying, TicketsKept
  <2>4. Alone(q)'
    <3>1. ASSUME NEW p \in Running("verify")'
          PROVE  p \in Requests /\ p \in Running("verify") /\ run'[p] = run[p]
      BY <1>1, <1>5, <1>6 DEF Running, Working
    <3>. QED BY <1>6, <2>1, <3>1 DEF KeyRun, Alone
  <2>5. Ahead(q)'
    BY <1>6, <1>7, <2>1 DEF KeyRun, Ahead, Tracked
  <2>6. Counted(q)'
    BY <1>7, <2>1 DEF KeyRun, Counted, Tracked, Registered
  <2>7. Distinct(q)'
    BY <1>7, <2>1 DEF KeyRun, Distinct, Tracked
  <2>. QED BY <2>2, <2>3, <2>4, <2>5, <2>6, <2>7 DEF KeyRun
<1>9. ASSUME NEW q \in Requests, run'[q].op \notin KeyOps
      PROVE  KeyRun(q)'
  BY <1>5, <1>9 DEF KeyRun, Enrolling, Verifying, Alone, Ahead, Counted, Distinct, Wrote, Running
<1>10. ASSUME NEW t \in DOMAIN ticket'
       PROVE  Cardinality(Verifiers(t))' <= MaxVerifies
  <2>1. Verifiers(t)' \subseteq Verifiers(t)
    BY <1>1, <1>5 DEF Verifiers, Leaves
  <2>2. CASE t \in DOMAIN ticket
    BY <2>1, <2>2, FewerVerifiers DEF KeyInv
  <2>3. CASE t \notin DOMAIN ticket
    <3>1. Verifiers(t) = {}
      <4>1. ASSUME NEW q \in Verifiers(t)
            PROVE  t \in DOMAIN ticket
        <5>1. q \in Requests /\ run[q].op = "verify" /\ run[q].on.challenge = t
          BY DEF Verifiers
        <5>2. run[q].on \in response
          BY <5>1 DEF KeyInv, KeyRun, Verifying
        <5>. QED BY <5>1, <5>2 DEF KeyInv, ResponsesOK
      <4>. QED BY <2>3, <4>1
    <3>2. Verifiers(t)' = {}
      BY <2>1, <3>1
    <3>. QED BY <3>2, FS_EmptySet, PasskeysAssumption
  <2>. QED BY <2>2, <2>3
<1>. QED BY <1>4, <1>8, <1>9, <1>10 DEF KeyInv, TicketsKept

\* An authenticator signs a challenge, with its next count.
LEMMA Signs ==
  ASSUME ResponsesOK, NEW k \in Credentials, NEW t, Sign(k, t)
  PROVE  ResponsesOK' /\ response \subseteq response'
<1>. DEFINE counts == {x.count : x \in {y \in response : y.key = k}} \cup {0}
<1>1. \A n \in Signed(k) : n \in Nat
  BY DEF Signed, ResponsesOK
<1>2. PICK last \in Signed(k) : \A m \in Signed(k) : m <= last
  BY DEF ResponsesOK
<1>3. LastCount(k) \in Signed(k) /\ \A m \in Signed(k) : m <= LastCount(k)
  <2>1. counts = Signed(k)
    BY DEF Signed
  <2>2. LastCount(k) = CHOOSE n \in Signed(k) : \A m \in Signed(k) : m <= n
    BY <2>1 DEF LastCount
  <2>. HIDE DEF counts
  <2>. QED BY <1>2, <2>2
<1>4. PICK n \in IF k \in Counting THEN {LastCount(k), LastCount(k) + 1} \ {0} ELSE {0} :
        response' = response \cup {[key |-> k, challenge |-> t, count |-> n]}
  BY DEF Sign
<1>5. LastCount(k) \in Nat
  BY <1>1, <1>3
<1>6. n \in Nat /\ (k \in Counting => n # 0)
  BY <1>4, <1>5
<1>7. PICK x : x = [key |-> k, challenge |-> t, count |-> n]
  OBVIOUS
<1>8. x.key = k /\ x.challenge = t /\ x.count = n /\ response' = response \cup {x}
  BY <1>4, <1>7
<1>9. /\ t \in DOMAIN ticket /\ UNCHANGED ticket
      /\ \A y \in response : y.challenge # t
  BY DEF Sign, Waiting
<1>10. \A y \in response' : y.challenge \in DOMAIN ticket' /\ y.count \in Nat
  BY <1>6, <1>8, <1>9 DEF ResponsesOK
<1>11. \A y, z \in response' : y.challenge = z.challenge => y = z
  BY <1>8, <1>9 DEF ResponsesOK
<1>12. \A y \in response' : y.key \in Counting => y.count # 0
  BY <1>6, <1>8 DEF ResponsesOK
<1>13. ASSUME NEW j \in Credentials
       PROVE  \E m \in Signed(j)' : \A i \in Signed(j)' : i <= m
  <2>1. CASE j # k
    <3>1. Signed(j)' = Signed(j)
      BY <1>8, <2>1 DEF Signed
    <3>. QED BY <3>1 DEF ResponsesOK
  <2>2. CASE j = k
    <3>1. Signed(k)' = Signed(k) \cup {n}
      BY <1>8 DEF Signed
    <3>2. PICK S, m : S = Signed(k) /\ m = LastCount(k)
      OBVIOUS
    <3>3. /\ \A i \in S : i \in Nat /\ i <= m
          /\ m \in S /\ m \in Nat /\ n \in Nat /\ (n = m \/ n = m + 1 \/ n = 0)
      BY <1>1, <1>3, <1>4, <1>5, <1>6, <3>2
    <3>4. \E w \in S \cup {n} : \A i \in S \cup {n} : i <= w
      <4>1. CASE n = 0
        <5>1. m \in S \cup {n} /\ \A i \in S \cup {n} : i <= m
          BY ONLY <3>3, <4>1
        <5>. QED BY ONLY <5>1
      <4>2. CASE n = m \/ n = m + 1
        <5>1. n \in S \cup {n} /\ \A i \in S \cup {n} : i <= n
          BY ONLY <3>3, <4>2
        <5>. QED BY ONLY <5>1
      <4>. QED BY ONLY <3>3, <4>1, <4>2
    <3>. QED BY <2>2, <3>1, <3>2, <3>4
  <2>. QED BY <2>1, <2>2
<1>. QED BY <1>8, <1>10, <1>11, <1>12, <1>13 DEF ResponsesOK

LEMMA KeyTimes ==
  ASSUME Base, KeyInv, NEW t,
         \/ \E k \in Credentials : Sign(k, t)
         \/ \E s : IssueRegister(t, s)
         \/ IssueAuthenticate(t) \/ TicketLapses(t)
  PROVE  KeyInv'
<1>. USE DEF sessionVars
<1>1. Leaves({}) /\ {} \cap KeyOps = {} /\ UNCHANGED <<passkey, raced>>
  <2>1. UNCHANGED <<run, lost, session, passkey, raced>>
    BY DEF Sign, IssueRegister, IssueAuthenticate, TicketLapses
  <2>. QED BY <2>1, LeavesRuns
<1>2. TicketsOK /\ ResponsesOK
  BY DEF KeyInv
<1>3. ASSUME NEW k \in Credentials, Sign(k, t)
      PROVE  KeyInv'
  <2>1. TicketsKept
    BY <1>2, <1>3 DEF Sign, TicketsKept, TicketsOK
  <2>2. ResponsesOK' /\ response \subseteq response'
    BY <1>2, <1>3, Signs
  <2>. QED BY <1>1, <2>1, <2>2, KeyBeside
<1>4. CASE TicketLapses(t)
  <2>1. TicketsKept /\ DOMAIN ticket' = DOMAIN ticket /\ UNCHANGED response
    BY <1>2, <1>4, Lapsed DEF TicketLapses, Waiting
  <2>2. ResponsesOK'
    BY <1>2, <2>1 DEF ResponsesOK, Signed
  <2>. QED BY <1>1, <2>1, <2>2, KeyBeside
<1>5. ASSUME NEW kind, NEW account, Issue(t, kind, account), UNCHANGED response
      PROVE  KeyInv'
  <2>1. PICK x : x = [kind |-> kind, account |-> account, open |-> TRUE]
    OBVIOUS
  <2>2. IsTicket(x)
    BY <2>1 DEF IsTicket
  <2>3. /\ t \notin DOMAIN ticket
        /\ ticket' = [u \in DOMAIN ticket \cup {t} |-> IF u = t THEN x ELSE ticket[u]]
    BY <1>5, <2>1 DEF Issue
  <2>4. /\ DOMAIN ticket' = DOMAIN ticket \cup {t} /\ ticket'[t] = x
        /\ \A u \in DOMAIN ticket : ticket'[u] = ticket[u]
    BY <2>3
  <2>5. ticket' = [u \in DOMAIN ticket' |-> ticket'[u]]
    BY <2>3
  <2>6. TicketsKept
    BY <1>2, <2>2, <2>4, <2>5 DEF TicketsKept, TicketsOK
  <2>7. ResponsesOK'
    BY <1>2, <1>5, <2>4 DEF ResponsesOK, Signed
  <2>. QED BY <1>1, <1>5, <2>6, <2>7, KeyBeside
<1>. QED BY <1>3, <1>4, <1>5 DEF IssueRegister, IssueAuthenticate

\* Run r still signs in with the answer it had, and goes by the row it read.
Continues(r, x) ==
  /\ run[r].op = "verify" /\ x.op = "verify" /\ run[r].pc # "done"
  /\ x.on = run[r].on
  /\ Wrote(r) => x.seen = run[r].seen

\* A step of run r, which becomes x.
LEMMA KeyMoves ==
  ASSUME KeyInv, NEW r \in Requests, NEW x, Becomes(r, x), r \notin lost,
         UNCHANGED <<lost, response>>, TicketsKept, DOMAIN ticket' = DOMAIN ticket,
         KeysOK', RowsOfKeys', raced \subseteq raced',
         \A id, k : RowOfKey(id, k) => RowOfKey(id, k)',
         KeyRun(r)',
         x.op = "verify" =>
           \/ Continues(r, x)
           \/ \A q \in Running("verify") : run[q].on.key = x.on.key => x.on.key \in raced',
         Wrote(r)' =>
           \/ Wrote(r) /\ Continues(r, x)
           \/ \A q \in Requests \ {r} :
                run[q].op = "verify" /\ run[q].seen = x.seen /\ run[q].on.key \in Tracked' =>
                  /\ Wrote(q) => run[q].on.count # x.on.count
                  /\ ~(q \in Running("verify") /\ run[q].pc = "count"),
         \A q \in Requests \ {r} : Counted(q)',
         \A t \in DOMAIN ticket : \/ Verifiers(t)' \subseteq Verifiers(t)
                                  \/ Cardinality(Verifiers(t))' <= MaxVerifies
  PROVE  KeyInv'
<1>1. run'[r] = x /\ \A q \in Requests \ {r} : run'[q] = run[q]
  BY DEF Becomes
<1>2. \A q \in Requests \ {r} :
        /\ Wrote(q)' <=> Wrote(q)
        /\ q \in Running("verify")' <=> q \in Running("verify")
  BY <1>1 DEF Wrote, Running, Working
<1>3. ASSUME NEW q \in Requests \ {r}
      PROVE  KeyRun(q)'
  <2>1. KeyRun(q) /\ run'[q] = run[q]
    BY <1>1 DEF KeyInv
  <2>2. Enrolling(q)'
    BY <2>1 DEF KeyRun, Enrolling
  <2>3. Verifying(q)'
    <3>1. run[q].op = "verify" => run[q].on.challenge \in DOMAIN ticket
      BY <2>1 DEF KeyRun, Verifying, KeyInv, ResponsesOK
    <3>. QED BY <2>1, <3>1 DEF KeyRun, Verifying, TicketsKept
  <2>4. Alone(q)'
    <3>1. SUFFICES ASSUME q \in Running("verify")', NEW p \in Running("verify")', p # q,
                          run'[p].on.key = run'[q].on.key
                   PROVE  run'[q].on.key \in raced'
      BY DEF Alone
    <3>2. q \in Running("verify") /\ p \in Requests
      BY <1>2, <3>1 DEF Running, Working
    <3>3. CASE p # r
      BY <1>1, <1>2, <2>1, <3>1, <3>2, <3>3 DEF KeyRun, Alone
    <3>4. CASE p = r /\ Continues(r, x)
      <4>1. run[r].on = x.on /\ r \in Running("verify")
        <5>1. run[r].op = "verify" /\ run[r].pc # "done" /\ x.on = run[r].on
          BY <3>4 DEF Continues
        <5>2. Verifying(r)
          BY DEF KeyInv, KeyRun
        <5>. QED BY <5>1, <5>2 DEF Verifying, Running, Working
      <4>. QED BY <1>1, <2>1, <3>1, <3>2, <3>4, <4>1 DEF KeyRun, Alone
    <3>5. CASE p = r /\ ~Continues(r, x)
      <4>1. x.op = "verify"
        BY <1>1, <3>1, <3>5 DEF Running
      <4>. QED BY <1>1, <2>1, <3>1, <3>2, <3>5, <4>1
    <3>. QED BY <3>3, <3>4, <3>5
  <2>5. Ahead(q)'
    <3>1. SUFFICES ASSUME q \in Running("verify")', run'[q].pc = "count",
                          (run[q].on.key \in Tracked)',
                          NEW p \in Requests, Wrote(p)', run'[p].seen = run'[q].seen
                   PROVE  run'[p].on.count < run'[q].on.count
      BY <2>1 DEF Ahead
    <3>2. /\ q \in Running("verify") /\ run[q].pc = "count" /\ run[q].op = "verify"
          /\ run[q].on.key \in Tracked' /\ run[q].on.key \in Tracked
      BY <1>2, <2>1, <3>1 DEF Tracked, Running
    <3>3. CASE p # r
      BY <1>1, <1>2, <2>1, <3>1, <3>2, <3>3 DEF KeyRun, Ahead
    <3>4. CASE p = r
      <4>1. Wrote(r) /\ Continues(r, x)
        BY <1>1, <2>1, <3>1, <3>2, <3>4
      <4>2. run[r].on = x.on /\ run[r].seen = x.seen
        BY <4>1 DEF Continues
      <4>. QED BY <1>1, <2>1, <3>1, <3>2, <3>4, <4>1, <4>2 DEF KeyRun, Ahead
    <3>. QED BY <3>3, <3>4
  <2>6. Distinct(q)'
    <3>1. SUFFICES ASSUME Wrote(q)', (run[q].on.key \in Tracked)',
                          NEW p \in Requests, Wrote(p)', p # q, run'[p].seen = run'[q].seen
                   PROVE  run'[p].on.count # run'[q].on.count
      BY <2>1 DEF Distinct
    <3>2. /\ Wrote(q) /\ run[q].on.key \in Tracked' /\ run[q].on.key \in Tracked
          /\ run[q].op = "verify"
      BY <1>2, <2>1, <3>1 DEF Tracked, Wrote
    <3>3. CASE p # r
      BY <1>1, <1>2, <2>1, <3>1, <3>2, <3>3 DEF KeyRun, Distinct
    <3>4. CASE p = r /\ Wrote(r) /\ Continues(r, x)
      <4>1. run[r].on = x.on /\ run[r].seen = x.seen
        BY <3>4 DEF Continues
      <4>. QED BY <1>1, <2>1, <3>1, <3>2, <3>4, <4>1 DEF KeyRun, Distinct
    <3>5. CASE p = r /\ ~(Wrote(r) /\ Continues(r, x))
      BY <1>1, <2>1, <3>1, <3>2, <3>5
    <3>. QED BY <3>3, <3>4, <3>5
  <2>. QED BY <2>2, <2>3, <2>4, <2>5, <2>6 DEF KeyRun
<1>4. \A q \in Requests : KeyRun(q)'
  BY <1>3
<1>5. ASSUME NEW t \in DOMAIN ticket'
      PROVE  Cardinality(Verifiers(t))' <= MaxVerifies
  BY FewerVerifiers DEF KeyInv
<1>6. ResponsesOK'
  BY DEF KeyInv, ResponsesOK, Signed
<1>. QED BY <1>4, <1>5, <1>6 DEF KeyInv, TicketsKept

\* Most statements: no counter changes, and no sign-in begins or finds a row.
LEMMA KeyGoesOn ==
  ASSUME KeyInv, NEW r \in Requests, NEW x, Becomes(r, x), r \notin lost,
         UNCHANGED <<lost, response, raced>>, TicketsKept, DOMAIN ticket' = DOMAIN ticket,
         KeysOK', \A k \in DOMAIN passkey' : k \in DOMAIN passkey /\ passkey'[k] = passkey[k],
         run[r].op = "enrol" /\ run[r].pc \in {"ticket", "done"} =>
           x.op = "enrol" /\ x.pc \in {"ticket", "done"} /\ x.on = run[r].on,
         x.op = "enrol" => x.on \in response,
         x.op = "verify" =>
           /\ Continues(r, x) /\ Verifying(r)' /\ x.pc # "count"
           /\ Wrote(r)' => Wrote(r)
  PROVE  KeyInv'
<1>1. run'[r] = x /\ \A q \in Requests \ {r} : run'[q] = run[q]
  BY DEF Becomes
<1>2. \A id, k : RowOfKey(id, k) => RowOfKey(id, k)'
  BY <1>1 DEF RowOfKey
<1>3. RowsOfKeys'
  BY <1>2 DEF KeyInv, RowsOfKeys
<1>4. ASSUME NEW q \in Requests \ {r}
      PROVE  Counted(q)'
  <2>1. Counted(q) /\ run'[q] = run[q]
    BY <1>1 DEF KeyInv, KeyRun
  <2>. QED BY <2>1 DEF Counted, Wrote, Tracked, Registered
<1>5. KeyRun(r)'
  <2>1. CASE x.op # "verify"
    BY <1>1, <2>1 DEF KeyRun, Enrolling, Verifying, Alone, Ahead, Counted, Distinct, Wrote, Running
  <2>2. CASE x.op = "verify"
    <3>1. /\ Continues(r, x) /\ x.on = run[r].on /\ x.pc # "count" /\ run[r].op = "verify"
          /\ run[r].pc # "done" /\ Verifying(r)' /\ (Wrote(r)' => Wrote(r) /\ x.seen = run[r].seen)
      BY <2>2 DEF Continues
    <3>2. KeyRun(r)
      BY DEF KeyInv
    <3>3. Enrolling(r)'
      BY <1>1, <2>2 DEF Enrolling
    <3>4. Alone(r)'
      <4>1. r \in Running("verify")
        BY <3>1, <3>2 DEF KeyRun, Verifying, Running, Working
      <4>2. \A q \in Running("verify")' : q # r => q \in Running("verify") /\ run'[q] = run[q]
        BY <1>1 DEF Running, Working
      <4>. QED BY <1>1, <3>1, <3>2, <4>1, <4>2 DEF KeyRun, Alone
    <3>5. Ahead(r)'
      BY <1>1, <3>1 DEF Ahead
    <3>6. Counted(r)'
      BY <1>1, <3>1, <3>2 DEF KeyRun, Counted, Tracked, Registered
    <3>7. Distinct(r)'
      <4>1. \A q \in Requests \ {r} : Wrote(q)' => Wrote(q)
        BY <1>1 DEF Wrote
      <4>. QED BY <1>1, <3>1, <3>2, <4>1 DEF KeyRun, Distinct, Tracked
    <3>. QED BY <3>1, <3>3, <3>4, <3>5, <3>6, <3>7 DEF KeyRun
  <2>. QED BY <2>1, <2>2
<1>6. ASSUME NEW t \in DOMAIN ticket
      PROVE  Verifiers(t)' \subseteq Verifiers(t)
  BY <1>1 DEF Verifiers, Continues
<1>7. Wrote(r)' => Wrote(r) /\ Continues(r, x)
  BY <1>1 DEF Wrote
<1>. QED BY <1>2, <1>3, <1>4, <1>5, <1>6, <1>7, KeyMoves

\* Statements of r that leave counters alone: registering and deleting, and a sign-in
\* but for those that find the row and write the count.
LEMMA KeyStatements ==
  ASSUME Base, KeyInv, NEW r \in Requests,
         \/ FindTicket(r) \/ FindDuplicate(r) \/ KeyTaken(r) \/ DropTicket(r) \/ OpenWithKey(r)
         \/ FindKey(r) \/ DeleteKey(r)
         \/ \E s, k : BeginDelete(r, s, k)
         \/ \E s : \E x \in response : BeginEnrol(r, s, x)
  PROVE  KeyInv'
<1>. USE DEF keyVars
<1>1. RunsOK /\ TicketsOK /\ KeysOK
  BY DEF Base, MailInv, FieldsOK, KeyInv
<1>2. UNCHANGED ticket => TicketsKept /\ DOMAIN ticket' = DOMAIN ticket
  BY <1>1 DEF TicketsKept, TicketsOK
<1>3. UNCHANGED passkey =>
        KeysOK' /\ \A k \in DOMAIN passkey' : k \in DOMAIN passkey /\ passkey'[k] = passkey[k]
  BY <1>1 DEF KeysOK
<1>4. Enrolling(r) /\ Verifying(r)
  BY DEF KeyInv, KeyRun
<1>5. NotStarted.op = "none"
  BY DEF NotStarted
<1>6. ASSUME NEW op, NEW from, Finish(r, op, from)
      PROVE  Becomes(r, NotStarted) /\ run[r].op = op /\ run[r].pc = from /\ r \notin lost
  BY <1>1, <1>6, FinishRun DEF Finish, At
<1>7. ASSUME NEW op, NEW from, NEW to, Advance(r, op, from, to)
      PROVE  \E x : /\ Becomes(r, x) /\ run[r].op = op /\ run[r].pc = from /\ r \notin lost
                    /\ x.op = op /\ x.pc = to /\ x.on = run[r].on /\ x.seen = run[r].seen
  <2>1. /\ Becomes(r, Moved(run[r], to, run[r].account, run[r].seen))
        /\ run[r].op = op /\ run[r].pc = from /\ r \notin lost
    BY <1>1, <1>7, AdvanceRun DEF Advance, At
  <2>. QED BY <2>1 DEF Moved
<1>8. CASE FindTicket(r) \/ FindDuplicate(r) \/ KeyTaken(r)
  <2>1. UNCHANGED <<lost, response, raced, ticket, passkey>>
    BY <1>8 DEF FindTicket, FindDuplicate, KeyTaken
  <2>2. PICK from \in {"challenge", "duplicate", "insert"} :
          \/ Finish(r, "enrol", from)
          \/ \E to : Advance(r, "enrol", from, to)
    BY <1>8 DEF FindTicket, FindDuplicate, KeyTaken
  <2>3. CASE Finish(r, "enrol", from)
    <3>1. Becomes(r, NotStarted) /\ run[r].pc \notin {"ticket", "done"} /\ r \notin lost
      BY <1>6, <2>2, <2>3
    <3>. QED BY <1>2, <1>3, <1>5, <2>1, <3>1, KeyGoesOn
  <2>4. ASSUME NEW to, Advance(r, "enrol", from, to)
        PROVE  KeyInv'
    <3>1. PICK x : /\ Becomes(r, x) /\ run[r].op = "enrol" /\ run[r].pc = from /\ r \notin lost
                   /\ x.op = "enrol" /\ x.on = run[r].on
      BY <1>7, <2>4
    <3>2. x.on \in response /\ run[r].pc \notin {"ticket", "done"}
      BY <1>4, <2>2, <3>1 DEF Enrolling
    <3>. QED BY <1>2, <1>3, <2>1, <3>1, <3>2, KeyGoesOn
  <2>. QED BY <2>2, <2>3, <2>4
<1>9. CASE DropTicket(r)
  <2>1. UNCHANGED <<lost, response, raced, passkey>> /\ Lapse(run[r].on.challenge)
    BY <1>9 DEF DropTicket
  <2>2. \/ Advance(r, "enrol", "ticket", "done")
        \/ Advance(r, "verify", "ticket", "session")
    BY <1>9 DEF DropTicket
  <2>3. PICK x : /\ Becomes(r, x) /\ run[r].op \in {"enrol", "verify"} /\ run[r].pc = "ticket"
                 /\ x.op = run[r].op /\ x.on = run[r].on /\ x.seen = run[r].seen /\ r \notin lost
                 /\ x.pc = IF x.op = "enrol" THEN "done" ELSE "session"
    BY <1>7, <2>2
  <2>4. run[r].on \in response /\ run[r].on.challenge \in DOMAIN ticket
    BY <1>4, <2>3 DEF Enrolling, Verifying, KeyInv, ResponsesOK
  <2>5. /\ TicketsKept /\ DOMAIN ticket' = DOMAIN ticket
        /\ ~ticket'[run[r].on.challenge].open
    BY <1>1, <2>1, <2>4, Lapsed
  <2>6. x.op = "verify" =>
          /\ Continues(r, x) /\ Verifying(r)' /\ x.pc # "count"
          /\ Wrote(r)' => Wrote(r)
    <3>1. SUFFICES ASSUME x.op = "verify"
                   PROVE  /\ Continues(r, x) /\ Verifying(r)' /\ x.pc # "count"
                          /\ Wrote(r)' => Wrote(r)
      OBVIOUS
    <3>2. run'[r] = x /\ x.pc = "session"
      BY <2>3, <3>1 DEF Becomes
    <3>3. RowOfKey(x.seen, x.on.key)
      BY <1>4, <2>3, <3>1 DEF Verifying
    <3>4. RowOfKey(x.seen, x.on.key)'
      BY <2>3, <3>1, <3>3 DEF RowOfKey, Becomes
    <3>5. Verifying(r)'
      BY <2>1, <2>3, <2>4, <2>5, <3>2, <3>4 DEF Verifying
    <3>. QED BY <2>3, <3>1, <3>2, <3>5 DEF Continues, Wrote
  <2>. QED BY <1>3, <2>1, <2>3, <2>4, <2>5, <2>6, KeyGoesOn
<1>10. CASE OpenWithKey(r)
  <2>1. /\ UNCHANGED <<lost, response, raced, ticket, passkey>>
        /\ Advance(r, "verify", "session", "done")
    BY <1>10 DEF OpenWithKey
  <2>2. PICK x : /\ Becomes(r, x) /\ run[r].op = "verify" /\ run[r].pc = "session" /\ r \notin lost
                 /\ x.op = "verify" /\ x.pc = "done" /\ x.on = run[r].on /\ x.seen = run[r].seen
    BY <1>7, <2>1
  <2>3. run'[r] = x /\ RowOfKey(x.seen, x.on.key)
    BY <1>4, <2>2 DEF Verifying, Becomes
  <2>4. RowOfKey(x.seen, x.on.key)'
    BY <2>2, <2>3 DEF RowOfKey, Becomes
  <2>5. Verifying(r)'
    BY <1>4, <2>1, <2>2, <2>3, <2>4 DEF Verifying
  <2>6. Continues(r, x) /\ Wrote(r)
    BY <2>2 DEF Continues, Wrote
  <2>. QED BY <1>2, <1>3, <2>1, <2>2, <2>5, <2>6, KeyGoesOn
<1>11. CASE FindKey(r)
  <2>1. /\ UNCHANGED <<lost, response, raced, ticket, passkey>>
        /\ run[r].op = "delete" /\ r \notin lost
    BY <1>11 DEF FindKey, At
  <2>2. PICK x : /\ Becomes(r, x)
                 /\ x # NotStarted =>
                      x = Moved(run[r], "delete", run[r].account, passkey[run[r].on].row)
    BY <1>1, <1>11, KeyRead
  <2>3. x.op \notin {"enrol", "verify"}
    BY <1>5, <2>1, <2>2 DEF Moved
  <2>. QED BY <1>2, <1>3, <2>1, <2>2, <2>3, KeyGoesOn
<1>12. CASE DeleteKey(r)
  <2>1. /\ UNCHANGED <<lost, response, raced, ticket>> /\ Finish(r, "delete", "delete")
        /\ passkey' = Restrict(passkey, WithoutKey(r))
    BY <1>12 DEF DeleteKey
  <2>2. Becomes(r, NotStarted) /\ run[r].op = "delete" /\ r \notin lost
    BY <1>6, <2>1
  <2>3. /\ passkey' = [k \in WithoutKey(r) |-> passkey[k]]
        /\ WithoutKey(r) \subseteq DOMAIN passkey
    BY <2>1 DEF Restrict, WithoutKey
  <2>4. KeysOK' /\ \A k \in DOMAIN passkey' : k \in DOMAIN passkey /\ passkey'[k] = passkey[k]
    BY <1>1, <2>3 DEF KeysOK
  <2>. QED BY <1>2, <1>5, <2>1, <2>2, <2>4, KeyGoesOn
<1>13. ASSUME NEW op, NEW pc, NEW by, NEW on, NEW account, NEW seen, op # "verify",
              op = "enrol" => on \in response, Begin(r, op, pc, by, on, account, seen),
              UNCHANGED <<keyVars, lost>>
       PROVE  KeyInv'
  <2>1. PICK x : x = [op |-> op, pc |-> pc, by |-> by, on |-> on,
                      account |-> account, seen |-> seen]
    OBVIOUS
  <2>2. Becomes(r, x) /\ run[r].pc = "idle" /\ r \notin lost
    BY <1>1, <1>13, <2>1, BeginRun DEF Begin
  <2>3. x.op = op /\ x.on = on
    BY <2>1
  <2>. QED BY <1>2, <1>3, <1>13, <2>2, <2>3, KeyGoesOn
<1>14. ASSUME NEW s, NEW k, BeginDelete(r, s, k)
       PROVE  KeyInv'
  BY <1>13, <1>14 DEF BeginDelete
<1>15. ASSUME NEW s, NEW x \in response, BeginEnrol(r, s, x)
       PROVE  KeyInv'
  BY <1>13, <1>15 DEF BeginEnrol
<1>. QED BY <1>8, <1>9, <1>10, <1>11, <1>12, <1>14, <1>15

\* Nothing that another run has written changes, as long as no counter does.
LEMMA CountsStay ==
  ASSUME KeyInv, NEW r \in Requests, NEW x, Becomes(r, x), UNCHANGED passkey, raced \subseteq raced'
  PROVE  /\ \A q \in Requests \ {r} : Counted(q)'
         /\ KeysOK'
<1>1. \A q \in Requests \ {r} : run'[q] = run[q] /\ Counted(q)
  BY DEF Becomes, KeyInv, KeyRun
<1>2. \A q \in Requests \ {r} : Counted(q)'
  BY <1>1 DEF Counted, Wrote, Tracked, Registered
<1>. QED BY <1>2 DEF KeyInv, KeysOK

\* A sign-in begins with an answer to a challenge that waits: those that have the same
\* answer are all running yet.
LEMMA VerifyBegins ==
  ASSUME Base, KeyInv, NEW r \in Requests, NEW x \in response, BeginVerify(r, x)
  PROVE  KeyInv'
<1>1. PICK z : z = [op |-> "verify", pc |-> "key", by |-> Nothing, on |-> x,
                    account |-> Nothing, seen |-> Nothing]
  OBVIOUS
<1>2. /\ Becomes(r, z) /\ run[r].pc = "idle" /\ r \notin lost
      /\ UNCHANGED <<lost, response, passkey, ticket>>
  BY <1>1, BeginRun DEF BeginVerify, Begin, Base, MailInv, FieldsOK
<1>3. z.op = "verify" /\ z.pc = "key" /\ z.on = x
  BY <1>1
<1>4. run'[r] = z /\ \A q \in Requests \ {r} : run'[q] = run[q]
  BY <1>2 DEF Becomes
<1>5. TicketsKept
  BY <1>2 DEF TicketsKept, KeyInv, TicketsOK
<1>6. run[r].op # "verify"
  BY <1>2 DEF KeyInv, KeyRun, Verifying
<1>7. raced \subseteq raced' /\ (SignInsWith(x.key) # {} => x.key \in raced')
  BY DEF BeginVerify
<1>8. \A id, k : RowOfKey(id, k) => RowOfKey(id, k)'
  BY <1>2, <1>4 DEF RowOfKey
<1>9. RowsOfKeys'
  BY <1>2, <1>8 DEF KeyInv, RowsOfKeys
<1>10. \A q \in Running("verify") : run[q].on.key = x.key => x.key \in raced'
  BY <1>7 DEF SignInsWith
<1>11. KeyRun(r)'
  <2>1. Alone(r)'
    <3>1. \A q \in Running("verify")' : q # r => q \in Running("verify") /\ run'[q] = run[q]
      BY <1>2, <1>4 DEF Running, Working
    <3>2. ASSUME NEW q \in Running("verify")', q # r, run'[q].on.key = x.key
          PROVE  x.key \in raced'
      BY <1>10, <3>1, <3>2
    <3>. QED BY <1>3, <1>4, <3>2 DEF Alone
  <2>2. Enrolling(r)' /\ Verifying(r)'
    BY <1>2, <1>3, <1>4 DEF Enrolling, Verifying
  <2>3. Ahead(r)' /\ Counted(r)' /\ Distinct(r)'
    BY <1>3, <1>4 DEF Ahead, Counted, Distinct, Wrote
  <2>. QED BY <2>1, <2>2, <2>3 DEF KeyRun
<1>12. ASSUME NEW t \in DOMAIN ticket
       PROVE  \/ Verifiers(t)' \subseteq Verifiers(t)
              \/ Cardinality(Verifiers(t))' <= MaxVerifies
  <2>1. CASE t # x.challenge
    BY <1>2, <1>3, <1>4, <2>1 DEF Verifiers
  <2>2. CASE t = x.challenge
    <3>1. ticket[t].open /\ Cardinality(SignInsWith(x.key)) < MaxVerifies
      BY <2>2 DEF BeginVerify, Answerable, Waiting
    <3>2. ASSUME NEW q \in Verifiers(t)
          PROVE  q \in SignInsWith(x.key)
      <4>1. q \in Requests \ lost /\ run[q].op = "verify" /\ run[q].on.challenge = t
        BY DEF Verifiers
      <4>2. Verifying(q)
        BY <4>1 DEF KeyInv, KeyRun
      <4>3. run[q].on \in response /\ run[q].pc \in {"key", "count", "ticket"}
        BY <3>1, <4>1, <4>2 DEF Verifying
      <4>4. run[q].on = x
        BY <2>2, <4>1, <4>3 DEF KeyInv, ResponsesOK
      <4>. QED BY <4>1, <4>3, <4>4 DEF SignInsWith, Running, Working
    <3>3. Verifiers(t)' \subseteq SignInsWith(x.key) \cup {r}
      BY <1>2, <1>4, <3>2 DEF Verifiers
    <3>4. IsFiniteSet(SignInsWith(x.key)) /\ Cardinality(SignInsWith(x.key)) \in Nat
      <4>1. SignInsWith(x.key) \subseteq Requests
        BY DEF SignInsWith, Running, Working
      <4>. QED BY <4>1, SessionsAssumption, FS_Subset, FS_CardinalityType
    <3>5. /\ IsFiniteSet(Verifiers(t)')
          /\ Cardinality(Verifiers(t)') <= Cardinality(SignInsWith(x.key)) + 1
      BY <3>3, <3>4, OneMore
    <3>6. Cardinality(Verifiers(t)') \in Nat
      BY <3>5, FS_CardinalityType
    <3>7. Cardinality(Verifiers(t)') <= MaxVerifies
      BY <3>1, <3>4, <3>5, <3>6, PasskeysAssumption
    <3>. QED BY <3>7
  <2>. QED BY <2>1, <2>2
<1>13. ~Wrote(r)'
  BY <1>3, <1>4 DEF Wrote
<1>14. DOMAIN ticket' = DOMAIN ticket
  BY <1>2
<1>15. KeysOK' /\ \A q \in Requests \ {r} : Counted(q)'
  BY <1>2, <1>7, CountsStay
<1>. QED BY <1>2, <1>3, <1>5, <1>7, <1>8, <1>9, <1>10, <1>11, <1>12, <1>13, <1>14, <1>15, KeyMoves

\* A sign-in reads the row; its count is above those that were written to the row.
LEMMA KeyFound ==
  ASSUME Base, KeyInv, NEW r \in Requests, ReadKey(r)
  PROVE  KeyInv'
<1>1. /\ run[r].op = "verify" /\ run[r].pc = "key" /\ r \notin lost
      /\ UNCHANGED <<lost, response, passkey, ticket, raced>>
  BY DEF ReadKey, At, keyVars
<1>2. PICK x :
        /\ Becomes(r, x)
        /\ x # NotStarted =>
             /\ x = Moved(run[r], "count", passkey[run[r].on.key].account,
                          passkey[run[r].on.key].row)
             /\ Registered(run[r].on.key) /\ CountAccepted(run[r].on)
  BY KeyRead DEF Base, MailInv, FieldsOK
<1>3. TicketsKept /\ DOMAIN ticket' = DOMAIN ticket
  BY <1>1 DEF TicketsKept, KeyInv, TicketsOK
<1>4. KeysOK' /\ \A q \in Requests \ {r} : Counted(q)'
  BY <1>1, <1>2, CountsStay
<1>5. CASE x = NotStarted
  <2>1. x.op = "none"
    BY <1>5 DEF NotStarted
  <2>2. \A k \in DOMAIN passkey' : k \in DOMAIN passkey /\ passkey'[k] = passkey[k]
    BY <1>1
  <2>. QED BY <1>1, <1>2, <1>3, <1>4, <2>1, <2>2, KeyGoesOn
<1>6. CASE x # NotStarted
  <2>1. /\ x.op = "verify" /\ x.pc = "count" /\ x.on = run[r].on
        /\ x.seen = passkey[run[r].on.key].row
        /\ Registered(run[r].on.key) /\ CountAccepted(run[r].on)
    BY <1>1, <1>2, <1>6 DEF Moved
  <2>2. run'[r] = x /\ \A q \in Requests \ {r} : run'[q] = run[q]
    BY <1>2 DEF Becomes
  <2>3. Verifying(r) /\ Alone(r) /\ run[r].on \in response
    BY <1>1 DEF KeyInv, KeyRun, Verifying
  <2>4. \A id, k : RowOfKey(id, k) => RowOfKey(id, k)'
    BY <1>1, <2>2 DEF RowOfKey
  <2>5. RowsOfKeys'
    BY <1>1, <2>4 DEF KeyInv, RowsOfKeys
  <2>6. RowOfKey(x.seen, x.on.key)
    BY <2>1 DEF KeyInv, RowsOfKeys, Registered
  <2>7. Verifying(r)'
    BY <1>1, <2>1, <2>2, <2>3, <2>4, <2>6 DEF Verifying
  <2>8. Alone(r)'
    <3>1. \A q \in Running("verify")' : q # r => q \in Running("verify") /\ run'[q] = run[q]
      BY <1>1, <2>2 DEF Running, Working
    <3>2. r \in Running("verify")
      BY <1>1 DEF Running, Working
    <3>. QED BY <1>1, <2>1, <2>2, <2>3, <3>1, <3>2 DEF Alone
  <2>9. Ahead(r)'
    <3>1. SUFFICES ASSUME (run[r].on.key \in Tracked)',
                          NEW q \in Requests, Wrote(q)', run'[q].seen = run'[r].seen
                   PROVE  run'[q].on.count < run'[r].on.count
      BY DEF Ahead
    <3>2. x.on.key \in Counting /\ x.on.key \in Tracked
      BY <1>1, <2>2, <3>1 DEF Tracked
    <3>3. x.on.count # 0 /\ x.on.count \in Nat
      BY <2>1, <2>3, <3>2 DEF KeyInv, ResponsesOK
    <3>4. passkey[x.on.key].counter < x.on.count /\ passkey[x.on.key].counter \in Nat
      <4>1. passkey[x.on.key].counter \in Nat
        BY <2>1 DEF KeyInv, RowsOfKeys, Registered
      <4>. QED BY <2>1, <3>3, <4>1 DEF CountAccepted
    <3>5. q # r /\ Wrote(q) /\ run'[q] = run[q] /\ run[q].seen = x.seen
      BY <2>1, <2>2, <3>1 DEF Wrote
    <3>6. Verifying(q) /\ Counted(q) /\ run[q].op = "verify" /\ run[q].pc # "key"
      BY <3>5 DEF KeyInv, KeyRun, Wrote
    <3>7. run[q].on.key = x.on.key
      BY <2>6, <3>5, <3>6, OneCredential DEF Verifying
    <3>8. run[q].on.count <= passkey[x.on.key].counter
      BY <2>1, <3>2, <3>5, <3>6, <3>7 DEF Counted
    <3>9. run[q].on.count \in Nat
      BY <3>6 DEF Verifying, KeyInv, ResponsesOK
    <3>10. run[q].on.count < x.on.count
      BY ONLY <3>3, <3>4, <3>8, <3>9
    <3>. QED BY <2>2, <3>5, <3>10
  <2>10. KeyRun(r)'
    BY <2>1, <2>2, <2>7, <2>8, <2>9 DEF KeyRun, Enrolling, Counted, Distinct, Wrote
  <2>11. Continues(r, x) /\ ~Wrote(r)'
    BY <1>1, <2>1, <2>2 DEF Continues, Wrote
  <2>12. \A t \in DOMAIN ticket : Verifiers(t)' \subseteq Verifiers(t)
    BY <1>1, <2>1, <2>2 DEF Verifiers
  <2>. QED BY <1>1, <1>2, <1>3, <1>4, <2>4, <2>5, <2>10, <2>11, <2>12, KeyMoves
<1>. QED BY <1>5, <1>6

LEMMA KeyField ==
  ASSUME NEW x, IsKey(x), NEW v
  PROVE  [x EXCEPT !.counter = v] = [row |-> x.row, account |-> x.account, counter |-> v]
BY DEF IsKey

\* A sign-in writes its count to the row that it read: no other was in between, unless
\* sign-ins with the credential overlapped.
LEMMA CountWritten ==
  ASSUME Base, KeyInv, NEW r \in Requests, WriteCount(r)
  PROVE  KeyInv'
<1>. DEFINE k == run[r].on.key
<1>1. /\ UNCHANGED <<lost, response, ticket, raced>> /\ Advance(r, "verify", "count", "ticket")
      /\ passkey' = IF Registered(k) /\ passkey[k].row = run[r].seen
                    THEN [passkey EXCEPT ![k].counter = run[r].on.count] ELSE passkey
  BY DEF WriteCount
<1>2. PICK x : /\ Becomes(r, x) /\ run[r].op = "verify" /\ run[r].pc = "count" /\ r \notin lost
               /\ x.op = "verify" /\ x.pc = "ticket" /\ x.on = run[r].on /\ x.seen = run[r].seen
  <2>1. /\ Becomes(r, Moved(run[r], "ticket", run[r].account, run[r].seen))
        /\ run[r].op = "verify" /\ run[r].pc = "count" /\ r \notin lost
    BY <1>1, AdvanceRun DEF Advance, At, Base, MailInv, FieldsOK
  <2>. QED BY <2>1 DEF Moved
<1>3. run'[r] = x /\ \A q \in Requests \ {r} : run'[q] = run[q]
  BY <1>2 DEF Becomes
<1>4. TicketsKept /\ DOMAIN ticket' = DOMAIN ticket
  BY <1>1 DEF TicketsKept, KeyInv, TicketsOK
<1>5. /\ Verifying(r) /\ Alone(r) /\ Ahead(r) /\ RowOfKey(x.seen, k)
      /\ run[r].on \in response /\ run[r].on.count \in Nat
  BY <1>2 DEF KeyInv, KeyRun, Verifying, ResponsesOK
<1>6. r \in Running("verify")
  BY <1>2 DEF Running, Working
<1>7. \A id, j : RowOfKey(id, j) => RowOfKey(id, j)'
  BY <1>2, <1>3 DEF RowOfKey
<1>8. /\ KeysOK' /\ DOMAIN passkey' = DOMAIN passkey
      /\ \A j \in DOMAIN passkey :
           /\ passkey'[j].row = passkey[j].row
           /\ \/ passkey'[j] = passkey[j]
              \/ j = k /\ passkey[j].row = x.seen /\ passkey'[j].counter = x.on.count
           /\ j = k /\ passkey[j].row = x.seen => passkey'[j].counter = x.on.count
  <2>1. CASE Registered(k) /\ passkey[k].row = run[r].seen
    <3>1. IsKey(passkey[k])
      BY <2>1 DEF KeyInv, KeysOK, Registered
    <3>2. PICK y : y = [row |-> passkey[k].row, account |-> passkey[k].account,
                        counter |-> run[r].on.count]
      OBVIOUS
    <3>3. IsKey(y) /\ y.row = passkey[k].row /\ y.counter = run[r].on.count
      BY <3>2 DEF IsKey
    <3>4. passkey' = [passkey EXCEPT ![k] = [passkey[k] EXCEPT !.counter = run[r].on.count]]
      BY <1>1, <2>1 DEF Registered
    <3>5. passkey' = [passkey EXCEPT ![k] = y]
      BY <3>1, <3>2, <3>4, KeyField
    <3>6. passkey' = [j \in DOMAIN passkey |-> IF j = k THEN y ELSE passkey[j]]
      BY <3>5 DEF KeyInv, KeysOK
    <3>7. /\ DOMAIN passkey' = DOMAIN passkey
          /\ \A j \in DOMAIN passkey : passkey'[j] = IF j = k THEN y ELSE passkey[j]
      BY <3>6
    <3>8. passkey' = [j \in DOMAIN passkey' |-> passkey'[j]]
      BY <3>6
    <3>9. KeysOK'
      BY <3>3, <3>7, <3>8 DEF KeyInv, KeysOK
    <3>. QED BY <1>2, <2>1, <3>3, <3>7, <3>9
  <2>2. CASE ~(Registered(k) /\ passkey[k].row = run[r].seen)
    <3>1. passkey' = passkey
      BY <1>1, <2>2
    <3>. QED BY <1>2, <2>2, <3>1 DEF KeyInv, KeysOK, Registered
  <2>. QED BY <2>1, <2>2
<1>9. RowsOfKeys'
  <2>1. ASSUME NEW j \in DOMAIN passkey', NEW id, id = passkey'[j].row
        PROVE  RowOfKey(id, j)' /\ passkey'[j].counter \in Nat
    <3>1. j \in DOMAIN passkey /\ id = passkey[j].row
      BY <1>8, <2>1
    <3>2. RowOfKey(id, j) /\ passkey[j].counter \in Nat
      BY <3>1 DEF KeyInv, RowsOfKeys
    <3>3. RowOfKey(id, j)'
      BY <1>7, <3>2
    <3>. QED BY <1>2, <1>5, <1>8, <3>1, <3>2, <3>3
  <2>. QED BY <2>1 DEF RowsOfKeys
\* Another run that used the same row has written less, and is not about to write.
<1>10. ASSUME NEW q \in Requests \ {r}, run[q].op = "verify", run[q].pc # "key",
              run[q].seen = x.seen, run[q].on.key \in Tracked
       PROVE  /\ run[q].on.key = k /\ run[q].on.count \in Nat
              /\ Wrote(q) => run[q].on.count < x.on.count
              /\ ~(q \in Running("verify") /\ run[q].pc = "count")
  <2>1. Verifying(q)
    BY DEF KeyInv, KeyRun
  <2>2. run[q].on.key = k
    BY <1>5, <1>10, <2>1, OneCredential DEF Verifying
  <2>3. run[q].on.count \in Nat
    BY <1>10, <2>1 DEF Verifying, KeyInv, ResponsesOK
  <2>4. Wrote(q) => run[q].on.count < x.on.count
    BY <1>2, <1>5, <1>6, <1>10, <2>2 DEF Ahead
  <2>5. q \notin Running("verify")
    BY <1>5, <1>6, <1>10, <2>2 DEF Alone, Tracked
  <2>. QED BY <2>2, <2>3, <2>4, <2>5
<1>11. \A q \in Requests : q # r => (Wrote(q)' <=> Wrote(q))
  BY <1>3 DEF Wrote
<1>12. Tracked' = Tracked
  BY <1>1 DEF Tracked
<1>13. \A q \in Requests : Wrote(q) => run[q].op = "verify" /\ run[q].pc # "key"
  BY DEF Wrote
<1>14. ASSUME NEW q \in Requests \ {r}
       PROVE  Counted(q)'
  <2>1. SUFFICES ASSUME Wrote(q)', (run[q].on.key \in Tracked)', Registered(run[q].on.key)',
                        (passkey[run[q].on.key].row = run[q].seen)'
                 PROVE  run'[q].on.count <= passkey'[run'[q].on.key].counter
    BY DEF Counted
  <2>2. PICK j : j = run[q].on.key
    OBVIOUS
  <2>3. /\ Wrote(q) /\ j \in Tracked /\ j \in DOMAIN passkey /\ passkey[j].row = run[q].seen
        /\ run'[q] = run[q]
    BY <1>3, <1>8, <1>11, <1>12, <2>1, <2>2 DEF Registered
  <2>4. run[q].on.count <= passkey[j].counter
    BY <2>2, <2>3 DEF KeyInv, KeyRun, Counted, Registered
  <2>5. CASE passkey'[j] = passkey[j]
    BY <2>2, <2>3, <2>4, <2>5
  <2>6. CASE j = k /\ passkey[j].row = x.seen /\ passkey'[j].counter = x.on.count
    <3>1. run[q].on.count < x.on.count /\ run[q].on.count \in Nat
      BY <1>10, <1>13, <2>2, <2>3, <2>6
    <3>2. run[q].on.count <= x.on.count
      BY <1>2, <1>5, <3>1
    <3>. QED BY <2>2, <2>3, <2>6, <3>2
  <2>. QED BY <1>8, <2>3, <2>5, <2>6
<1>15. Distinct(r)'
  <2>1. SUFFICES ASSUME (run[r].on.key \in Tracked)', NEW q \in Requests, Wrote(q)', q # r,
                        run'[q].seen = run'[r].seen
                 PROVE  run'[q].on.count # run'[r].on.count
    BY DEF Distinct
  <2>2. Wrote(q) /\ run'[q] = run[q] /\ run[q].seen = x.seen /\ k \in Tracked
    BY <1>2, <1>3, <1>11, <1>12, <2>1
  <2>3. run[q].on.key = k
    BY <1>5, <1>13, <2>2, OneCredential DEF KeyInv, KeyRun, Verifying
  <2>4. run[q].on.count < x.on.count /\ run[q].on.count \in Nat
    BY <1>10, <1>13, <2>1, <2>2, <2>3
  <2>. QED BY <1>2, <1>3, <1>5, <2>2, <2>4
<1>16. Counted(r)'
  <2>1. SUFFICES ASSUME Registered(run[r].on.key)', (passkey[run[r].on.key].row = run[r].seen)'
                 PROVE  run'[r].on.count <= passkey'[run'[r].on.key].counter
    BY DEF Counted
  <2>2. k \in DOMAIN passkey /\ passkey[k].row = x.seen /\ run'[r].on = run[r].on
    BY <1>2, <1>3, <1>8, <2>1 DEF Registered
  <2>3. passkey'[k].counter = run[r].on.count
    BY <1>2, <1>8, <2>2
  <2>. QED BY <1>5, <2>2, <2>3
<1>17. KeyRun(r)'
  <2>1. Enrolling(r)' /\ Ahead(r)'
    BY <1>2, <1>3 DEF Enrolling, Ahead
  <2>2. Verifying(r)'
    BY <1>1, <1>2, <1>3, <1>5, <1>7 DEF Verifying
  <2>3. Alone(r)'
    <3>1. \A q \in Running("verify")' : q # r => q \in Running("verify") /\ run'[q] = run[q]
      BY <1>1, <1>3 DEF Running, Working
    <3>. QED BY <1>1, <1>2, <1>3, <1>5, <1>6, <3>1 DEF Alone
  <2>. QED BY <1>15, <1>16, <2>1, <2>2, <2>3 DEF KeyRun
<1>18. \A t \in DOMAIN ticket : Verifiers(t)' \subseteq Verifiers(t)
  BY <1>1, <1>2, <1>3 DEF Verifiers
<1>19. Continues(r, x)
  BY <1>2 DEF Continues
<1>20. ASSUME NEW q \in Requests \ {r}, run[q].op = "verify", run[q].seen = x.seen,
              run[q].on.key \in Tracked'
       PROVE  /\ Wrote(q) => run[q].on.count # x.on.count
              /\ ~(q \in Running("verify") /\ run[q].pc = "count")
  <2>1. CASE run[q].pc = "key"
    BY <2>1 DEF Wrote
  <2>2. CASE run[q].pc # "key"
    BY <1>2, <1>5, <1>10, <1>12, <1>20, <2>2
  <2>. QED BY <2>1, <2>2
<1>. QED BY <1>1, <1>2, <1>4, <1>7, <1>8, <1>9, <1>14, <1>17, <1>18, <1>19, <1>20, KeyMoves

\* A credential is registered: its row has the name of the run, which no sign-in has read.
LEMMA KeyRegistered ==
  ASSUME Base, KeyInv, NEW r \in Requests, InsertKey(r)
  PROVE  KeyInv'
<1>. DEFINE k == run[r].on.key
<1>1. /\ UNCHANGED <<lost, response, ticket, raced>> /\ Advance(r, "enrol", "insert", "ticket")
      /\ ~Registered(k)
      /\ passkey' = [j \in DOMAIN passkey \cup {k} |-> IF j = k THEN NewKey(r) ELSE passkey[j]]
  BY DEF InsertKey
<1>2. PICK x : /\ Becomes(r, x) /\ run[r].op = "enrol" /\ run[r].pc = "insert" /\ r \notin lost
               /\ x.op = "enrol" /\ x.pc = "ticket" /\ x.on = run[r].on
  <2>1. /\ Becomes(r, Moved(run[r], "ticket", run[r].account, run[r].seen))
        /\ run[r].op = "enrol" /\ run[r].pc = "insert" /\ r \notin lost
    BY <1>1, AdvanceRun DEF Advance, At, Base, MailInv, FieldsOK
  <2>. QED BY <2>1 DEF Moved
<1>3. run'[r] = x /\ \A q \in Requests \ {r} : run'[q] = run[q]
  BY <1>2 DEF Becomes
<1>4. TicketsKept /\ DOMAIN ticket' = DOMAIN ticket
  BY <1>1 DEF TicketsKept, KeyInv, TicketsOK
<1>5. run[r].on \in response /\ run[r].on.count \in Nat
  BY <1>2 DEF KeyInv, KeyRun, Enrolling, ResponsesOK
<1>6. \A id, j : RowOfKey(id, j) => RowOfKey(id, j)' /\ id # r
  BY <1>2, <1>3, PasskeysAssumption DEF RowOfKey
<1>8. IsKey(NewKey(r)) /\ NewKey(r).row = r /\ NewKey(r).counter = run[r].on.count
  BY DEF IsKey, NewKey
<1>9. /\ DOMAIN passkey' = DOMAIN passkey \cup {k} /\ passkey'[k] = NewKey(r)
      /\ \A j \in DOMAIN passkey : j # k /\ passkey'[j] = passkey[j]
      /\ passkey' = [j \in DOMAIN passkey' |-> passkey'[j]]
  <2>1. PICK y : y = NewKey(r)
    OBVIOUS
  <2>2. /\ passkey' = [j \in DOMAIN passkey \cup {k} |-> IF j = k THEN y ELSE passkey[j]]
        /\ k \notin DOMAIN passkey
    BY <1>1, <2>1 DEF Registered
  <2>3. /\ DOMAIN passkey' = DOMAIN passkey \cup {k} /\ passkey'[k] = y
        /\ \A j \in DOMAIN passkey : j # k /\ passkey'[j] = passkey[j]
    BY <2>2
  <2>4. passkey' = [j \in DOMAIN passkey' |-> passkey'[j]]
    BY <2>2
  <2>. QED BY <2>1, <2>3, <2>4
<1>10. KeysOK'
  BY <1>8, <1>9 DEF KeyInv, KeysOK
<1>11. RowsOfKeys'
  <2>1. ASSUME NEW j \in DOMAIN passkey', NEW id, id = passkey'[j].row
        PROVE  RowOfKey(id, j)' /\ passkey'[j].counter \in Nat
    <3>1. CASE j \in DOMAIN passkey
      <4>1. passkey'[j] = passkey[j] /\ RowOfKey(id, j) /\ passkey[j].counter \in Nat
        BY <1>9, <2>1, <3>1 DEF KeyInv, RowsOfKeys
      <4>2. RowOfKey(id, j)'
        BY <1>6, <4>1
      <4>. QED BY <4>1, <4>2
    <3>2. CASE j \notin DOMAIN passkey
      <4>1. j = k /\ id = r
        BY <1>8, <1>9, <2>1, <3>2
      <4>2. RowOfKey(id, j)'
        <5>1. ASSUME NEW c, c = k
              PROVE  RowOfKey(r, c)'
          BY <1>2, <1>3, <5>1 DEF RowOfKey
        <5>. QED BY <4>1, <5>1
      <4>. QED BY <1>5, <1>8, <1>9, <4>1, <4>2
    <3>. QED BY <3>1, <3>2
  <2>. QED BY <2>1 DEF RowsOfKeys
<1>12. ASSUME NEW q \in Requests \ {r}
       PROVE  Counted(q)'
  <2>1. SUFFICES ASSUME Wrote(q)', (run[q].on.key \in Tracked)', Registered(run[q].on.key)',
                        (passkey[run[q].on.key].row = run[q].seen)'
                 PROVE  run'[q].on.count <= passkey'[run'[q].on.key].counter
    BY DEF Counted
  <2>2. PICK j : j = run[q].on.key
    OBVIOUS
  <2>3. /\ Wrote(q) /\ j \in Tracked /\ j \in DOMAIN passkey' /\ passkey'[j].row = run[q].seen
        /\ run'[q] = run[q]
    BY <1>1, <1>3, <2>1, <2>2 DEF Wrote, Tracked, Registered
  <2>4. run[q].seen # r
    BY <1>6, <2>3 DEF Wrote, KeyInv, KeyRun, Verifying
  <2>5. j \in DOMAIN passkey /\ passkey'[j] = passkey[j]
    BY <1>8, <1>9, <2>3, <2>4
  <2>6. run[q].on.count <= passkey[j].counter
    BY <2>2, <2>3, <2>5 DEF KeyInv, KeyRun, Counted, Registered
  <2>. QED BY <2>2, <2>3, <2>5, <2>6
<1>13. KeyRun(r)'
  BY <1>1, <1>2, <1>3, <1>5 DEF KeyRun, Enrolling, Verifying, Alone, Ahead, Counted, Distinct,
     Wrote, Running
<1>14. \A t \in DOMAIN ticket : Verifiers(t)' \subseteq Verifiers(t)
  BY <1>1, <1>2, <1>3 DEF Verifiers
<1>15. ~Wrote(r)' /\ x.op # "verify"
  BY <1>2, <1>3 DEF Wrote
<1>16. \A id, j : RowOfKey(id, j) => RowOfKey(id, j)'
  BY <1>6
<1>. QED BY <1>1, <1>2, <1>4, <1>10, <1>11, <1>12, <1>13, <1>14, <1>15, <1>16, KeyMoves

LEMMA KeyKept == Base /\ KeyInv /\ [SignInNext]_vars => KeyInv'
<1>. SUFFICES ASSUME Base, KeyInv, [SignInNext]_vars PROVE KeyInv'
  OBVIOUS
<1>1. MailInv
  BY DEF Base
<1>2. ASSUME NEW ops, Leaves(ops), ops \cap KeyOps = {}, UNCHANGED keyVars
      PROVE  KeyInv'
  <2>1. TicketsKept /\ ResponsesOK' /\ UNCHANGED <<passkey, raced, response>>
    BY <1>2 DEF keyVars, TicketsKept, KeyInv, TicketsOK, ResponsesOK, Signed
  <2>. QED BY <1>2, <2>1, KeyBeside
<1>3. CASE SessionNext /\ UNCHANGED keyVars
  BY <1>1, <1>2, <1>3, SessionsLeave DEF SessionOps, KeyOps
<1>4. CASE MagicNext /\ UNCHANGED keyVars
  BY <1>1, <1>2, <1>4, MagicLeaves DEF MagicOps, KeyOps
<1>5. CASE CodeNext /\ UNCHANGED keyVars
  BY <1>1, <1>2, <1>5, CodesLeave DEF CodeOps, KeyOps
<1>6. CASE UNCHANGED vars
  <2>1. UNCHANGED <<run, lost, session, keyVars>>
    BY <1>6 DEF vars, sessionVars
  <2>2. Leaves({}) /\ {} \cap KeyOps = {}
    BY <2>1, LeavesRuns
  <2>. QED BY <1>2, <2>1, <2>2
<1>7. CASE KeyNext
  <2>1. ASSUME NEW r \in Requests, LoseRun(r), UNCHANGED keyVars
        PROVE  KeyInv'
    <3>1. Leaves({}) /\ {} \cap KeyOps = {}
      BY <2>1, LeavesLost
    <3>. QED BY <1>2, <2>1, <3>1
  <2>2. ASSUME NEW r \in Requests, KeyStep(r)
        PROVE  KeyInv'
    <3>1. CASE \/ FindTicket(r) \/ FindDuplicate(r) \/ KeyTaken(r) \/ DropTicket(r)
               \/ OpenWithKey(r) \/ FindKey(r) \/ DeleteKey(r)
               \/ \E s, k : BeginDelete(r, s, k)
               \/ \E s : \E x \in response : BeginEnrol(r, s, x)
      BY <3>1, KeyStatements
    <3>2. CASE \/ \E x \in response : BeginVerify(r, x)
               \/ ReadKey(r) \/ WriteCount(r) \/ InsertKey(r)
      BY <3>2, VerifyBegins, KeyFound, CountWritten, KeyRegistered
    <3>. QED BY <2>2, <3>1, <3>2 DEF KeyStep
  <2>. QED BY <1>7, <2>1, <2>2, KeyTimes DEF KeyNext
<1>. QED BY <1>3, <1>4, <1>5, <1>6, <1>7 DEF SignInNext

\* What challenges, credentials and those who use them hold in every state.
THEOREM KeysSafe == SignInSpec => []KeyInv
BY KeyInit, KeyKept, BaseSafe, PTL DEF SignInSpec

\* Each door opens as often as its users overlap, no more: a magic link is used up, and
\* a challenge deleted, before the session that it opens, a device link after it; and
\* the count of an authenticator opens one session unless sign-ins overlapped.
THEOREM DoorsBounded == SignInSpec => []DoorsOpen
<1>1. CodeInv /\ LinkInv /\ KeyInv /\ Base => DoorsOpen
  BY CodeImplies, LinkImplies, KeyImplies DEF DoorsOpen
<1>. QED BY <1>1, CodesSafe, LinksSafe, KeysSafe, BaseSafe, PTL

-----------------------------------------------------------------------------
(* What was ended stays out.  A device gets in by a run: one that renews or *)
(* uses a session, one that completes a link, or one that uses a passkey.   *)
(* Each began before the end, or found what it needs still there.           *)

\* A session that was signed out is revoked, and no request of it is under way.
Ended(s) ==
  /\ s \in DOMAIN session /\ session[s].revoked
  /\ \A r \in Working : run[r].by # s

OutInv ==
  /\ DOMAIN session \subseteq SessionIds
  /\ \A s \in out : Ended(s)
  /\ \A r \in Requests : run[r].pc = "answer" =>
       \A s \in run[r].seen : s \in DOMAIN session /\ session[s].revoked

\* Nothing that is under way leads to a session of account a.
Shut(a) ==
  /\ \A s \in DOMAIN session : session[s].account = a => ~Refreshable(s)
  /\ \A c \in DOMAIN qr : qr[c].account = a => qr[c].approver = Nothing \/ qr[c].consumed
  /\ \A r \in Working : /\ run[r].by # Nothing => session[run[r].by].account # a
                        /\ run[r].op = "finish" => run[r].account # a

\* Who ends all sessions of an account ends no single one.
EndsOne(r) == run[r].op \in {"suspend", "handoff", "end-all"} => run[r].on = Nothing

\* Runs are for sessions, or for nobody.
ForOne(r) == run[r].by \in DOMAIN session \cup {Nothing}

ClosedInv ==
  /\ \A a \in closed : Shut(a) /\ ~DoorOpen(a)
  /\ \A r \in Requests : EndsOne(r) /\ ForOne(r)

\* A credential that was deleted is not registered, and no sign-in has found it.
RetiredInv ==
  \A k \in retired :
    /\ ~Registered(k)
    /\ \A r \in Requests \ lost :
         run[r].op = "verify" /\ run[r].on.key = k => run[r].pc \notin {"count", "ticket", "session"}


-----------------------------------------------------------------------------
(* What every step makes of sessions, runs, device links and "out".         *)

\* Sessions stay revoked; one is renewed by a request of it alone.
SessionsHold ==
  /\ \A s \in DOMAIN session :
       /\ s \in DOMAIN session' /\ session'[s].account = session[s].account
       /\ session[s].revoked => session'[s].revoked
       /\ Refreshable(s)' => Refreshable(s) \/ \E r \in Working : run[r].by = s
  /\ \A s \in DOMAIN session' \ DOMAIN session :
       /\ s \in Working /\ run[s].op \in {"complete", "verify", "finish"} /\ run[s].pc = "session"
       /\ session'[s].account = run[s].account

\* A device link is approved by a session of its account, and stays as it is.
CodesHold ==
  /\ DOMAIN qr \subseteq DOMAIN qr'
  /\ \A c \in DOMAIN qr' : qr'[c].approver # Nothing =>
       \/ /\ c \in DOMAIN qr /\ qr'[c].approver = qr[c].approver
          /\ qr'[c].account = qr[c].account /\ (qr[c].consumed => qr'[c].consumed)
       \/ \E r \in Working :
            /\ run[r].by \in DOMAIN session /\ run[r].by = qr'[c].approver
            /\ session[run[r].by].account = qr'[c].account

\* Run q goes on for whom it began, and ends sessions before it answers.
GoesOn(q) ==
  /\ q \in Working
  /\ run'[q].op = run[q].op /\ run'[q].by = run[q].by /\ run'[q].on = run[q].on
  /\ run'[q].op = "finish" => run'[q].account = run[q].account
  /\ run'[q].pc = "answer" => RevokeSessions(q) /\ run'[q].seen = Targets(q)

\* An approved device link of account a waits to be completed.
LinkWaits(a) ==
  \E c \in DOMAIN qr : qr[c].account = a /\ qr[c].approver # Nothing /\ ~qr[c].consumed

\* Run q begins, for a session that is not revoked or for a device that has none.
Begins(q) ==
  /\ run'[q].pc # "answer" /\ EndsOne(q)'
  /\ \/ run'[q].by \in DOMAIN session /\ Refreshable(run'[q].by) /\ run'[q].op # "finish"
     \/ run'[q].by = Nothing /\ (run'[q].op = "finish" => LinkWaits(run'[q].account))

Proceeds(q) == run'[q] = run[q] \/ run'[q] = NotStarted \/ GoesOn(q) \/ Begins(q)

EndsAnswered ==
  \A s \in out' \ out : \E r \in Working :
    run[r].pc = "answer" /\ run'[r] = NotStarted /\ s \in EndedBy(r)

Orderly ==
  /\ lost \subseteq lost'
  /\ SessionsHold /\ CodesHold /\ EndsAnswered
  /\ \A q \in Requests : Proceeds(q)

LEMMA SessionsSame ==
  ASSUME UNCHANGED session
  PROVE  SessionsHold
BY DEF SessionsHold, Refreshable

LEMMA CodesSame ==
  ASSUME UNCHANGED qr
  PROVE  CodesHold
BY DEF CodesHold

LEMMA ProceedsBegin ==
  ASSUME RunsOK, NEW r \in Requests, NEW op, NEW pc, NEW by, NEW on, NEW account, NEW seen,
         Begin(r, op, pc, by, on, account, seen), pc # "answer",
         op \in {"suspend", "handoff", "end-all"} => on = Nothing,
         \/ by \in DOMAIN session /\ Refreshable(by) /\ op # "finish"
         \/ by = Nothing /\ (op = "finish" => LinkWaits(account))
  PROVE  \A q \in Requests : Proceeds(q)
<1>. DEFINE x == [op |-> op, pc |-> pc, by |-> by, on |-> on, account |-> account, seen |-> seen]
<1>1. Becomes(r, x)
  BY BeginRun
<1>2. x.op = op /\ x.pc = pc /\ x.by = by /\ x.on = on /\ x.account = account
  OBVIOUS
<1>. HIDE DEF x
<1>3. Begins(r)
  BY <1>1, <1>2 DEF Becomes, Begins, EndsOne
<1>. QED BY <1>1, <1>3 DEF Becomes, Proceeds

LEMMA ProceedsOn ==
  ASSUME NEW r \in Working, NEW x, Becomes(r, x),
         x.op = run[r].op, x.by = run[r].by, x.on = run[r].on, x.pc # "answer",
         x.op = "finish" => x.account = run[r].account
  PROVE  \A q \in Requests : Proceeds(q)
<1>1. GoesOn(r)
  BY DEF GoesOn, Becomes
<1>. QED BY <1>1 DEF Becomes, Proceeds

LEMMA ProceedsAdvance ==
  ASSUME RunsOK, NEW r \in Requests, NEW op, NEW from, NEW to, Advance(r, op, from, to),
         from \notin {"idle", "refused", "done"}, to # "answer"
  PROVE  \A q \in Requests : Proceeds(q)
<1>. DEFINE x == Moved(run[r], to, run[r].account, run[r].seen)
<1>1. Becomes(r, x)
  BY AdvanceRun
<1>2. r \in Working
  BY DEF Advance, At, Working
<1>3. /\ x.op = run[r].op /\ x.by = run[r].by /\ x.on = run[r].on /\ x.pc = to
      /\ x.account = run[r].account
  BY DEF Moved
<1>. HIDE DEF x
<1>. QED BY <1>1, <1>2, <1>3, ProceedsOn

LEMMA ProceedsFinish ==
  ASSUME RunsOK, NEW r \in Requests, NEW op, NEW from, Finish(r, op, from)
  PROVE  \A q \in Requests : Proceeds(q)
BY FinishRun DEF Becomes, Proceeds

LEMMA ProceedsNot ==
  ASSUME UNCHANGED run
  PROVE  \A q \in Requests : Proceeds(q)
BY DEF Proceeds

\* A door opens the session of run r.
LEMMA SessionsOpened ==
  ASSUME SessionsOK, NEW r \in Working, run[r].op \in {"complete", "verify", "finish"},
         run[r].pc = "session", r \notin DOMAIN session, CreateSession(r, run[r].account)
  PROVE  SessionsHold
<1>1. /\ DOMAIN session' = DOMAIN session \cup {r} /\ session'[r].account = run[r].account
      /\ \A s \in DOMAIN session \ {r} : session'[s] = session[s]
  BY Created
<1>. QED BY <1>1 DEF SessionsHold, Refreshable

LEMMA AgeSet ==
  ASSUME SessionsOK, NEW s, NEW v, session' = [session EXCEPT ![s].age = v]
  PROVE  /\ DOMAIN session' = DOMAIN session
         /\ \A t \in DOMAIN session \ {s} : session'[t] = session[t]
         /\ s \in DOMAIN session =>
              /\ session'[s].account = session[s].account
              /\ session'[s].revoked = session[s].revoked /\ session'[s].age = v
<1>. DEFINE aged == [session[s] EXCEPT !.age = v]
<1>1. session' = [t \in DOMAIN session |-> IF t = s THEN aged ELSE session[t]]
  BY DEF SessionsOK
<1>2. s \in DOMAIN session =>
        /\ aged.account = session[s].account /\ aged.revoked = session[s].revoked /\ aged.age = v
  BY SessionFields DEF SessionsOK
<1>. HIDE DEF aged
<1>. QED BY <1>1, <1>2

\* What RevokeSessions does.
LEMMA EndsHold ==
  ASSUME MailInv, NEW r \in Requests, RevokeSessions(r)
  PROVE  /\ SessionsHold /\ GoesOn(r) /\ run'[r].pc = "answer" /\ run'[r].seen = Targets(r)
         /\ run'[r].account = run[r].account
         /\ \A q \in Requests : Proceeds(q)
         /\ \A q \in Requests \ {r} : run'[q] = run[q]
         /\ \A s \in DOMAIN session : Ends(r, s) => session'[s].revoked
<1>. DEFINE x == Moved(run[r], "answer", run[r].account, Targets(r))
<1>1. /\ IsRun(run[r]) /\ run[r].op \in Ending /\ run[r].pc = "revoke" /\ r \notin lost
      /\ RunsOK /\ SessionsOK
  BY DEF RevokeSessions, At, MailInv, FieldsOK, RunsOK
<1>2. run' = [run EXCEPT ![r] = [run[r] EXCEPT !.pc = "answer", !.seen = Targets(r)]]
  BY <1>1 DEF RevokeSessions, RunsOK
<1>3. [run[r] EXCEPT !.pc = "answer", !.seen = Targets(r)] = x
  <2>1. ASSUME NEW y, IsRun(y), NEW w
        PROVE  [y EXCEPT !.pc = "answer", !.seen = w] = Moved(y, "answer", y.account, w)
    BY <2>1, SeenField
  <2>. QED BY <1>1, <2>1
<1>4. /\ IsRun(x) /\ x.op = run[r].op /\ x.by = run[r].by /\ x.on = run[r].on
      /\ x.pc = "answer" /\ x.account = run[r].account /\ x.seen = Targets(r)
  BY <1>1 DEF IsRun, Moved
<1>. HIDE DEF x
<1>5. Becomes(r, x)
  BY <1>1, <1>2, <1>3, <1>4, ReplaceRun
<1>6. r \in Working
  BY <1>1 DEF Working
<1>7. GoesOn(r) /\ run'[r].pc = "answer" /\ run'[r].seen = Targets(r)
  BY <1>4, <1>5, <1>6 DEF GoesOn, Becomes
<1>8. ASSUME NEW s \in DOMAIN session
      PROVE  /\ s \in DOMAIN session' /\ session'[s].account = session[s].account
             /\ session'[s].age = session[s].age
             /\ Ends(r, s) => session'[s].revoked
             /\ ~Ends(r, s) => session'[s] = session[s]
             /\ session[s].revoked => session'[s].revoked
  <2>. DEFINE ended == [session[s] EXCEPT !.revoked = TRUE]
  <2>1. ended.account = session[s].account /\ ended.revoked = TRUE /\ ended.age = session[s].age
    BY <1>1, SessionFields DEF SessionsOK
  <2>2. session'[s] = IF Ends(r, s) THEN ended ELSE session[s]
    BY DEF RevokeSessions
  <2>3. s \in DOMAIN session'
    BY DEF RevokeSessions
  <2>. HIDE DEF ended
  <2>. QED BY <2>1, <2>2, <2>3
<1>9. DOMAIN session' = DOMAIN session
  BY DEF RevokeSessions
<1>10. \A s \in DOMAIN session : Refreshable(s)' => Refreshable(s)
  BY <1>8 DEF Refreshable
<1>11. SessionsHold
  BY <1>8, <1>9, <1>10 DEF SessionsHold
<1>. QED BY <1>4, <1>5, <1>7, <1>8, <1>11 DEF Becomes, Proceeds

LEMMA SessionsOrderly ==
  ASSUME MailInv, SessionNext, UNCHANGED qr
  PROVE  Orderly
<1>1. RunsOK /\ SessionsOK /\ CodesHold
  BY CodesSame DEF MailInv, FieldsOK
<1>2. lost \subseteq lost'
  BY SessionsLeave DEF Leaves
<1>3. ASSUME NEW r \in Requests, NEW s, NEW by, BeginRefresh(r, s) \/ BeginSignOut(r, by, s)
      PROVE  SessionsHold /\ EndsAnswered /\ \A q \in Requests : Proceeds(q)
  <2>1. UNCHANGED <<session, out>>
    BY <1>3 DEF BeginRefresh, BeginSignOut
  <2>2. \A q \in Requests : Proceeds(q)
    <3>1. CASE BeginRefresh(r, s)
      BY <1>1, <3>1, ProceedsBegin DEF BeginRefresh
    <3>2. CASE BeginSignOut(r, by, s)
      <4>1. by \in DOMAIN session /\ Refreshable(by)
        BY <3>2 DEF BeginSignOut, Usable, Refreshable
      <4>. QED BY <1>1, <3>2, <4>1, ProceedsBegin DEF BeginSignOut
    <3>. QED BY <1>3, <3>1, <3>2
  <2>. QED BY <2>1, <2>2, SessionsSame DEF EndsAnswered
<1>4. ASSUME NEW r \in Requests, NEW a, NEW op \in {"handoff", "end-all"},
             BeginSuspend(r, a) \/ BeginUnsuspend(r, a) \/ BeginEndAll(r, op, a)
      PROVE  SessionsHold /\ EndsAnswered /\ \A q \in Requests : Proceeds(q)
  <2>1. UNCHANGED <<session, out>>
    BY <1>4 DEF BeginSuspend, BeginUnsuspend, BeginEndAll
  <2>2. \A q \in Requests : Proceeds(q)
    BY <1>1, <1>4, ProceedsBegin DEF BeginSuspend, BeginUnsuspend, BeginEndAll
  <2>. QED BY <2>1, <2>2, SessionsSame DEF EndsAnswered
<1>5. ASSUME NEW r \in Requests, TouchSession(r)
      PROVE  SessionsHold /\ EndsAnswered /\ \A q \in Requests : Proceeds(q)
  <2>1. r \in Working
    BY <1>5 DEF TouchSession, Finish, At, Working
  <2>2. PICK s : s = run[r].by /\ session' = [session EXCEPT ![s].age = "fresh"]
    BY <1>5 DEF TouchSession
  <2>3. SessionsHold
    BY <1>1, <2>1, <2>2, AgeSet DEF SessionsHold, Refreshable
  <2>4. \A q \in Requests : Proceeds(q)
    BY <1>1, <1>5, ProceedsFinish DEF TouchSession
  <2>. QED BY <1>5, <2>3, <2>4 DEF EndsAnswered, TouchSession
<1>6. ASSUME NEW r \in Requests, Flag(r) \/ Unflag(r) \/ LoseRun(r)
      PROVE  SessionsHold /\ EndsAnswered /\ \A q \in Requests : Proceeds(q)
  <2>1. UNCHANGED <<session, out>>
    BY <1>6 DEF Flag, Unflag, LoseRun
  <2>2. \A q \in Requests : Proceeds(q)
    BY <1>1, <1>6, ProceedsAdvance, ProceedsFinish, ProceedsNot DEF Flag, Unflag, LoseRun
  <2>. QED BY <2>1, <2>2, SessionsSame DEF EndsAnswered
<1>7. ASSUME NEW r \in Requests, AnswerSignOut(r)
      PROVE  SessionsHold /\ EndsAnswered /\ \A q \in Requests : Proceeds(q)
  <2>1. PICK op : Finish(r, op, "answer")
    BY <1>7 DEF AnswerSignOut
  <2>2. r \in Working /\ run[r].pc = "answer" /\ run'[r] = NotStarted
    BY <1>1, <2>1, FinishRun DEF Finish, At, Working, Becomes
  <2>3. EndsAnswered
    BY <1>7, <2>2 DEF EndsAnswered, AnswerSignOut
  <2>4. \A q \in Requests : Proceeds(q)
    BY <1>1, <2>1, ProceedsFinish
  <2>. QED BY <1>7, <2>3, <2>4, SessionsSame DEF AnswerSignOut
<1>8. ASSUME NEW r \in Requests, RevokeSessions(r)
      PROVE  SessionsHold /\ EndsAnswered /\ \A q \in Requests : Proceeds(q)
  BY <1>8, EndsHold DEF RevokeSessions, EndsAnswered
<1>9. ASSUME NEW s \in SessionIds, Ages(s)
      PROVE  SessionsHold /\ EndsAnswered /\ \A q \in Requests : Proceeds(q)
  <2>1. PICK v : session' = [session EXCEPT ![s].age = v]
    <3>. DEFINE w == IF session[s].age = "fresh" THEN "lapsed" ELSE "gone"
    <3>1. session' = [session EXCEPT ![s].age = w]
      BY <1>9 DEF Ages
    <3>. HIDE DEF w
    <3>. QED BY <3>1
  <2>2. SessionsHold
    BY <1>1, <1>9, <2>1, AgeSet DEF SessionsHold, Refreshable, Ages
  <2>. QED BY <1>9, <2>2, ProceedsNot DEF EndsAnswered, Ages
<1>. QED BY <1>1, <1>2, <1>3, <1>4, <1>5, <1>6, <1>7, <1>8, <1>9 DEF Orderly, SessionNext, SessionStep

LEMMA MagicOrderly ==
  ASSUME MailInv, MagicNext, UNCHANGED qr
  PROVE  Orderly
<1>. USE DEF linkVars, sessionVars
<1>1. RunsOK /\ SessionsOK /\ CodesHold
  BY CodesSame DEF MailInv, FieldsOK
<1>2. lost \subseteq lost'
  BY MagicLeaves DEF Leaves
<1>3. ASSUME NEW r \in Requests, NEW l \in Links, BeginComplete(r, l)
      PROVE  SessionsHold /\ EndsAnswered /\ \A q \in Requests : Proceeds(q)
  <2>1. \A q \in Requests : Proceeds(q)
    BY <1>1, <1>3, ProceedsBegin DEF BeginComplete
  <2>. QED BY <1>3, <2>1, SessionsSame DEF BeginComplete, EndsAnswered
<1>4. ASSUME NEW r \in Requests, NEW l \in Links, MintLink(r, l)
      PROVE  SessionsHold /\ EndsAnswered /\ \A q \in Requests : Proceeds(q)
  <2>1. Finish(r, "handoff", "answer") /\ out' = out \cup EndedBy(r) /\ UNCHANGED session
    BY <1>4 DEF MintLink
  <2>2. r \in Working /\ run[r].pc = "answer" /\ run'[r] = NotStarted
    BY <1>1, <2>1, FinishRun DEF Finish, At, Working, Becomes
  <2>3. EndsAnswered
    BY <2>1, <2>2 DEF EndsAnswered
  <2>4. \A q \in Requests : Proceeds(q)
    BY <1>1, <2>1, ProceedsFinish
  <2>. QED BY <2>1, <2>3, <2>4, SessionsSame
<1>5. ASSUME NEW r \in Requests, FindAccount(r)
      PROVE  SessionsHold /\ EndsAnswered /\ \A q \in Requests : Proceeds(q)
  <2>1. /\ run[r].op = "complete" /\ \A q \in Requests \ {r} : run'[q] = run[q]
        /\ run'[r].op = "complete" /\ run'[r].on = run[r].on
        /\ run'[r].pc \in {"circle", "consume", "email"}
    BY <1>1, <1>5, FindRun
  <2>2. run'[r].by = run[r].by
    <3>1. PICK to : run' = [run EXCEPT ![r].account = AccountFor(r), ![r].pc = to]
      <4>. DEFINE goal == IF Known(Link(r).email) THEN AfterAccount(r) ELSE "email"
      <4>1. run' = [run EXCEPT ![r].account = AccountFor(r), ![r].pc = goal]
        BY <1>5 DEF FindAccount
      <4>. HIDE DEF goal
      <4>. QED BY <4>1
    <3>2. PICK a : a = AccountFor(r)
      OBVIOUS
    <3>3. run' = [run EXCEPT ![r] = [run[r] EXCEPT !.account = a, !.pc = to]]
      BY <1>1, <3>1, <3>2 DEF RunsOK
    <3>4. [run[r] EXCEPT !.account = a, !.pc = to] = Moved(run[r], to, a, run[r].seen)
      BY <1>1, AccountField DEF RunsOK
    <3>5. run'[r] = Moved(run[r], to, a, run[r].seen)
      BY <1>1, <3>3, <3>4 DEF RunsOK
    <3>. QED BY <3>5 DEF Moved
  <2>3. r \in Working
    BY <1>5 DEF FindAccount, At, Working
  <2>4. GoesOn(r)
    BY <2>1, <2>2, <2>3 DEF GoesOn
  <2>5. \A q \in Requests : Proceeds(q)
    BY <2>1, <2>4 DEF Proceeds
  <2>. QED BY <1>5, <2>5, SessionsSame DEF FindAccount, EndsAnswered
<1>6. ASSUME NEW r \in Requests,
             ClaimEmail(r) \/ EmailTaken(r) \/ CountUse(r) \/ JoinCircle(r) \/ Consume(r)
      PROVE  SessionsHold /\ EndsAnswered /\ \A q \in Requests : Proceeds(q)
  <2>1. UNCHANGED <<session, out>>
    BY <1>6 DEF ClaimEmail, EmailTaken, CountUse, JoinCircle, Consume
  <2>2. \/ Finish(r, "complete", "email")
        \/ \E from \in {"email", "count", "circle", "consume"} :
           \E to \in {"count", "circle", "consume", "refused", "session"} :
             Advance(r, "complete", from, to)
    BY <1>6 DEF ClaimEmail, EmailTaken, CountUse, JoinCircle, Consume, AfterEmail, AfterAccount
  <2>3. \A q \in Requests : Proceeds(q)
    BY <1>1, <2>2, ProceedsAdvance, ProceedsFinish
  <2>. QED BY <2>1, <2>3, SessionsSame DEF EndsAnswered
<1>7. ASSUME NEW r \in Requests, OpenSession(r)
      PROVE  SessionsHold /\ EndsAnswered /\ \A q \in Requests : Proceeds(q)
  <2>1. /\ r \in Working /\ run[r].op = "complete" /\ run[r].pc = "session"
        /\ CreateSession(r, run[r].account) /\ out' = out
    BY <1>7 DEF OpenSession, Advance, At, Working
  <2>2. r \notin DOMAIN session
    BY <1>7 DEF OpenSession, Advance, At, MailInv, RunInv, Through
  <2>3. \A q \in Requests : Proceeds(q)
    BY <1>1, <1>7, ProceedsAdvance DEF OpenSession
  <2>. QED BY <1>1, <2>1, <2>2, <2>3, SessionsOpened DEF EndsAnswered
<1>8. CASE (\E l \in Links : LinkStep(l)) \/ InviteCloses \/ CircleCloses
           \/ \E r \in Requests : LoseRun(r) /\ UNCHANGED linkVars
  <2>1. UNCHANGED <<session, run, out>>
    BY <1>8 DEF LinkStep, ReviewLink, AskLink, CheckInvite, InsertLink, LinkLapses,
         InviteCloses, CircleCloses, LoseRun
  <2>. QED BY <1>1, <1>2, <2>1, SessionsSame, ProceedsNot DEF EndsAnswered, Orderly
<1>. QED BY <1>1, <1>2, <1>3, <1>4, <1>5, <1>6, <1>7, <1>8 DEF Orderly, MagicNext, CompleteStep

\* What the handlers of device links write into a row.
LEMMA RowWritten ==
  ASSUME CodeInv, NEW r \in Requests, WriteClaim(r) \/ Approve(r) \/ ConsumeCode(r)
  PROVE  /\ run[r].on \in DOMAIN qr /\ DOMAIN qr' = DOMAIN qr
         /\ \A d \in DOMAIN qr \ {run[r].on} : qr'[d] = qr[d]
         /\ qr'[run[r].on].account = qr[run[r].on].account
         /\ qr[run[r].on].consumed => qr'[run[r].on].consumed
         /\ qr'[run[r].on].approver = IF Approve(r) THEN run[r].by ELSE qr[run[r].on].approver
<1>. DEFINE c == run[r].on
<1>1. RowsOK /\ CodeRun(r)
  BY DEF CodeInv
<1>2. c \in DOMAIN qr /\ IsRow(qr[c])
  BY <1>1 DEF WriteClaim, Approve, ConsumeCode, Finish, Advance, At, CodeRun, Claiming, Confirming,
     Finishing, ApprovedRight, HasRow, RowsOK
<1>3. PICK x, seen, by, yes : x = qr[c] /\ seen = run[r].seen /\ by = run[r].by /\ yes = TRUE
  OBVIOUS
<1>4. IsRow(x)
  BY <1>2, <1>3
<1>c. [x EXCEPT !.label = seen, !.claimed = yes] =
        [mode |-> x.mode, account |-> x.account, label |-> seen, claimed |-> yes,
         approver |-> x.approver, shown |-> x.shown, consumed |-> x.consumed]
  BY ONLY <1>4, RowClaims
<1>a. [x EXCEPT !.approver = by, !.shown = seen] =
        [mode |-> x.mode, account |-> x.account, label |-> x.label, claimed |-> x.claimed,
         approver |-> by, shown |-> seen, consumed |-> x.consumed]
  BY ONLY <1>4, RowApproves
<1>u. [x EXCEPT !.consumed = yes] =
        [mode |-> x.mode, account |-> x.account, label |-> x.label, claimed |-> x.claimed,
         approver |-> x.approver, shown |-> x.shown, consumed |-> yes]
  BY ONLY <1>4, RowField
<1>5. PICK y : /\ qr' = [qr EXCEPT ![c] = y] /\ IsRow(y) /\ y.account = x.account
               /\ x.consumed => y.consumed
               /\ y.approver = IF Approve(r) THEN by ELSE x.approver
  <2>1. CASE WriteClaim(r)
    <3>1. ~Approve(r)
      BY <2>1 DEF WriteClaim, Approve, Finish, At
    <3>2. qr' = [qr EXCEPT ![c] = [x EXCEPT !.label = seen, !.claimed = yes]]
      BY <1>1, <1>2, <1>3, <2>1 DEF WriteClaim, RowsOK
    <3>3. PICK y : y = [mode |-> x.mode, account |-> x.account, label |-> seen, claimed |-> yes,
                        approver |-> x.approver, shown |-> x.shown, consumed |-> x.consumed]
      OBVIOUS
    <3>4. /\ IsRow(y) /\ y.account = x.account /\ y.consumed = x.consumed
          /\ y.approver = x.approver
      BY <3>3 DEF IsRow
    <3>. QED BY <1>c, <3>1, <3>2, <3>3, <3>4
  <2>2. CASE Approve(r)
    <3>1. Approved(r) = [x EXCEPT !.approver = by, !.shown = seen]
      BY <1>3 DEF Approved, Row
    <3>2. PICK y : y = [mode |-> x.mode, account |-> x.account, label |-> x.label,
                        claimed |-> x.claimed, approver |-> by, shown |-> seen,
                        consumed |-> x.consumed]
      OBVIOUS
    <3>3. IsRow(y) /\ y.account = x.account /\ y.consumed = x.consumed /\ y.approver = by
      BY <3>2 DEF IsRow
    <3>4. qr' = [qr EXCEPT ![c] = y]
      BY <1>a, <2>2, <3>1, <3>2 DEF Approve
    <3>. QED BY <2>2, <3>3, <3>4
  <2>3. CASE ConsumeCode(r)
    <3>1. ~Approve(r)
      BY <2>3 DEF ConsumeCode, Approve, Advance, Finish, At
    <3>2. qr' = [qr EXCEPT ![c] = [x EXCEPT !.consumed = yes]]
      BY <1>1, <1>2, <1>3, <2>3 DEF ConsumeCode, RowsOK
    <3>3. PICK y : y = [mode |-> x.mode, account |-> x.account, label |-> x.label,
                        claimed |-> x.claimed, approver |-> x.approver, shown |-> x.shown,
                        consumed |-> yes]
      OBVIOUS
    <3>4. IsRow(y) /\ y.account = x.account /\ y.consumed /\ y.approver = x.approver
      BY <1>3, <3>3 DEF IsRow
    <3>. QED BY <1>u, <3>1, <3>2, <3>3, <3>4
  <2>. QED BY <2>1, <2>2, <2>3
<1>6. /\ DOMAIN qr' = DOMAIN qr /\ qr'[c] = y
      /\ \A d \in DOMAIN qr \ {c} : qr'[d] = qr[d]
  BY <1>1, <1>2, <1>5, ReplaceRow
<1>. QED BY <1>2, <1>3, <1>5, <1>6

LEMMA CodesOrderly ==
  ASSUME Base, CodeInv, CodeNext
  PROVE  Orderly
<1>. USE DEF qrVars, sessionVars
<1>1. RunsOK /\ SessionsOK /\ RowsOK
  BY DEF Base, MailInv, FieldsOK, CodeInv
<1>2. lost \subseteq lost'
  BY CodesLeave DEF Leaves, Base
<1>3. ASSUME NEW r \in Requests, NEW s, NEW c, NEW label,
             \/ BeginShow(r, s, c, label) \/ BeginScan(r, s, c, label)
             \/ BeginClaim(r, c, label) \/ BeginConfirm(r, s, c)
      PROVE  Orderly
  <2>1. UNCHANGED <<session, out, qr>>
    BY <1>3 DEF BeginShow, BeginScan, BeginClaim, BeginConfirm
  <2>2. Usable(s) => s \in DOMAIN session /\ Refreshable(s)
    BY DEF Usable, Refreshable
  <2>3. \A q \in Requests : Proceeds(q)
    BY <1>1, <1>3, <2>2, ProceedsBegin DEF BeginShow, BeginScan, BeginClaim, BeginConfirm
  <2>. QED BY <1>2, <2>1, <2>3, SessionsSame, CodesSame DEF EndsAnswered, Orderly
<1>4. ASSUME NEW r \in Requests, NEW c, BeginFinish(r, c)
      PROVE  Orderly
  <2>1. UNCHANGED <<session, out, qr>>
    BY <1>4 DEF BeginFinish
  <2>2. LinkWaits(Row(c).account)
    BY <1>4 DEF BeginFinish, Finishable, State, Row, HasRow, LinkWaits
  <2>3. \A q \in Requests : Proceeds(q)
    BY <1>1, <1>4, <2>2, ProceedsBegin DEF BeginFinish
  <2>. QED BY <1>2, <2>1, <2>3, SessionsSame, CodesSame DEF EndsAnswered, Orderly
<1>5. ASSUME NEW r \in Requests,
             \/ InsertShown(r) \/ FindScanned(r) \/ InsertScanned(r) \/ WriteClaim(r)
             \/ ReadRow(r) \/ Approve(r) \/ ConsumeCode(r)
      PROVE  SessionsHold /\ EndsAnswered /\ \A q \in Requests : Proceeds(q)
  <2>1. UNCHANGED <<session, out>>
    BY <1>5 DEF InsertShown, FindScanned, InsertScanned, WriteClaim, ReadRow, Approve, ConsumeCode
  <2>2. \/ \E op, from : Finish(r, op, from)
        \/ \E op, from, to : /\ Advance(r, op, from, to)
                             /\ from \notin {"idle", "refused", "done"} /\ to # "answer"
    BY <1>5 DEF InsertShown, FindScanned, InsertScanned, WriteClaim, ReadRow, Approve, ConsumeCode
  <2>3. \A q \in Requests : Proceeds(q)
    BY <1>1, <2>2, ProceedsAdvance, ProceedsFinish
  <2>. QED BY <2>1, <2>3, SessionsSame DEF EndsAnswered
<1>6. ASSUME NEW r \in Requests, InsertShown(r) \/ InsertScanned(r)
      PROVE  CodesHold
  <2>1. CASE UNCHANGED qr
    BY <2>1, CodesSame
  <2>2. CASE ~UNCHANGED qr
    <3>1. PICK mode, claimed :
            InsertRow(run[r].on, mode, run[r].account, run[r].seen, claimed)
      BY <1>6, <2>2 DEF InsertShown, InsertScanned
    <3>2. /\ qr'[run[r].on].approver = Nothing /\ DOMAIN qr \subseteq DOMAIN qr'
          /\ \A d \in DOMAIN qr' : d # run[r].on => d \in DOMAIN qr /\ qr'[d] = qr[d]
      BY <3>1 DEF InsertRow
    <3>. QED BY <3>2 DEF CodesHold
  <2>. QED BY <2>1, <2>2
<1>7. ASSUME NEW r \in Requests, WriteClaim(r) \/ ConsumeCode(r)
      PROVE  CodesHold
  <2>1. ~Approve(r)
    BY <1>7 DEF WriteClaim, ConsumeCode, Approve, Finish, Advance, At
  <2>. QED BY <1>7, <2>1, RowWritten DEF CodesHold
<1>8. ASSUME NEW r \in Requests, Approve(r)
      PROVE  CodesHold
  <2>1. /\ r \in Working /\ run[r].by \in DOMAIN session
        /\ session[run[r].by].account = qr[run[r].on].account
    BY <1>8 DEF Approve, Finish, At, Working, CodeInv, CodeRun, Confirming, OwnRow, Row
  <2>. QED BY <1>8, <2>1, RowWritten DEF CodesHold
<1>9. ASSUME NEW r \in Requests, FindScanned(r) \/ ReadRow(r)
      PROVE  CodesHold
  BY <1>9, CodesSame DEF FindScanned, ReadRow
<1>10. ASSUME NEW r \in Requests, OpenLinked(r)
       PROVE  Orderly
  <2>1. /\ r \in Working /\ run[r].op = "finish" /\ run[r].pc = "session"
        /\ CreateSession(r, run[r].account) /\ UNCHANGED <<qr, out>>
    BY <1>10 DEF OpenLinked, Advance, At, Working
  <2>2. r \notin DOMAIN session
    BY <1>10 DEF OpenLinked, Advance, At, Base, MailInv, RunInv, Through
  <2>3. \A q \in Requests : Proceeds(q)
    BY <1>1, <1>10, ProceedsAdvance DEF OpenLinked
  <2>. QED BY <1>1, <1>2, <2>1, <2>2, <2>3, SessionsOpened, CodesSame DEF EndsAnswered, Orderly
<1>11. CASE \/ \E r \in Requests : LoseRun(r) /\ UNCHANGED qrVars
            \/ \E c \in Codes : CodeLapses(c)
  <2>1. UNCHANGED <<session, run, out, qr>>
    BY <1>11 DEF LoseRun, CodeLapses
  <2>. QED BY <1>2, <2>1, SessionsSame, ProceedsNot, CodesSame DEF EndsAnswered, Orderly
<1>. QED
  BY <1>2, <1>3, <1>4, <1>5, <1>6, <1>7, <1>8, <1>9, <1>10, <1>11 DEF Orderly, CodeNext, CodeStep

LEMMA KeysOrderly ==
  ASSUME MailInv, KeyNext, UNCHANGED qr
  PROVE  Orderly
<1>. USE DEF keyVars, sessionVars
<1>1. RunsOK /\ SessionsOK /\ CodesHold
  BY CodesSame DEF MailInv, FieldsOK
<1>2. lost \subseteq lost'
  BY KeysLeave DEF Leaves
<1>3. ASSUME NEW r \in Requests, NEW s, NEW x,
             BeginVerify(r, x) \/ BeginEnrol(r, s, x) \/ BeginDelete(r, s, x)
      PROVE  SessionsHold /\ EndsAnswered /\ \A q \in Requests : Proceeds(q)
  <2>1. UNCHANGED <<session, out>>
    BY <1>3 DEF BeginVerify, BeginEnrol, BeginDelete
  <2>2. Usable(s) => s \in DOMAIN session /\ Refreshable(s)
    BY DEF Usable, Refreshable
  <2>3. \A q \in Requests : Proceeds(q)
    BY <1>1, <1>3, <2>2, ProceedsBegin DEF BeginVerify, BeginEnrol, BeginDelete
  <2>. QED BY <2>1, <2>3, SessionsSame DEF EndsAnswered
<1>4. ASSUME NEW r \in Requests,
             \/ FindTicket(r) \/ FindDuplicate(r) \/ InsertKey(r) \/ KeyTaken(r)
             \/ DropTicket(r) \/ WriteCount(r) \/ DeleteKey(r)
      PROVE  SessionsHold /\ EndsAnswered /\ \A q \in Requests : Proceeds(q)
  <2>1. UNCHANGED <<session, out>>
    BY <1>4 DEF FindTicket, FindDuplicate, InsertKey, KeyTaken, DropTicket, WriteCount, DeleteKey
  <2>2. \/ \E op, from : Finish(r, op, from)
        \/ \E op, from, to : /\ Advance(r, op, from, to)
                             /\ from \notin {"idle", "refused", "done"} /\ to # "answer"
    BY <1>4 DEF FindTicket, FindDuplicate, InsertKey, KeyTaken, DropTicket, WriteCount, DeleteKey
  <2>3. \A q \in Requests : Proceeds(q)
    BY <1>1, <2>2, ProceedsAdvance, ProceedsFinish
  <2>. QED BY <2>1, <2>3, SessionsSame DEF EndsAnswered
<1>5. ASSUME NEW r \in Requests, ReadKey(r) \/ FindKey(r)
      PROVE  SessionsHold /\ EndsAnswered /\ \A q \in Requests : Proceeds(q)
  <2>1. /\ r \in Working /\ run[r].op # "finish" /\ UNCHANGED <<session, out>>
        /\ ReadKey(r) \/ FindKey(r)
    BY <1>5 DEF ReadKey, FindKey, At, Working
  <2>2. PICK x :
          /\ Becomes(r, x)
          /\ ReadKey(r) /\ x # NotStarted =>
               x = Moved(run[r], "count", passkey[run[r].on.key].account, passkey[run[r].on.key].row)
          /\ FindKey(r) /\ x # NotStarted =>
               x = Moved(run[r], "delete", run[r].account, passkey[run[r].on].row)
    BY <1>1, <1>5, KeyRead
  <2>3. x = NotStarted \/ (/\ x.op = run[r].op /\ x.by = run[r].by /\ x.on = run[r].on
                           /\ x.pc # "answer")
    BY <2>1, <2>2 DEF Moved
  <2>4. \A q \in Requests : Proceeds(q)
    <3>1. CASE x = NotStarted
      BY <2>2, <3>1 DEF Becomes, Proceeds
    <3>2. CASE x # NotStarted
      BY <2>1, <2>2, <2>3, <3>2, ProceedsOn
    <3>. QED BY <3>1, <3>2
  <2>. QED BY <2>1, <2>4, SessionsSame DEF EndsAnswered
<1>6. ASSUME NEW r \in Requests, OpenWithKey(r)
      PROVE  SessionsHold /\ EndsAnswered /\ \A q \in Requests : Proceeds(q)
  <2>1. /\ r \in Working /\ run[r].op = "verify" /\ run[r].pc = "session"
        /\ CreateSession(r, run[r].account) /\ out' = out
    BY <1>6 DEF OpenWithKey, Advance, At, Working
  <2>2. r \notin DOMAIN session
    BY <1>6 DEF OpenWithKey, Advance, At, MailInv, RunInv, Through
  <2>3. \A q \in Requests : Proceeds(q)
    BY <1>1, <1>6, ProceedsAdvance DEF OpenWithKey
  <2>. QED BY <1>1, <2>1, <2>2, <2>3, SessionsOpened DEF EndsAnswered
<1>7. ASSUME NEW t, NEW k, NEW s,
             \/ Sign(k, t) \/ IssueRegister(t, s) \/ IssueAuthenticate(t) \/ TicketLapses(t)
      PROVE  SessionsHold /\ EndsAnswered /\ \A q \in Requests : Proceeds(q)
  <2>1. UNCHANGED <<session, run, out>>
    BY <1>7 DEF Sign, IssueRegister, IssueAuthenticate, TicketLapses
  <2>. QED BY <2>1, SessionsSame, ProceedsNot DEF EndsAnswered
<1>8. ASSUME NEW r \in Requests, LoseRun(r)
      PROVE  SessionsHold /\ EndsAnswered /\ \A q \in Requests : Proceeds(q)
  <2>1. UNCHANGED <<session, run, out>>
    BY <1>8 DEF LoseRun
  <2>. QED BY <2>1, SessionsSame, ProceedsNot DEF EndsAnswered
<1>9. SessionsHold /\ EndsAnswered /\ \A q \in Requests : Proceeds(q)
  BY <1>3, <1>4, <1>5, <1>6, <1>7, <1>8 DEF KeyNext, KeyStep
<1>. QED BY <1>1, <1>2, <1>9 DEF Orderly

LEMMA StepOrderly ==
  ASSUME Base, CodeInv, [SignInNext]_vars
  PROVE  Orderly
<1>1. CASE UNCHANGED vars
  <2>1. UNCHANGED <<session, run, lost, out, qr>>
    BY <1>1 DEF vars, sessionVars, qrVars
  <2>. QED BY <2>1, SessionsSame, CodesSame, ProceedsNot DEF EndsAnswered, Orderly
<1>2. CASE SignInNext
  BY <1>2, SessionsOrderly, MagicOrderly, CodesOrderly, KeysOrderly
     DEF SignInNext, Base, qrVars
<1>. QED BY <1>1, <1>2

-----------------------------------------------------------------------------
(* The invariants.                                                          *)

LEMMA OutKept ==
  ASSUME OutInv, Orderly
  PROVE  OutInv'
<1>1. Nothing \notin SessionIds
  BY SessionsAssumption DEF SessionIds
<1>2. (DOMAIN session \subseteq SessionIds)'
  BY DEF OutInv, Orderly, SessionsHold, SessionIds, Working
<1>3. ASSUME NEW q \in Working', NEW s \in DOMAIN session, session[s].revoked, run'[q].by = s
      PROVE  q \in Working /\ run[q].by = s /\ run'[q] # NotStarted
  <2>1. q \in Requests /\ run'[q].pc \notin {"idle", "refused", "done"} /\ q \notin lost
    BY DEF Working, Orderly
  <2>2. run'[q] # NotStarted
    BY <2>1 DEF NotStarted
  <2>3. Proceeds(q)
    BY <2>1 DEF Orderly
  <2>4. ~Begins(q)
    BY <1>1, <1>3 DEF Begins, Refreshable, OutInv
  <2>. QED BY <1>3, <2>1, <2>2, <2>3, <2>4 DEF Proceeds, GoesOn, Working
<1>4. \A s \in DOMAIN session : session[s].revoked => s \in DOMAIN session' /\ session'[s].revoked
  BY DEF Orderly, SessionsHold
<1>5. ASSUME NEW s \in out'
      PROVE  Ended(s)'
  <2>1. CASE s \in out
    BY <1>3, <1>4, <2>1 DEF OutInv, Ended
  <2>2. CASE s \notin out
    <3>1. PICK r \in Working : run[r].pc = "answer" /\ run'[r] = NotStarted /\ s \in EndedBy(r)
      BY <2>2 DEF Orderly, EndsAnswered
    <3>2. s \in DOMAIN session /\ session[s].revoked /\ \A q \in Working \ {r} : run[q].by # s
      BY <3>1 DEF EndedBy, OutInv, Working
    <3>. QED BY <1>3, <1>4, <3>1, <3>2 DEF Ended
  <2>. QED BY <2>1, <2>2
<1>6. ASSUME NEW q \in Requests, run'[q].pc = "answer"
      PROVE  \A s \in run'[q].seen : s \in DOMAIN session' /\ session'[s].revoked
  <2>1. Proceeds(q) /\ ~Begins(q) /\ run'[q] # NotStarted
    BY <1>6 DEF Orderly, Begins, NotStarted
  <2>2. CASE run'[q] = run[q]
    BY <1>4, <1>6, <2>2 DEF OutInv
  <2>3. CASE GoesOn(q)
    <3>1. RevokeSessions(q) /\ run'[q].seen = Targets(q)
      BY <1>6, <2>3 DEF GoesOn
    <3>. QED BY <3>1 DEF RevokeSessions, Targets, Ends
  <2>. QED BY <2>1, <2>2, <2>3 DEF Proceeds
<1>. QED BY <1>2, <1>5, <1>6 DEF OutInv

\* No session and no device link of a is on its way.
Still(a) ==
  /\ \A c \in DOMAIN qr : qr[c].account = a => qr[c].approver = Nothing \/ qr[c].consumed
  /\ \A r \in Working : /\ run[r].by # Nothing => session[run[r].by].account # a
                        /\ run[r].op = "finish" => run[r].account # a

LEMMA LinksStayShut ==
  ASSUME OutInv, Orderly, NEW a, Still(a)
  PROVE  \A c \in DOMAIN qr' : qr'[c].account = a => qr'[c].approver = Nothing \/ qr'[c].consumed
<1>1. Nothing \notin DOMAIN session
  BY SessionsAssumption DEF SessionIds, OutInv
<1>. QED BY <1>1 DEF Still, Orderly, CodesHold

\* An account stays closed while none of its doors opens.
LEMMA StaysClosed ==
  ASSUME OutInv, ClosedInv, Orderly, NEW a \in closed
  PROVE  Shut(a)'
<1>1. Shut(a) /\ Still(a) /\ Running("complete") \cup Running("verify") = {}
  BY DEF ClosedInv, DoorOpen, Shut, Still
<1>2. Nothing \notin DOMAIN session
  BY SessionsAssumption DEF SessionIds, OutInv
<1>3. ASSUME NEW s \in DOMAIN session', session'[s].account = a
      PROVE  ~Refreshable(s)'
  <2>1. CASE s \in DOMAIN session
    <3>1. session[s].account = a /\ ~Refreshable(s) /\ \A r \in Working : run[r].by # s
      BY <1>1, <1>2, <1>3, <2>1 DEF Orderly, SessionsHold, Shut
    <3>. QED BY <2>1, <3>1 DEF Orderly, SessionsHold
  <2>2. CASE s \notin DOMAIN session
    <3>1. /\ s \in Working /\ run[s].op \in {"complete", "verify", "finish"}
          /\ session'[s].account = run[s].account
      BY <2>2 DEF Orderly, SessionsHold
    <3>2. run[s].op = "finish"
      BY <1>1, <3>1 DEF Running
    <3>. QED BY <1>1, <1>3, <3>1, <3>2 DEF Shut
  <2>. QED BY <2>1, <2>2
<1>4. ASSUME NEW q \in Working'
      PROVE  /\ run'[q].by # Nothing => session'[run'[q].by].account # a
             /\ run'[q].op = "finish" => run'[q].account # a
  <2>1. /\ q \in Requests /\ q \notin lost /\ run'[q] # NotStarted
        /\ run'[q] = run[q] => q \in Working
    BY DEF Working, Orderly, NotStarted
  <2>2. \A s \in DOMAIN session : session'[s].account = session[s].account
    BY DEF Orderly, SessionsHold
  <2>3. CASE run'[q] = run[q] \/ GoesOn(q)
    <3>1. /\ q \in Working /\ run'[q].by = run[q].by
          /\ run'[q].op = "finish" => run[q].op = "finish" /\ run'[q].account = run[q].account
      BY <2>1, <2>3 DEF GoesOn
    <3>2. run[q].by \in DOMAIN session \cup {Nothing}
      BY <2>1 DEF ClosedInv, ForOne
    <3>. QED BY <1>1, <2>2, <3>1, <3>2 DEF Shut
  <2>4. CASE Begins(q)
    <3>1. run'[q].by # Nothing => run'[q].by \in DOMAIN session /\ Refreshable(run'[q].by)
      BY <2>4 DEF Begins
    <3>2. run'[q].op = "finish" => LinkWaits(run'[q].account)
      BY <2>4 DEF Begins
    <3>. QED BY <1>1, <2>2, <3>1, <3>2 DEF Shut, LinkWaits
  <2>. QED BY <2>1, <2>3, <2>4 DEF Proceeds, Orderly
<1>5. \A c \in DOMAIN qr' : qr'[c].account = a => qr'[c].approver = Nothing \/ qr'[c].consumed
  BY <1>1, LinksStayShut
<1>. QED BY <1>3, <1>4, <1>5 DEF Shut

\* An operator ends all sessions of an account of which nothing is on its way.
LEMMA GetsClosed ==
  ASSUME Base, OutInv, ClosedInv, Orderly, NEW r \in Requests, EndsAll(r),
         NEW a, run[r].account = a, ~Lingering(a)
  PROVE  Shut(a)'
<1>1. RevokeSessions(r)
  <2>1. run'[r] # run[r] /\ run'[r] # NotStarted /\ run'[r].pc = "answer" /\ Proceeds(r)
    BY DEF EndsAll, NotStarted, Orderly
  <2>. QED BY <2>1 DEF Proceeds, GoesOn, Begins
<1>2. /\ GoesOn(r) /\ run'[r].account = a
      /\ \A q \in Requests \ {r} : run'[q] = run[q]
      /\ \A s \in DOMAIN session : Ends(r, s) => session'[s].revoked
  BY <1>1, EndsHold DEF Base
<1>3. Still(a) /\ Running("finish") = {}
  BY DEF Lingering, Still, Running
<1>4. \A s \in DOMAIN session : session'[s].account = session[s].account
  BY DEF Orderly, SessionsHold
<1>5. ASSUME NEW s \in DOMAIN session', session'[s].account = a
      PROVE  ~Refreshable(s)'
  <2>1. s \in DOMAIN session /\ session[s].account = a
    BY <1>1, <1>4, <1>5 DEF RevokeSessions
  <2>2. Ends(r, s)
    BY <2>1 DEF Ends, ClosedInv, EndsOne, EndsAll
  <2>. QED BY <1>2, <2>1, <2>2 DEF Refreshable
<1>6. ASSUME NEW q \in Working'
      PROVE  /\ run'[q].by # Nothing => session'[run'[q].by].account # a
             /\ run'[q].op = "finish" => run'[q].account # a
  <2>1. q \in Requests /\ q \notin lost
    BY DEF Working, Orderly
  <2>2. q \in Working /\ run'[q].by = run[q].by /\ run'[q].op = run[q].op
    <3>1. CASE q = r
      BY <1>2, <3>1 DEF GoesOn
    <3>2. CASE q # r
      BY <1>2, <2>1, <3>2 DEF Working
    <3>. QED BY <3>1, <3>2
  <2>3. run[q].by \in DOMAIN session \cup {Nothing}
    BY <2>1 DEF ClosedInv, ForOne
  <2>. QED BY <1>3, <1>4, <2>2, <2>3 DEF Still, Running
<1>7. \A c \in DOMAIN qr' : qr'[c].account = a => qr'[c].approver = Nothing \/ qr'[c].consumed
  BY <1>3, LinksStayShut
<1>. QED BY <1>5, <1>6, <1>7 DEF Shut

LEMMA ClosedKept ==
  ASSUME Base, OutInv, ClosedInv, Orderly, Watch \/ UNCHANGED vars
  PROVE  ClosedInv'
<1>1. ASSUME NEW a \in closed'
      PROVE  Shut(a)' /\ ~DoorOpen(a)'
  <2>1. CASE UNCHANGED vars
    <3>1. a \in closed /\ ~DoorOpen(a)
      BY <2>1 DEF vars, ClosedInv
    <3>2. ~DoorOpen(a)'
      BY <2>1, <3>1 DEF vars, sessionVars, linkVars, DoorOpen, Known, Running, Working
    <3>. QED BY <3>1, <3>2, StaysClosed
  <2>2. CASE Watch
    <3>1. ~DoorOpen(a)'
      BY <2>2 DEF Watch
    <3>2. CASE a \in closed
      BY <3>1, <3>2, StaysClosed
    <3>3. CASE a \notin closed
      <4>1. PICK r \in Requests : EndsAll(r) /\ run[r].account = a /\ ~Lingering(a)
        BY <2>2, <3>3 DEF Watch
      <4>. QED BY <3>1, <4>1, GetsClosed
    <3>. QED BY <3>2, <3>3
  <2>. QED BY <2>1, <2>2
<1>2. ASSUME NEW q \in Requests
      PROVE  EndsOne(q)' /\ ForOne(q)'
  <2>1. Proceeds(q) /\ EndsOne(q) /\ ForOne(q) /\ DOMAIN session \subseteq DOMAIN session'
    BY DEF Orderly, SessionsHold, ClosedInv
  <2>. QED BY <2>1 DEF Proceeds, EndsOne, ForOne, NotStarted, GoesOn, Begins
<1>. QED BY <1>1, <1>2 DEF ClosedInv

LEMMA Advanced ==
  ASSUME RunsOK, NEW r \in Requests, NEW op, NEW from, NEW to, Advance(r, op, from, to)
  PROVE  /\ run[r].op = op /\ run[r].pc = from /\ r \notin lost
         /\ run'[r].op = op /\ run'[r].pc = to /\ run'[r].on = run[r].on
         /\ \A q \in Requests \ {r} : run'[q] = run[q]
<1>1. /\ run[r].op = op /\ run[r].pc = from
      /\ Becomes(r, Moved(run[r], to, run[r].account, run[r].seen))
  BY AdvanceRun
<1>2. r \notin lost
  BY DEF Advance, At
<1>. QED BY <1>1, <1>2 DEF Becomes, Moved

LEMMA RetiredKept ==
  ASSUME Base, RetiredInv, [SignInNext]_vars
  PROVE  RetiredInv'
<1>1. MailInv /\ RunsOK
  BY DEF Base, MailInv, FieldsOK
\* No key changes, and no sign-in with one goes on.
<1>2. ASSUME UNCHANGED <<passkey, retired>>, lost \subseteq lost',
             \A q \in Requests : \/ run'[q] = run[q] \/ run'[q].op # "verify"
                                 \/ run'[q].pc \notin {"count", "ticket", "session"}
                                 \/ /\ run[q].op = "verify" /\ run'[q].on = run[q].on
                                    /\ run[q].pc \in {"count", "ticket", "session"}
                                    /\ q \notin lost
      PROVE  RetiredInv'
  BY <1>2 DEF RetiredInv, Registered
<1>3. ASSUME NEW ops, Leaves(ops), "verify" \notin ops, UNCHANGED <<passkey, retired>>
      PROVE  RetiredInv'
  BY <1>2, <1>3 DEF Leaves
<1>4. CASE UNCHANGED vars \/ ~KeyNext
  <2>1. CASE UNCHANGED vars
    BY <1>2, <2>1 DEF vars, sessionVars, keyVars
  <2>2. CASE SignInNext /\ ~KeyNext
    <3>1. UNCHANGED <<passkey, retired>>
      BY <2>2 DEF SignInNext, keyVars
    <3>2. PICK ops : Leaves(ops) /\ ops \in {SessionOps, MagicOps, CodeOps}
      BY <1>1, <2>2, SessionsLeave, MagicLeaves, CodesLeave DEF SignInNext
    <3>. QED BY <1>3, <3>1, <3>2 DEF SessionOps, MagicOps, CodeOps
  <2>. QED BY <1>4, <2>1, <2>2
<1>5. CASE KeyNext
  <2>1. ASSUME NEW r \in Requests, NEW s, NEW x,
               BeginVerify(r, x) \/ BeginEnrol(r, s, x) \/ BeginDelete(r, s, x)
        PROVE  RetiredInv'
    <3>1. PICK op, pc, by, on, account, seen :
            /\ Begin(r, op, pc, by, on, account, seen) /\ pc \in {"key", "challenge", "find"}
            /\ UNCHANGED <<passkey, retired, lost>>
      BY <2>1 DEF BeginVerify, BeginEnrol, BeginDelete, keyVars
    <3>2. Becomes(r, [op |-> op, pc |-> pc, by |-> by, on |-> on, account |-> account, seen |-> seen])
      BY <1>1, <3>1, BeginRun
    <3>3. run'[r].pc = pc /\ \A q \in Requests \ {r} : run'[q] = run[q]
      BY <3>2 DEF Becomes
    <3>. QED BY <1>2, <3>1, <3>3
  <2>2. ASSUME NEW r \in Requests,
               FindTicket(r) \/ FindDuplicate(r) \/ KeyTaken(r) \/ DropTicket(r) \/ OpenWithKey(r)
        PROVE  RetiredInv'
    <3>1. /\ UNCHANGED <<passkey, retired, lost>>
          /\ \/ \E op, from : Finish(r, op, from)
             \/ \E from, to : Advance(r, "enrol", from, to)
             \/ Advance(r, "verify", "ticket", "session") \/ Advance(r, "verify", "session", "done")
      BY <2>2 DEF FindTicket, FindDuplicate, KeyTaken, DropTicket, OpenWithKey, keyVars
    <3>2. \A q \in Requests \ {r} : run'[q] = run[q]
      BY <1>1, <3>1, AdvanceRun, FinishRun DEF Becomes
    <3>3. CASE \E op, from : Finish(r, op, from)
      BY <1>1, <1>2, <3>1, <3>2, <3>3, FinishRun DEF Becomes, NotStarted
    <3>4. CASE \/ \E from, to : Advance(r, "enrol", from, to)
               \/ Advance(r, "verify", "ticket", "session") \/ Advance(r, "verify", "session", "done")
      <4>1. /\ run'[r].op = run[r].op /\ run'[r].on = run[r].on
            /\ run[r].op = "enrol" \/ (run[r].op = "verify" /\ run[r].pc \in {"ticket", "session"})
        BY <1>1, <3>4, Advanced
      <4>2. r \notin lost
        BY <3>4 DEF Advance, At
      <4>. QED BY <1>2, <3>1, <3>2, <4>1, <4>2
    <3>. QED BY <3>1, <3>3, <3>4
  <2>3. ASSUME NEW r \in Requests, ReadKey(r) \/ FindKey(r)
        PROVE  RetiredInv'
    <3>1. UNCHANGED <<passkey, retired, lost>>
      BY <2>3 DEF ReadKey, FindKey, keyVars
    <3>2. PICK x :
            /\ Becomes(r, x)
            /\ ReadKey(r) /\ x # NotStarted =>
                  /\ x = Moved(run[r], "count", passkey[run[r].on.key].account,
                               passkey[run[r].on.key].row)
                  /\ Registered(run[r].on.key)
            /\ FindKey(r) /\ x # NotStarted =>
                  x = Moved(run[r], "delete", run[r].account, passkey[run[r].on].row)
      BY <1>1, <2>3, KeyRead
    <3>3. x.op # "verify" \/ Registered(x.on.key) \/ x.pc \notin {"count", "ticket", "session"}
      BY <2>3, <3>2 DEF Moved, NotStarted
    <3>. QED BY <3>1, <3>2, <3>3 DEF RetiredInv, Becomes, Registered
  <2>4. ASSUME NEW r \in Requests, InsertKey(r)
        PROVE  RetiredInv'
    <3>1. /\ Advance(r, "enrol", "insert", "ticket") /\ retired' = retired \ {run[r].on.key}
          /\ DOMAIN passkey' = DOMAIN passkey \cup {run[r].on.key} /\ UNCHANGED lost
      BY <2>4 DEF InsertKey
    <3>2. run'[r].op = "enrol" /\ \A q \in Requests \ {r} : run'[q] = run[q]
      BY <1>1, <3>1, Advanced
    <3>. QED BY <3>1, <3>2 DEF RetiredInv, Registered
  <2>5. ASSUME NEW r \in Requests, WriteCount(r)
        PROVE  RetiredInv'
    <3>1. /\ Advance(r, "verify", "count", "ticket") /\ UNCHANGED <<retired, lost>>
          /\ DOMAIN passkey' = DOMAIN passkey
      BY <2>5 DEF WriteCount
    <3>2. /\ r \notin lost /\ run[r].op = "verify" /\ run[r].pc = "count"
          /\ run'[r].on = run[r].on /\ \A q \in Requests \ {r} : run'[q] = run[q]
      BY <1>1, <3>1, Advanced
    <3>. QED BY <3>1, <3>2 DEF RetiredInv, Registered
  <2>6. ASSUME NEW r \in Requests, DeleteKey(r)
        PROVE  RetiredInv'
    <3>1. /\ Finish(r, "delete", "delete") /\ UNCHANGED lost
          /\ DOMAIN passkey' = DOMAIN passkey \cap WithoutKey(r)
          /\ \A k \in retired' \ retired : SignInsWith(k) = {} /\ k \notin WithoutKey(r)
      BY <2>6 DEF DeleteKey, Restrict, WithoutKey
    <3>2. run'[r].op = "none" /\ \A q \in Requests \ {r} : run'[q] = run[q]
      BY <1>1, <3>1, FinishRun DEF Becomes, NotStarted
    <3>3. ASSUME NEW k \in retired', NEW q \in Requests \ lost',
                 run'[q].op = "verify", run'[q].on.key = k
          PROVE  run'[q].pc \notin {"count", "ticket", "session"}
      <4>1. q # r /\ run'[q] = run[q] /\ q \notin lost
        BY <3>1, <3>2, <3>3
      <4>2. CASE k \in retired
        BY <3>3, <4>1, <4>2 DEF RetiredInv
      <4>3. CASE SignInsWith(k) = {}
        BY <3>3, <4>1, <4>3 DEF SignInsWith, Running, Working
      <4>. QED BY <3>1, <4>2, <4>3
    <3>4. \A k \in retired' : ~Registered(k)'
      BY <3>1 DEF RetiredInv, Registered
    <3>. QED BY <3>3, <3>4 DEF RetiredInv
  <2>7. ASSUME NEW t, NEW k, NEW s,
               Sign(k, t) \/ IssueRegister(t, s) \/ IssueAuthenticate(t) \/ TicketLapses(t)
        PROVE  RetiredInv'
    BY <1>2, <2>7 DEF Sign, IssueRegister, IssueAuthenticate, TicketLapses, sessionVars
  <2>8. ASSUME NEW r \in Requests, LoseRun(r), UNCHANGED keyVars
        PROVE  RetiredInv'
    BY <1>2, <2>8 DEF LoseRun, keyVars
  <2>. QED BY <1>5, <2>1, <2>2, <2>3, <2>4, <2>5, <2>6, <2>7, <2>8 DEF KeyNext, KeyStep
<1>. QED BY <1>4, <1>5

-----------------------------------------------------------------------------
(* The theorem.                                                             *)

ExitInv == OutInv /\ ClosedInv /\ RetiredInv

LEMMA ExitInit == SignInInit => ExitInv
<1>. SUFFICES ASSUME SignInInit PROVE ExitInv
  OBVIOUS
<1>. USE DEF SignInInit, Init, QrInit, KeysInit
<1>1. \A r \in Requests : run[r].pc = "idle" /\ run[r].op = "none" /\ run[r].by = Nothing
  BY DEF NotStarted
<1>2. OutInv
  BY <1>1 DEF OutInv, SessionIds
<1>3. ClosedInv
  BY <1>1 DEF ClosedInv, EndsOne, ForOne
<1>4. RetiredInv
  BY DEF RetiredInv
<1>. QED BY <1>2, <1>3, <1>4 DEF ExitInv

LEMMA ExitKept == Base /\ CodeInv /\ ExitInv /\ [SignInNext]_vars => ExitInv'
<1>. SUFFICES ASSUME Base, CodeInv, ExitInv, [SignInNext]_vars PROVE ExitInv'
  OBVIOUS
<1>1. Orderly /\ (Watch \/ UNCHANGED vars)
  BY StepOrderly DEF SignInNext
<1>. QED BY <1>1, OutKept, ClosedKept, RetiredKept DEF ExitInv

\* What a step of the system may do to an account that is closed, a session that is
\* out, a passkey that is retired.
LEMMA NoWayBack ==
  ASSUME Base, CodeInv, ExitInv, ExitInv', [SignInNext]_vars
  PROVE  /\ ClosedHasNoSession'
         /\ \A s \in out : ~Approves(s)
         /\ \A k \in retired : ~Opens(k)
<1>1. Orderly
  BY StepOrderly
<1>2. ClosedHasNoSession'
  BY DEF ExitInv, ClosedInv, Shut, ClosedHasNoSession
<1>3. ASSUME NEW s \in out, Approves(s)
      PROVE  FALSE
  <2>1. PICK c \in DOMAIN qr : qr'[c].approver = s /\ qr[c].approver # s
    BY <1>3 DEF Approves
  <2>2. Ended(s) /\ s # Nothing
    BY SessionsAssumption DEF ExitInv, OutInv, Ended, SessionIds
  <2>3. c \in DOMAIN qr'
    BY <1>1, <2>1 DEF Orderly, CodesHold
  <2>. QED BY <1>1, <2>1, <2>2, <2>3 DEF Orderly, CodesHold, Ended
<1>4. ASSUME NEW k \in retired, Opens(k)
      PROVE  FALSE
  <2>1. PICK r \in DOMAIN session' \ DOMAIN session : run[r].op = "verify" /\ run[r].on.key = k
    BY <1>4 DEF Opens
  <2>2. r \in Working /\ run[r].pc = "session"
    BY <1>1, <2>1 DEF Orderly, SessionsHold
  <2>3. run[r].pc \notin {"count", "ticket", "session"}
    BY <2>1, <2>2 DEF ExitInv, RetiredInv, Working
  <2>. QED BY <2>2, <2>3
<1>. QED BY <1>2, <1>3, <1>4

\* What was ended stays out: a closed account has no session that can be used or renewed, a
\* session that was signed out approves no device link, and a deleted passkey opens
\* nothing, whatever the other handlers do meanwhile.
THEOREM EndedStayOut == SignInSpec => EndedIsOut
<1>1. Base /\ CodeInv /\ ExitInv /\ [SignInNext]_vars => ExitInv'
  BY ExitKept
<1>2. Base /\ CodeInv /\ ExitInv /\ ExitInv' /\ [SignInNext]_vars =>
        [/\ ClosedHasNoSession'
         /\ \A s \in out : ~Approves(s)
         /\ \A k \in retired : ~Opens(k)]_vars
  BY NoWayBack
<1>. QED BY <1>1, <1>2, ExitInit, BaseSafe, CodesSafe, PTL DEF SignInSpec, EndedIsOut
=============================================================================
