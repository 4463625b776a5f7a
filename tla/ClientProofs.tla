---------------------------- MODULE ClientProofs ----------------------------
(***************************************************************************)
(* Theorems about the clients, for any number of calls, sessions, chats and *)
(* messages: the sessions of PhoneSession and WebSession, the outbox of     *)
(* ClientState, the bundle and the messages of WebWorkspace, and what the   *)
(* threads of PhoneThread and WebThread show of a chat.                     *)
(***************************************************************************)
EXTENDS PhoneSession, WebSession, ClientState, WebWorkspace, PhoneThread, WebThread,
        FiniteSetTheorems, SequenceTheorems, TLAPS

-----------------------------------------------------------------------------
(* The phone's session of PhoneSession.                                     *)

PhoneRuns ==
  {Free} \cup [op : {"in"}, pc : {"save", "show"}, with : SessionIds]
         \cup [op : {"out"}, pc : {"request", "refresh", "save", "show", "clear", "hide"}, with : SessionIds]
         \cup [op : {"call"}, pc : {"request", "refresh", "save", "show"}, with : SessionIds]

PhoneTypeOK ==
  /\ work \in [Runs -> PhoneRuns]
  /\ issued \subseteq SessionIds /\ ended \subseteq SessionIds
  /\ kept \in SessionIds \cup {Nobody}
  /\ shown \in SessionIds \cup {Nobody}
  /\ latest \in SessionIds \cup {Nobody}
  /\ overtaken \in BOOLEAN

\* Which session a call carries while nothing overtakes it: the one signed in to last,
\* except a sign-in that is not saved yet and a sign-out that has cleared the store.
Carries ==
  \A r \in Pending :
    /\ work[r].pc = "hide" => latest = Nobody
    /\ work[r].pc # "hide" /\ ~(work[r].op = "in" /\ work[r].pc = "save") => work[r].with = latest

\* Unless overtaken, the store has the session signed in to last, the app shows it when
\* no sign-in or sign-out is under way, and one that is has the phone for itself.
Orderly ==
  /\ kept = latest
  /\ Changing = {} => shown = latest
  /\ \A r \in Changing, q \in Pending : q = r
  /\ Carries

PhoneInv == PhoneTypeOK /\ (overtaken \/ Orderly)

LEMMA PhoneStart == WorkInit /\ SessionInit /\ PhoneInit => PhoneInv
  BY DEF WorkInit, SessionInit, PhoneInit, PhoneInv, PhoneTypeOK, PhoneRuns, Orderly, Carries, Changing, Pending, Free

LEMMA OneTurn ==
  ASSUME PhoneTypeOK, NEW r \in Runs, NEW w \in PhoneRuns, Turn(r, w)
  PROVE  /\ work' \in [Runs -> PhoneRuns] /\ work'[r] = w
         /\ \A q \in Runs : q # r => work'[q] = work[q]
  BY DEF PhoneTypeOK, Turn

\* A call that is at an await, and what it is there.
LEMMA AtWork ==
  ASSUME PhoneTypeOK, NEW r \in Runs, NEW pc \in {"request", "refresh", "save", "show", "clear", "hide"}, Doing(r, pc)
  PROVE  /\ r \in Pending /\ work[r].with \in SessionIds /\ work[r].op \in {"in", "out", "call"}
         /\ work[r].op = "in" => pc \in {"save", "show"}
         /\ pc \in {"clear", "hide"} => work[r].op = "out"
  BY DEF PhoneTypeOK, PhoneRuns, Doing, Pending, Free

\* It goes on to its next await.
LEMMA Onward ==
  ASSUME PhoneTypeOK, NEW r \in Runs,
         NEW pc \in {"request", "refresh", "save", "clear"}, Doing(r, pc),
         NEW to \in {"refresh", "save", "show", "hide"}, work[r].op = "in" => to # "refresh", to = "hide" => pc = "clear",
         Turn(r, [work[r] EXCEPT !.pc = to])
  PROVE  /\ work' \in [Runs -> PhoneRuns]
         /\ work'[r].op = work[r].op /\ work'[r].pc = to /\ work'[r].with = work[r].with
         /\ \A q \in Runs : q # r => work'[q] = work[q]
         /\ Pending' = Pending /\ Changing' = Changing
<1>1. /\ [work[r] EXCEPT !.pc = to] \in PhoneRuns
      /\ [work[r] EXCEPT !.pc = to].op = work[r].op /\ [work[r] EXCEPT !.pc = to].pc = to
      /\ [work[r] EXCEPT !.pc = to].with = work[r].with
  BY DEF PhoneTypeOK, PhoneRuns, Doing, Free
<1>2. /\ work' \in [Runs -> PhoneRuns] /\ work'[r] = [work[r] EXCEPT !.pc = to]
      /\ \A q \in Runs : q # r => work'[q] = work[q]
  BY <1>1, OneTurn
<1>3. r \in Pending
  BY AtWork
<1>4. work'[r].op = work[r].op /\ work'[r].pc = to /\ work'[r].with = work[r].with
  BY <1>1, <1>2
<1>5. work'[r] # Free
  BY <1>4 DEF Free
<1>6. Pending' = Pending
  BY <1>2, <1>3, <1>5 DEF Pending
<1>7. Changing' = Changing
  BY <1>2, <1>4, <1>6 DEF Changing, Pending
<1> QED
  BY <1>2, <1>4, <1>6, <1>7

LEMMA AfterAnswered ==
  ASSUME PhoneTypeOK, NEW r \in Runs,
         NEW pc \in {"request", "refresh", "save", "show"}, Doing(r, pc)
  PROVE  /\ AfterAnswer(r) \in PhoneRuns
         /\ work[r].op # "out" => AfterAnswer(r) = Free
         /\ work[r].op = "out" => /\ AfterAnswer(r).op = "out" /\ AfterAnswer(r).pc = "clear"
                                  /\ AfterAnswer(r).with = work[r].with
  BY DEF PhoneTypeOK, PhoneRuns, Doing, Free, AfterAnswer

LEMMA PhoneStep == PhoneInv /\ [PhoneNext]_phoneVars => PhoneInv'
<1> SUFFICES ASSUME PhoneInv, [PhoneNext]_phoneVars PROVE PhoneInv'
  OBVIOUS
<1> USE DEF PhoneInv
<1>1. CASE UNCHANGED phoneVars
  BY <1>1 DEF phoneVars, sessionVars, PhoneTypeOK, Orderly, Carries, Changing, Pending
<1>2. ASSUME NEW r \in Runs, NEW s \in SessionIds, PhoneSignIn(r, s) PROVE PhoneInv'
  <2>1. /\ Turn(r, [op |-> "in", pc |-> "save", with |-> s])
        /\ ~overtaken' => Pending = {} /\ Settled
        /\ overtaken' \in BOOLEAN
        /\ issued' \subseteq SessionIds /\ ended' = ended /\ kept' = kept /\ shown' = shown /\ latest' = latest
    BY <1>2 DEF PhoneSignIn, Begins, Changes, PhoneTypeOK
  <2>2. [op |-> "in", pc |-> "save", with |-> s] \in PhoneRuns
    BY DEF PhoneRuns
  <2>3. /\ work' \in [Runs -> PhoneRuns] /\ work'[r] = [op |-> "in", pc |-> "save", with |-> s]
        /\ \A q \in Runs : q # r => work'[q] = work[q]
    BY <2>1, <2>2, OneTurn
  <2>4. Pending = {} => Pending' = {r}
    BY <2>3 DEF Pending, Free
  <2>5. ~overtaken' => Orderly'
    BY <2>1, <2>3, <2>4 DEF Settled, Orderly, Carries, Changing, Changes
  <2> QED
    BY <2>1, <2>3, <2>5 DEF PhoneTypeOK
<1>3. ASSUME NEW r \in Runs, SignOut(r) PROVE PhoneInv'
  <2>1. /\ Turn(r, [op |-> "out", pc |-> "request", with |-> shown])
        /\ ~overtaken' => Pending = {} /\ Settled
        /\ overtaken' \in BOOLEAN /\ shown \in SessionIds
        /\ issued' = issued /\ ended' = ended /\ kept' = kept /\ shown' = shown /\ latest' = latest
    BY <1>3 DEF SignOut, Begins, Changes, PhoneTypeOK, sessionVars
  <2>2. [op |-> "out", pc |-> "request", with |-> shown] \in PhoneRuns
    BY <2>1 DEF PhoneRuns
  <2>3. /\ work' \in [Runs -> PhoneRuns] /\ work'[r] = [op |-> "out", pc |-> "request", with |-> shown]
        /\ \A q \in Runs : q # r => work'[q] = work[q]
    BY <2>1, <2>2, OneTurn
  <2>4. Pending = {} => Pending' = {r}
    BY <2>3 DEF Pending, Free
  <2>5. ~overtaken' => Orderly'
    BY <2>1, <2>3, <2>4 DEF Settled, Orderly, Carries, Changing, Changes
  <2> QED
    BY <2>1, <2>3, <2>5 DEF PhoneTypeOK
<1>4. ASSUME NEW r \in Runs, UseRelay(r) PROVE PhoneInv'
  <2>1. /\ Turn(r, [op |-> "call", pc |-> "request", with |-> shown]) /\ Doing(r, "free")
        /\ ~overtaken' => ~overtaken /\ Changing = {}
        /\ overtaken' \in BOOLEAN /\ shown \in SessionIds
        /\ issued' = issued /\ ended' = ended /\ kept' = kept /\ shown' = shown /\ latest' = latest
    BY <1>4 DEF UseRelay, Begins, Changes, PhoneTypeOK, sessionVars
  <2>2. [op |-> "call", pc |-> "request", with |-> shown] \in PhoneRuns
    BY <2>1 DEF PhoneRuns
  <2>3. /\ work' \in [Runs -> PhoneRuns] /\ work'[r] = [op |-> "call", pc |-> "request", with |-> shown]
        /\ \A q \in Runs : q # r => work'[q] = work[q]
    BY <2>1, <2>2, OneTurn
  <2>4. Pending' = Pending \cup {r} /\ Changing' = Changing \ {r}
    BY <2>3 DEF Pending, Free, Changing, Changes
  <2>5. ASSUME ~overtaken' PROVE Orderly'
    <3>1. Orderly /\ Changing = {} /\ shown = latest
      BY <2>1, <2>5 DEF Orderly
    <3>2. \A q \in Pending' : q # r => q \in Pending /\ work'[q] = work[q]
      BY <2>3, <2>4 DEF Pending
    <3>3. work'[r].with = latest /\ work'[r].op = "call" /\ work'[r].pc = "request"
      BY <2>3, <3>1
    <3>4. Carries'
      BY <2>1, <2>3, <3>1, <3>2, <3>3 DEF Orderly, Carries
    <3> QED
      BY <2>1, <2>4, <3>1, <3>4 DEF Orderly
  <2> QED
    BY <2>1, <2>3, <2>5 DEF PhoneTypeOK
<1>5. ASSUME NEW r \in Runs, NEW answer, AnswerCall(r, answer) PROVE PhoneInv'
  <2>1. /\ Doing(r, "request") /\ overtaken' = overtaken
        /\ issued' = issued /\ ended' = ended /\ kept' = kept /\ shown' = shown /\ latest' = latest
    BY <1>5 DEF AnswerCall, sessionVars
  <2>2. /\ r \in Pending /\ work[r].op \in {"out", "call"} /\ work[r].pc = "request"
    BY <2>1, AtWork DEF Doing
  <2>3. CASE answer = "old"
    <3>1. Turn(r, [work[r] EXCEPT !.pc = "refresh"])
      BY <1>5, <2>3 DEF AnswerCall
    <3>2. /\ work' \in [Runs -> PhoneRuns]
          /\ work'[r].op = work[r].op /\ work'[r].pc = "refresh" /\ work'[r].with = work[r].with
          /\ \A q \in Runs : q # r => work'[q] = work[q]
          /\ Pending' = Pending /\ Changing' = Changing
      BY <2>1, <2>2, <3>1, Onward
    <3>3. Orderly => Orderly'
      BY <2>1, <2>2, <3>2 DEF Orderly, Carries, Pending
    <3> QED
      BY <2>1, <3>2, <3>3 DEF PhoneTypeOK
  <2>4. CASE answer # "old"
    <3>1. Turn(r, AfterAnswer(r))
      BY <1>5, <2>4 DEF AnswerCall
    <3>2. /\ AfterAnswer(r) \in PhoneRuns
          /\ work[r].op # "out" => AfterAnswer(r) = Free
          /\ work[r].op = "out" => /\ AfterAnswer(r).op = "out" /\ AfterAnswer(r).pc = "clear"
                                   /\ AfterAnswer(r).with = work[r].with
      BY <2>1, AfterAnswered
    <3>3. /\ work' \in [Runs -> PhoneRuns] /\ work'[r] = AfterAnswer(r)
          /\ \A q \in Runs : q # r => work'[q] = work[q]
      BY <3>1, <3>2, OneTurn
    <3>4. /\ Pending' \subseteq Pending /\ Changing' = Changing
          /\ r \in Pending' => work[r].op = "out"
      BY <2>2, <3>2, <3>3 DEF Pending, Changing, Changes, Free
    <3>5. Orderly => Orderly'
      BY <2>1, <2>2, <3>2, <3>3, <3>4 DEF Orderly, Carries, Pending
    <3> QED
      BY <2>1, <3>3, <3>5 DEF PhoneTypeOK
  <2> QED
    BY <2>3, <2>4
<1>6. ASSUME NEW r \in Runs, NEW answer, AnswerRefresh(r, answer) PROVE PhoneInv'
  <2>1. /\ Doing(r, "refresh") /\ overtaken' = overtaken
        /\ issued' = issued /\ ended' = ended /\ kept' = kept /\ shown' = shown /\ latest' = latest
    BY <1>6 DEF AnswerRefresh, KeptAfter, sessionVars
  <2>2. /\ r \in Pending /\ work[r].op \in {"out", "call"} /\ work[r].pc = "refresh"
    BY <2>1, AtWork DEF Doing
  <2>3. CASE answer = "ok"
    <3>1. Turn(r, [work[r] EXCEPT !.pc = "save"])
      BY <1>6, <2>3 DEF AnswerRefresh
    <3>2. /\ work' \in [Runs -> PhoneRuns]
          /\ work'[r].op = work[r].op /\ work'[r].pc = "save" /\ work'[r].with = work[r].with
          /\ \A q \in Runs : q # r => work'[q] = work[q]
          /\ Pending' = Pending /\ Changing' = Changing
      BY <2>1, <2>2, <3>1, Onward
    <3>3. Orderly => Orderly'
      BY <2>1, <2>2, <3>2 DEF Orderly, Carries, Pending
    <3> QED
      BY <2>1, <3>2, <3>3 DEF PhoneTypeOK
  <2>4. CASE answer # "ok"
    <3>1. Turn(r, AfterAnswer(r))
      BY <1>6, <2>4 DEF AnswerRefresh
    <3>2. /\ AfterAnswer(r) \in PhoneRuns
          /\ work[r].op # "out" => AfterAnswer(r) = Free
          /\ work[r].op = "out" => /\ AfterAnswer(r).op = "out" /\ AfterAnswer(r).pc = "clear"
                                   /\ AfterAnswer(r).with = work[r].with
      BY <2>1, AfterAnswered
    <3>3. /\ work' \in [Runs -> PhoneRuns] /\ work'[r] = AfterAnswer(r)
          /\ \A q \in Runs : q # r => work'[q] = work[q]
      BY <3>1, <3>2, OneTurn
    <3>4. /\ Pending' \subseteq Pending /\ Changing' = Changing
          /\ r \in Pending' => work[r].op = "out"
      BY <2>2, <3>2, <3>3 DEF Pending, Changing, Changes, Free
    <3>5. Orderly => Orderly'
      BY <2>1, <2>2, <3>2, <3>3, <3>4 DEF Orderly, Carries, Pending
    <3> QED
      BY <2>1, <3>3, <3>5 DEF PhoneTypeOK
  <2> QED
    BY <2>3, <2>4
<1>7. ASSUME NEW r \in Runs, Save(r) PROVE PhoneInv'
  <2>1. /\ Doing(r, "save") /\ Turn(r, [work[r] EXCEPT !.pc = "show"]) /\ overtaken' = overtaken
        /\ issued' = issued /\ ended' = ended /\ shown' = shown /\ kept' = work[r].with
        /\ latest' = IF work[r].op = "in" THEN work[r].with ELSE latest
    BY <1>7 DEF Save, Step, sessionVars
  <2>2. /\ r \in Pending /\ work[r].with \in SessionIds /\ work[r].pc = "save" /\ work[r].op \in {"in", "out", "call"}
    BY <2>1, AtWork DEF Doing
  <2>3. /\ work' \in [Runs -> PhoneRuns]
        /\ work'[r].op = work[r].op /\ work'[r].pc = "show" /\ work'[r].with = work[r].with
        /\ \A q \in Runs : q # r => work'[q] = work[q]
        /\ Pending' = Pending /\ Changing' = Changing
    BY <2>1, Onward
  <2>4. ASSUME Orderly PROVE Orderly'
    <3>1. CASE work[r].op = "in"
      <4>1. Pending = {r} /\ r \in Changing
        BY <2>2, <2>4, <3>1 DEF Orderly, Changing, Changes
      <4>2. Pending' = {r} /\ r \in Changing' /\ Changing' \subseteq Pending'
        BY <2>3, <4>1 DEF Changing
      <4>3. kept' = latest' /\ work'[r].with = latest'
        BY <2>1, <2>3, <3>1
      <4> QED
        BY <2>3, <4>2, <4>3 DEF Orderly, Carries
    <3>2. CASE work[r].op # "in"
      <4>1. work[r].with = latest
        BY <2>2, <2>4, <3>2 DEF Orderly, Carries
      <4> QED
        BY <2>1, <2>3, <2>4, <3>2, <4>1 DEF Orderly, Carries, Pending
    <3> QED
      BY <3>1, <3>2
  <2>5. PhoneTypeOK'
    BY <2>1, <2>2, <2>3 DEF PhoneTypeOK
  <2> QED
    BY <2>1, <2>4, <2>5
<1>8. ASSUME NEW r \in Runs, Show(r) PROVE PhoneInv'
  <2>1. /\ Doing(r, "show") /\ Turn(r, AfterAnswer(r)) /\ overtaken' = overtaken
        /\ issued' = issued /\ ended' = ended /\ kept' = kept /\ latest' = latest /\ shown' = work[r].with
    BY <1>8 DEF Show, sessionVars
  <2>2. /\ r \in Pending /\ work[r].with \in SessionIds /\ work[r].pc = "show" /\ work[r].op \in {"in", "out", "call"}
    BY <2>1, AtWork DEF Doing
  <2>3. /\ AfterAnswer(r) \in PhoneRuns
        /\ work[r].op # "out" => AfterAnswer(r) = Free
        /\ work[r].op = "out" => /\ AfterAnswer(r).op = "out" /\ AfterAnswer(r).pc = "clear"
                                 /\ AfterAnswer(r).with = work[r].with
    BY <2>1, AfterAnswered
  <2>4. /\ work' \in [Runs -> PhoneRuns] /\ work'[r] = AfterAnswer(r)
        /\ \A q \in Runs : q # r => work'[q] = work[q]
    BY <2>1, <2>3, OneTurn
  <2>5. /\ Pending' \subseteq Pending /\ Changing' \subseteq Changing
        /\ r \in Pending' => work[r].op = "out"
    BY <2>2, <2>3, <2>4 DEF Pending, Changing, Changes, Free
  <2>6. ASSUME Orderly PROVE Orderly'
    <3>1. work[r].with = latest
      BY <2>2, <2>6 DEF Orderly, Carries
    <3> QED
      BY <2>1, <2>2, <2>3, <2>4, <2>5, <2>6, <3>1 DEF Orderly, Carries, Pending
  <2>7. PhoneTypeOK'
    BY <2>1, <2>2, <2>4 DEF PhoneTypeOK
  <2> QED
    BY <2>1, <2>6, <2>7
<1>9. ASSUME NEW r \in Runs, Clear(r) PROVE PhoneInv'
  <2>1. /\ Doing(r, "clear") /\ Turn(r, [work[r] EXCEPT !.pc = "hide"]) /\ overtaken' = overtaken
        /\ issued' = issued /\ ended' = ended /\ shown' = shown /\ kept' = Nobody /\ latest' = Nobody
    BY <1>9 DEF Clear, Step, sessionVars
  <2>2. /\ r \in Pending /\ work[r].op = "out" /\ work[r].pc = "clear"
    BY <2>1, AtWork DEF Doing
  <2>3. /\ work' \in [Runs -> PhoneRuns] /\ work'[r].pc = "hide"
        /\ \A q \in Runs : q # r => work'[q] = work[q]
        /\ Pending' = Pending /\ Changing' = Changing /\ r \in Changing
    BY <2>1, <2>2, Onward DEF Changing, Changes
  <2>4. Orderly => Orderly'
    BY <2>1, <2>2, <2>3 DEF Orderly, Carries
  <2>5. PhoneTypeOK'
    BY <2>1, <2>3 DEF PhoneTypeOK
  <2> QED
    BY <2>1, <2>4, <2>5
<1>10. ASSUME NEW r \in Runs, Hide(r) PROVE PhoneInv'
  <2>1. /\ Doing(r, "hide") /\ Turn(r, Free) /\ overtaken' = overtaken
        /\ issued' = issued /\ ended' = ended /\ kept' = kept /\ latest' = latest /\ shown' = Nobody
    BY <1>10 DEF Hide, Quit, sessionVars
  <2>2. /\ r \in Pending /\ work[r].op = "out" /\ work[r].pc = "hide"
    BY <2>1, AtWork DEF Doing
  <2>3. /\ work' \in [Runs -> PhoneRuns] /\ work'[r] = Free
        /\ \A q \in Runs : q # r => work'[q] = work[q]
    BY <2>1, OneTurn DEF PhoneRuns
  <2>4. Pending' = Pending \ {r} /\ Changing' = Changing \ {r} /\ r \in Changing
    BY <2>2, <2>3 DEF Pending, Changing, Changes, Free
  <2>5. Orderly => Orderly'
    BY <2>1, <2>2, <2>3, <2>4 DEF Orderly, Carries
  <2>6. PhoneTypeOK'
    BY <2>1, <2>3 DEF PhoneTypeOK
  <2> QED
    BY <2>1, <2>5, <2>6
<1>11. ASSUME NEW s \in SessionIds, EndElsewhere(s), UNCHANGED <<kept, shown, latest, overtaken>> PROVE PhoneInv'
  BY <1>11 DEF EndElsewhere, PhoneTypeOK, Orderly, Carries, Changing, Pending
<1>12. CASE Restart
  <2>1. /\ work' = [r \in Runs |-> Free] /\ overtaken' = overtaken
        /\ issued' = issued /\ ended' = ended /\ kept' = kept /\ latest' = latest /\ shown' = kept
    BY <1>12 DEF Restart, Lost, Pending, sessionVars
  <2>2. Pending' = {} /\ Changing' = {}
    BY <2>1 DEF Pending, Changing
  <2> QED
    BY <2>1, <2>2 DEF PhoneTypeOK, PhoneRuns, Orderly, Carries
<1> QED
  BY <1>1, <1>2, <1>3, <1>4, <1>5, <1>6, <1>7, <1>8, <1>9, <1>10, <1>11, <1>12 DEF PhoneNext

\* However calls refresh, fail and overlap, and whenever the app is killed: the phone
\* keeps and shows the session it signed in to last, unless a sign-in or sign-out was
\* beside another call.
THEOREM PhoneKeepsSession == PhoneSpec => []PhoneSignedIn
<1>1. PhoneInv => PhoneSignedIn
  BY DEF PhoneInv, Orderly, PhoneSignedIn, Settled
<1> QED
  BY PhoneStart, PhoneStep, <1>1, PTL DEF PhoneSpec

-----------------------------------------------------------------------------
(* The browser's session of WebSession.                                     *)

WebCalls == [op : {"load", "logout"}, pc : {"request", "answered", "wait"}, tab : Tabs, with : SessionIds,
             about : SessionIds, answer : {"none", "ok", "old", "failed"}, again : BOOLEAN]
WebRuns == {Free} \cup WebCalls

WebTypeOK ==
  /\ work \in [Runs -> WebRuns]
  /\ issued \subseteq SessionIds /\ ended \subseteq SessionIds
  /\ stored \in SessionIds \cup {Nobody} /\ last \in SessionIds \cup {Nobody}
  /\ renewal \in [Tabs -> [of : SessionIds \cup {Nobody}, answer : {"none", "ok", "no", "failed"}]]
  /\ \A t \in Renewing : renewal[t].of \in SessionIds
  /\ tangled \in BOOLEAN

\* Of the last sign-in, or signed out of.
Rightful(s) == IF last = Nobody THEN s \in ended \cup unrevoked ELSE s = last

\* A sign-out that was answered well has ended its session.
RevokedWhenOk ==
  \A r \in Pending : work[r].op = "logout" /\ work[r].pc = "answered" /\ work[r].answer = "ok" => work[r].about \in ended

\* Unless tangled, whatever may still be written is of the last sign-in.
AllRightful ==
  /\ stored # Nobody => Rightful(stored)
  /\ stored = Nobody /\ last # Nobody => last \in unloaded
  /\ \A r \in Pending : Rightful(work[r].with) /\ Rightful(work[r].about)
  /\ \A t \in Renewing : Rightful(renewal[t].of)

WebInv == WebTypeOK /\ RevokedWhenOk /\ (tangled \/ AllRightful)

LEMMA WebStart == WorkInit /\ SessionInit /\ WebInit => WebInv
<1> SUFFICES ASSUME WorkInit, SessionInit, WebInit PROVE WebInv
  OBVIOUS
<1>1. Pending = {} /\ Renewing = {}
  BY DEF WorkInit, WebInit, Pending, Renewing
<1>2. WebTypeOK
  BY <1>1 DEF WorkInit, SessionInit, WebInit, WebTypeOK, WebRuns, NoRenewal
<1> QED
  BY <1>1, <1>2 DEF WebInit, WebInv, RevokedWhenOk, AllRightful

LEMMA OneWebTurn ==
  ASSUME WebTypeOK, NEW r \in Runs, NEW w \in WebRuns, Turn(r, w)
  PROVE  /\ work' \in [Runs -> WebRuns] /\ work'[r] = w
         /\ \A q \in Runs : q # r => work'[q] = work[q]
  BY DEF WebTypeOK, Turn

LEMMA AtWebWork ==
  ASSUME WebTypeOK, NEW r \in Runs, NEW pc \in {"request", "answered", "wait"}, Doing(r, pc)
  PROVE  /\ r \in Pending /\ work[r].with \in SessionIds /\ work[r].about \in SessionIds /\ work[r].tab \in Tabs
         /\ work[r].op \in {"load", "logout"} /\ work[r].answer \in {"none", "ok", "old", "failed"}
         /\ work[r] \in WebCalls
<1>1. work[r] \in WebRuns /\ work[r] # Free
  BY DEF WebTypeOK, Doing, Free
<1>2. work[r] \in WebCalls
  BY <1>1 DEF WebRuns
<1> QED
  BY <1>1, <1>2 DEF Pending, WebCalls

\* A tab's renewal begins, with what is stored.
LEMMA RenewalBegins ==
  ASSUME WebTypeOK, NEW t \in Tabs, Renewal(t)
  PROVE  /\ renewal' \in [Tabs -> [of : SessionIds \cup {Nobody}, answer : {"none", "ok", "no", "failed"}]]
         /\ \A u \in Renewing' : \/ u \in Renewing /\ renewal'[u] = renewal[u]
                                 \/ stored # Nobody /\ renewal'[u].of = stored
  BY DEF WebTypeOK, Renewal, Renewing, NoRenewal

LEMMA WebStep == WebInv /\ [WebNext]_webVars => WebInv'
<1> SUFFICES ASSUME WebInv, [WebNext]_webVars PROVE WebInv'
  OBVIOUS
<1> USE DEF WebInv
<1>1. CASE UNCHANGED webVars
  BY <1>1 DEF webVars, sessionVars, history, WebTypeOK, RevokedWhenOk, AllRightful, Rightful, Pending, Renewing
<1>2. ASSUME NEW s \in SessionIds, WebSignIn(s) PROVE WebInv'
  <2>1. /\ stored' = s /\ last' = s /\ s # Nobody /\ tangled' = (Pending \cup Renewing # {})
        /\ work' = work /\ renewal' = renewal /\ ended' = ended /\ issued' \subseteq SessionIds
    BY <1>2, SessionIdsAssumption DEF WebSignIn, WebTypeOK
  <2>2. Pending' = Pending /\ Renewing' = Renewing
    BY <2>1 DEF Pending, Renewing
  <2>3. ~tangled' => AllRightful'
    BY <2>1, <2>2 DEF AllRightful, Rightful
  <2>4. WebTypeOK'
    BY <2>1, <2>2 DEF WebTypeOK
  <2> QED
    BY <2>1, <2>2, <2>3, <2>4 DEF RevokedWhenOk
<1>3. ASSUME NEW s \in SessionIds, EndElsewhere(s), UNCHANGED <<stored, renewal, history>> PROVE WebInv'
  BY <1>3 DEF EndElsewhere, history, WebTypeOK, RevokedWhenOk, AllRightful, Rightful, Pending, Renewing
<1>4. ASSUME NEW r \in Runs, NEW t \in Tabs, NEW op \in {"load", "logout"}, Request(r, t, op) PROVE WebInv'
  <2> DEFINE w == [op |-> op, pc |-> "request", tab |-> t, with |-> stored, about |-> stored,
                   answer |-> "none", again |-> FALSE]
  <2>1. /\ stored # Nobody /\ Turn(r, w)
        /\ UNCHANGED <<issued, ended, stored, renewal, last, tangled, unrevoked, unloaded>>
    BY <1>4 DEF Request, sessionVars, history
  <2>2. w \in WebRuns
    BY <2>1 DEF WebRuns, WebCalls, WebTypeOK
  <2>3. /\ work' \in [Runs -> WebRuns] /\ work'[r] = w
        /\ \A q \in Runs : q # r => work'[q] = work[q]
    BY <2>1, <2>2, OneWebTurn
  <2>4. \A q \in Pending' : q = r \/ (q \in Pending /\ work'[q] = work[q])
    BY <2>3 DEF Pending
  <2>5. Renewing' = Renewing /\ \A s : Rightful(s)' <=> Rightful(s)
    BY <2>1 DEF Renewing, Rightful
  <2>6. AllRightful => AllRightful'
    BY <2>1, <2>3, <2>4, <2>5 DEF AllRightful
  <2>7. RevokedWhenOk'
    BY <2>1, <2>3, <2>4 DEF RevokedWhenOk
  <2> QED
    BY <2>1, <2>3, <2>5, <2>6, <2>7 DEF WebTypeOK
<1>5. ASSUME NEW r \in Runs, NEW answer \in {"ok", "old", "failed"}, Answer(r, answer) PROVE WebInv'
  <2> DEFINE w == [work[r] EXCEPT !.pc = "answered", !.answer = answer]
  <2>1. /\ Doing(r, "request") /\ Turn(r, w)
        /\ ended \subseteq ended'
        /\ UNCHANGED <<issued, stored, renewal, last, tangled, unrevoked, unloaded>>
    BY <1>5 DEF Answer, history
  <2>2. /\ r \in Pending /\ work[r].with \in SessionIds /\ work[r].about \in SessionIds /\ work[r].tab \in Tabs
        /\ work[r].op \in {"load", "logout"} /\ work[r] \in WebCalls
    BY <2>1, AtWebWork
  <2>3. /\ w \in WebRuns /\ w.with = work[r].with /\ w.about = work[r].about /\ w.op = work[r].op
        /\ w.pc = "answered" /\ w.answer = answer
    BY <2>2 DEF WebRuns, WebCalls
  <2>4. /\ work' \in [Runs -> WebRuns] /\ work'[r] = w
        /\ \A q \in Runs : q # r => work'[q] = work[q]
    BY <2>1, <2>3, OneWebTurn
  <2>5. \A q \in Pending' : q \in Pending /\ (q # r => work'[q] = work[q])
    BY <2>2, <2>4 DEF Pending
  <2>6. Renewing' = Renewing /\ \A s : Rightful(s) => Rightful(s)'
    BY <2>1 DEF Renewing, Rightful
  <2>7. AllRightful => AllRightful'
    BY <2>1, <2>2, <2>3, <2>4, <2>5, <2>6 DEF AllRightful
  <2>8. work[r].op = "logout" /\ answer = "ok" => work[r].about \in ended'
    BY <1>5 DEF Answer, Signed
  <2>9. RevokedWhenOk'
    BY <2>1, <2>3, <2>4, <2>5, <2>8 DEF RevokedWhenOk
  <2>10. ended' \subseteq SessionIds
    BY <1>5, <2>2 DEF Answer, WebTypeOK
  <2> QED
    BY <2>1, <2>4, <2>6, <2>7, <2>9, <2>10 DEF WebTypeOK
<1>6. ASSUME NEW r \in Runs, Return(r) PROVE WebInv'
  <2> DEFINE ok == work[r].answer = "ok"
             out == work[r].op = "logout"
             loses == work[r].op = "load" /\ ~ok
  <2>1. /\ Doing(r, "answered") /\ Turn(r, Free)
        /\ stored' = IF out \/ loses THEN Nobody ELSE stored
        /\ last' = IF out THEN Nobody ELSE last
        /\ unrevoked' = unrevoked \cup {s \in {work[r].about} : out /\ ~ok}
        /\ unloaded' = unloaded \cup {s \in {work[r].about} : loses}
        /\ UNCHANGED <<issued, ended, renewal, tangled>>
    BY <1>6 DEF Return, AfterCall, Quit, sessionVars
  <2>2. r \in Pending /\ work[r].about \in SessionIds /\ work[r].pc = "answered"
    BY <2>1, AtWebWork DEF Doing
  <2>3. /\ work' \in [Runs -> WebRuns] /\ work'[r] = Free
        /\ \A q \in Runs : q # r => work'[q] = work[q]
    BY <2>1, OneWebTurn DEF WebRuns
  <2>4. \A q \in Pending' : q # r /\ q \in Pending /\ work'[q] = work[q]
    BY <2>3 DEF Pending
  <2>5. Renewing' = Renewing
    BY <2>1 DEF Renewing
  <2>6. ASSUME AllRightful PROVE AllRightful'
    <3>1. Rightful(work[r].about)
      BY <2>2, <2>6 DEF AllRightful
    <3>2. out => work[r].about \in ended' \cup unrevoked'
      BY <2>1, <2>2 DEF RevokedWhenOk
    <3>3. \A s : Rightful(s) => Rightful(s)'
      BY <2>1, <3>1, <3>2 DEF Rightful
    <3>4. stored' = Nobody /\ last' # Nobody => last' \in unloaded'
      BY <2>1, <2>6, <3>1 DEF AllRightful, Rightful
    <3>5. stored' # Nobody => stored' = stored
      BY <2>1
    <3> QED
      BY <2>1, <2>4, <2>5, <2>6, <3>3, <3>4, <3>5 DEF AllRightful
  <2>7. RevokedWhenOk'
    BY <2>1, <2>4 DEF RevokedWhenOk
  <2>8. WebTypeOK'
    BY <2>1, <2>3, <2>5 DEF WebTypeOK
  <2> QED
    BY <2>1, <2>6, <2>7, <2>8
<1>7. ASSUME NEW r \in Runs, Wait(r) PROVE WebInv'
  <2>1. PICK to \in {"wait", "answered"} :
          /\ Doing(r, "answered") /\ Turn(r, [work[r] EXCEPT !.answer = "failed", !.pc = to])
          /\ Renewal(work[r].tab)
          /\ UNCHANGED <<issued, ended, stored, last, tangled, unrevoked, unloaded>>
    <3>1. PICK to \in {"wait", "answered"} :
            to = IF work[r].tab \in Renewing \/ stored # Nobody THEN "wait" ELSE "answered"
      OBVIOUS
    <3> QED
      BY <1>7, <3>1 DEF Wait, sessionVars, history
  <2> DEFINE w == [work[r] EXCEPT !.answer = "failed", !.pc = to]
  <2>2. r \in Pending /\ work[r].tab \in Tabs /\ work[r] \in WebCalls
    BY <2>1, AtWebWork
  <2>3. w \in WebRuns /\ w.with = work[r].with /\ w.about = work[r].about /\ w.answer = "failed"
    BY <2>2 DEF WebRuns, WebCalls
  <2>4. /\ work' \in [Runs -> WebRuns] /\ work'[r] = w
        /\ \A q \in Runs : q # r => work'[q] = work[q]
    BY <2>1, <2>3, OneWebTurn
  <2>5. \A q \in Pending' : q \in Pending /\ (q # r => work'[q] = work[q])
    BY <2>2, <2>4 DEF Pending
  <2>6. /\ renewal' \in [Tabs -> [of : SessionIds \cup {Nobody}, answer : {"none", "ok", "no", "failed"}]]
        /\ \A u \in Renewing' : \/ u \in Renewing /\ renewal'[u] = renewal[u]
                                \/ stored # Nobody /\ renewal'[u].of = stored
    BY <2>1, <2>2, RenewalBegins
  <2>7. \A s : Rightful(s)' <=> Rightful(s)
    BY <2>1 DEF Rightful
  <2>8. AllRightful => AllRightful'
    BY <2>1, <2>2, <2>3, <2>4, <2>5, <2>6, <2>7 DEF AllRightful
  <2>9. RevokedWhenOk'
    BY <2>1, <2>3, <2>4, <2>5 DEF RevokedWhenOk
  <2> QED
    BY <2>1, <2>4, <2>6, <2>8, <2>9 DEF WebTypeOK
<1>8. ASSUME NEW t \in Tabs, RenewEarly(t) PROVE WebInv'
  <2>1. Renewal(t) /\ UNCHANGED <<work, issued, ended, stored, last, tangled, unrevoked, unloaded>>
    BY <1>8 DEF RenewEarly, sessionVars, history
  <2>2. /\ renewal' \in [Tabs -> [of : SessionIds \cup {Nobody}, answer : {"none", "ok", "no", "failed"}]]
        /\ \A u \in Renewing' : \/ u \in Renewing /\ renewal'[u] = renewal[u]
                                \/ stored # Nobody /\ renewal'[u].of = stored
    BY <2>1, RenewalBegins
  <2>3. Pending' = Pending /\ \A s : Rightful(s)' <=> Rightful(s)
    BY <2>1 DEF Pending, Rightful
  <2>4. AllRightful => AllRightful'
    BY <2>1, <2>2, <2>3 DEF AllRightful
  <2> QED
    BY <2>1, <2>2, <2>3, <2>4 DEF WebTypeOK, RevokedWhenOk
<1>9. ASSUME NEW t \in Tabs, NEW answer \in {"ok", "no", "failed"}, AnswerRenewal(t, answer) PROVE WebInv'
  <2>1. /\ t \in Renewing /\ renewal' = [renewal EXCEPT ![t].answer = answer]
        /\ UNCHANGED <<work, issued, ended, stored, last, tangled, unrevoked, unloaded>>
    BY <1>9 DEF AnswerRenewal, sessionVars, history
  <2>2. /\ renewal' \in [Tabs -> [of : SessionIds \cup {Nobody}, answer : {"none", "ok", "no", "failed"}]]
        /\ \A u \in Tabs : renewal'[u].of = renewal[u].of /\ (u # t => renewal'[u] = renewal[u])
    BY <2>1 DEF WebTypeOK
  <2>3. Renewing' \subseteq Renewing
    BY <2>1, <2>2 DEF Renewing
  <2>4. Pending' = Pending /\ \A s : Rightful(s)' <=> Rightful(s)
    BY <2>1 DEF Pending, Rightful
  <2>5. \A u \in Renewing' : u \in Renewing /\ renewal'[u].of = renewal[u].of
    BY <2>2, <2>3 DEF Renewing
  <2>6. AllRightful => AllRightful'
    BY <2>1, <2>4, <2>5 DEF AllRightful
  <2> QED
    BY <2>1, <2>2, <2>4, <2>5, <2>6 DEF WebTypeOK, RevokedWhenOk
<1>10. ASSUME NEW t \in Tabs, EndRenewal(t) PROVE WebInv'
  <2> DEFINE ok == renewal[t].answer = "ok"
  <2>1. /\ t \in Renewing /\ renewal' = [renewal EXCEPT ![t] = NoRenewal]
        /\ stored' = IF ok THEN renewal[t].of ELSE stored
        /\ work' = [r \in Runs |->
             IF ~(Doing(r, "wait") /\ work[r].tab = t) THEN work[r]
             ELSE IF ok THEN [work[r] EXCEPT !.pc = "request", !.with = stored', !.again = TRUE]
             ELSE [work[r] EXCEPT !.pc = "answered", !.answer = "failed"]]
        /\ UNCHANGED <<issued, ended, last, tangled, unrevoked, unloaded>>
    BY <1>10 DEF EndRenewal, AfterRenewal, sessionVars, history
  <2>2. renewal[t].of \in SessionIds /\ renewal[t].of # Nobody
    BY <2>1, SessionIdsAssumption DEF WebTypeOK
  <2>3. /\ renewal' \in [Tabs -> [of : SessionIds \cup {Nobody}, answer : {"none", "ok", "no", "failed"}]]
        /\ \A u \in Renewing' : u \in Renewing /\ renewal'[u] = renewal[u]
    BY <2>1 DEF WebTypeOK, Renewing, NoRenewal
  <2>4. \A r \in Runs :
          \/ work'[r] = work[r]
          \/ /\ r \in Pending /\ work'[r] \in WebRuns /\ work'[r].about = work[r].about
             /\ work'[r].pc = "request" /\ work'[r].with = renewal[t].of
          \/ /\ r \in Pending /\ work'[r] \in WebRuns /\ work'[r].about = work[r].about
             /\ work'[r].answer = "failed" /\ work'[r].with = work[r].with
    <3> SUFFICES ASSUME NEW r \in Runs, Doing(r, "wait"), work[r].tab = t
                 PROVE  \/ /\ r \in Pending /\ work'[r] \in WebRuns /\ work'[r].about = work[r].about
                           /\ work'[r].pc = "request" /\ work'[r].with = renewal[t].of
                        \/ /\ r \in Pending /\ work'[r] \in WebRuns /\ work'[r].about = work[r].about
                           /\ work'[r].answer = "failed" /\ work'[r].with = work[r].with
      BY <2>1
    <3>1. r \in Pending /\ work[r] \in WebCalls
      BY AtWebWork
    <3>2. CASE ok
      <4>1. work'[r] = [work[r] EXCEPT !.pc = "request", !.with = renewal[t].of, !.again = TRUE]
        BY <2>1, <3>2
      <4>2. /\ [work[r] EXCEPT !.pc = "request", !.with = renewal[t].of, !.again = TRUE] \in WebRuns
            /\ [work[r] EXCEPT !.pc = "request", !.with = renewal[t].of, !.again = TRUE].about = work[r].about
            /\ [work[r] EXCEPT !.pc = "request", !.with = renewal[t].of, !.again = TRUE].pc = "request"
            /\ [work[r] EXCEPT !.pc = "request", !.with = renewal[t].of, !.again = TRUE].with = renewal[t].of
        BY <2>2, <3>1 DEF WebRuns, WebCalls
      <4> QED
        BY <3>1, <4>1, <4>2
    <3>3. CASE ~ok
      <4>1. work'[r] = [work[r] EXCEPT !.pc = "answered", !.answer = "failed"]
        BY <2>1, <3>3
      <4>2. /\ [work[r] EXCEPT !.pc = "answered", !.answer = "failed"] \in WebRuns
            /\ [work[r] EXCEPT !.pc = "answered", !.answer = "failed"].about = work[r].about
            /\ [work[r] EXCEPT !.pc = "answered", !.answer = "failed"].answer = "failed"
            /\ [work[r] EXCEPT !.pc = "answered", !.answer = "failed"].with = work[r].with
        BY <3>1 DEF WebRuns, WebCalls
      <4> QED
        BY <3>1, <4>1, <4>2
    <3> QED
      BY <3>2, <3>3
  <2>5. work' \in [Runs -> WebRuns]
    <3>1. \A r \in Runs : work'[r] \in WebRuns
      BY <2>4 DEF WebTypeOK
    <3>2. work' = [r \in Runs |-> work'[r]]
      BY <2>1
    <3> QED
      BY <3>1, <3>2
  <2>6. \A r \in Pending' : r \in Pending
    BY <2>4 DEF Pending
  <2>7. \A s : Rightful(s)' <=> Rightful(s)
    BY <2>1 DEF Rightful
  <2>8. ASSUME AllRightful PROVE AllRightful'
    <3>1. Rightful(renewal[t].of)
      BY <2>1, <2>8 DEF AllRightful
    <3>2. \A r \in Pending' : Rightful(work'[r].with) /\ Rightful(work'[r].about)
      BY <2>4, <2>6, <2>8, <3>1 DEF AllRightful, Pending
    <3> QED
      BY <2>1, <2>2, <2>3, <2>7, <2>8, <3>1, <3>2 DEF AllRightful
  <2>9. RevokedWhenOk'
    <3> SUFFICES ASSUME NEW r \in Pending', work'[r].op = "logout", work'[r].pc = "answered", work'[r].answer = "ok"
                 PROVE  work'[r].about \in ended'
      BY DEF RevokedWhenOk
    <3>1. r \in Pending /\ r \in Runs
      BY <2>6 DEF Pending
    <3>2. work'[r] = work[r]
      BY <2>4, <3>1
    <3>3. ended' = ended
      BY <2>1
    <3>4. work[r].op = "logout" /\ work[r].pc = "answered" /\ work[r].answer = "ok"
      BY <3>2
    <3>5. work[r].about \in ended
      BY <3>1, <3>4 DEF RevokedWhenOk
    <3> QED
      BY <3>2, <3>3, <3>5
  <2>10. stored' \in SessionIds \cup {Nobody}
    BY <2>1, <2>2 DEF WebTypeOK
  <2> QED
    BY <2>1, <2>3, <2>5, <2>8, <2>9, <2>10 DEF WebTypeOK
<1>11. ASSUME NEW t \in Tabs, CloseTab(t) PROVE WebInv'
  <2>1. /\ work' = [r \in Runs |-> IF r \in Pending /\ work[r].tab = t THEN Free ELSE work[r]]
        /\ renewal' = [renewal EXCEPT ![t] = NoRenewal]
        /\ UNCHANGED <<issued, ended, stored, last, tangled, unrevoked, unloaded>>
    BY <1>11 DEF CloseTab, Lost, sessionVars, history, Pending
  <2>2. /\ renewal' \in [Tabs -> [of : SessionIds \cup {Nobody}, answer : {"none", "ok", "no", "failed"}]]
        /\ \A u \in Renewing' : u \in Renewing /\ renewal'[u] = renewal[u]
    BY <2>1 DEF WebTypeOK, Renewing, NoRenewal
  <2>3. work' \in [Runs -> WebRuns] /\ \A r \in Pending' : r \in Pending /\ work'[r] = work[r]
    BY <2>1 DEF WebTypeOK, WebRuns, Pending
  <2>4. \A s : Rightful(s)' <=> Rightful(s)
    BY <2>1 DEF Rightful
  <2>5. RevokedWhenOk'
    BY <2>1, <2>3 DEF RevokedWhenOk
  <2>6. AllRightful => AllRightful'
    BY <2>1, <2>2, <2>3, <2>4 DEF AllRightful
  <2>7. WebTypeOK'
    BY <2>1, <2>2, <2>3 DEF WebTypeOK
  <2> QED
    BY <2>1, <2>5, <2>6, <2>7
<1> QED
  BY <1>1, <1>2, <1>3, <1>4, <1>5, <1>6, <1>7, <1>8, <1>9, <1>10, <1>11 DEF WebNext

\* However sign-outs, loads and the refreshes of several tabs overlap: what the browser
\* holds is of the last sign-in, or of one the relay ended or never heard the end of.
THEOREM BrowserKeepsSession == WebSpec => []BrowserSignedIn
<1>1. WebInv => BrowserSignedIn
  BY DEF WebInv, AllRightful, Rightful, BrowserSignedIn
<1> QED
  BY WebStart, WebStep, <1>1, PTL DEF WebSpec

-----------------------------------------------------------------------------
(* The outbox of ClientState: StaleIsBehind holds for any number of          *)
(* conversations, envelopes and epochs.  It is not inductive without the     *)
(* shape of the two maps: an entry that is enqueued is compared with the     *)
(* epoch of its conversation, and a rotation marks what it leaves behind     *)
(* only because epochs are numbers and do not go back.                       *)

Entries == [conversation : Conversations, epoch : Nat, delivered : BOOLEAN, stale : BOOLEAN]

ClientTypeOK ==
  /\ DOMAIN conversations \subseteq Conversations
  /\ \A c \in DOMAIN conversations : conversations[c] \in Nat
  /\ conversations = [c \in DOMAIN conversations |-> conversations[c]]
  /\ outbox = [e \in DOMAIN outbox |-> outbox[e]]
  /\ \A e \in DOMAIN outbox : outbox[e] \in Entries

ClientInv == ClientTypeOK /\ StaleIsBehind

-----------------------------------------------------------------------------
LEMMA EpochsAreNumbers ==
  ASSUME ClientInv, NEW c \in Conversations
  PROVE  /\ DOMAIN WithConversation(c) = DOMAIN conversations \cup {c}
         /\ \A d \in DOMAIN WithConversation(c) : WithConversation(c)[d] \in Nat
         /\ \A d \in DOMAIN conversations : WithConversation(c)[d] = conversations[d]
         /\ WithConversation(c) = [d \in DOMAIN WithConversation(c) |-> WithConversation(c)[d]]
         /\ EpochOf(c) \in Nat
  BY DEF ClientInv, ClientTypeOK, WithConversation, EpochOf

LEMMA UpsertEffect ==
  ASSUME ClientInv, NEW c \in Conversations, UpsertConversation(c)
  PROVE  ClientInv'
  <1>1. ClientTypeOK'
    <2>1. conversations' = WithConversation(c) /\ outbox' = outbox
      BY DEF UpsertConversation
    <2>2. /\ DOMAIN conversations' = DOMAIN conversations \cup {c}
          /\ \A d \in DOMAIN conversations' : conversations'[d] \in Nat
          /\ conversations' = [d \in DOMAIN conversations' |-> conversations'[d]]
      BY <2>1, EpochsAreNumbers
    <2>3. DOMAIN conversations' \subseteq Conversations
      BY <2>2 DEF ClientInv, ClientTypeOK
    <2> QED BY <2>1, <2>2, <2>3 DEF ClientInv, ClientTypeOK
  <1>2. StaleIsBehind'
    BY EpochsAreNumbers DEF ClientInv, StaleIsBehind, UpsertConversation
  <1> QED BY <1>1, <1>2 DEF ClientInv

LEMMA EnqueueEffect ==
  ASSUME ClientInv, NEW e \in EnvelopeIds, NEW c \in Conversations, NEW n \in Nat,
         Enqueue(e, c, n)
  PROVE  ClientInv'
  <1> DEFINE entry == [conversation |-> c, epoch |-> n, delivered |-> FALSE, stale |-> Behind(c, n)]
  <1>1. /\ DOMAIN outbox' = DOMAIN outbox \cup {e}
        /\ outbox'[e] = entry
        /\ \A f \in DOMAIN outbox : f # e => outbox'[f] = outbox[f]
        /\ outbox' = [f \in DOMAIN outbox' |-> outbox'[f]]
    BY DEF Enqueue
  <1>2. conversations' = WithConversation(c)
    BY DEF Enqueue
  <1>3. entry \in Entries /\ (entry.stale <=> n < EpochOf(c))
    <2>1. Behind(c, n) \in BOOLEAN /\ (Behind(c, n) <=> n < EpochOf(c))
      BY DEF Behind
    <2> QED BY <2>1 DEF Entries
  <1> HIDE DEF entry
  <1>4. ClientTypeOK'
    <2>1. \A f \in DOMAIN outbox' : outbox'[f] \in Entries
      BY <1>1, <1>3 DEF ClientInv, ClientTypeOK
    <2>2. /\ DOMAIN conversations' = DOMAIN conversations \cup {c}
          /\ \A d \in DOMAIN conversations' : conversations'[d] \in Nat
          /\ conversations' = [d \in DOMAIN conversations' |-> conversations'[d]]
      BY <1>2, EpochsAreNumbers
    <2>3. DOMAIN conversations' \subseteq Conversations
      BY <2>2 DEF ClientInv, ClientTypeOK
    <2> QED BY <1>1, <2>1, <2>2, <2>3 DEF ClientTypeOK
  <1>5. entry.conversation = c /\ entry.epoch = n
    BY DEF entry
  <1>6. ASSUME NEW f \in DOMAIN outbox'
        PROVE  /\ outbox'[f].conversation \in DOMAIN conversations'
               /\ ~outbox'[f].delivered =>
                    (outbox'[f].stale <=> outbox'[f].epoch < conversations'[outbox'[f].conversation])
    <2>1. CASE f = e
      BY <1>1, <1>2, <1>3, <1>5, <2>1, EpochsAreNumbers DEF EpochOf
    <2>2. CASE f # e
      <3>1. f \in DOMAIN outbox /\ outbox'[f] = outbox[f]
        BY <1>1, <2>2
      <3>2. outbox[f].conversation \in DOMAIN conversations
        BY <3>1 DEF ClientInv, StaleIsBehind
      <3>3. conversations'[outbox[f].conversation] = conversations[outbox[f].conversation]
            /\ outbox[f].conversation \in DOMAIN conversations'
        BY <1>2, <3>2, EpochsAreNumbers
      <3> QED BY <3>1, <3>2, <3>3 DEF ClientInv, StaleIsBehind
    <2> QED BY <2>1, <2>2
  <1>7. StaleIsBehind'
    BY <1>6 DEF StaleIsBehind
  <1> QED BY <1>4, <1>7 DEF ClientInv

LEMMA DeliveredEffect ==
  ASSUME ClientInv, NEW e \in EnvelopeIds, MarkDelivered(e)
  PROVE  ClientInv'
  <1>1. /\ e \in DOMAIN outbox /\ DOMAIN outbox' = DOMAIN outbox
        /\ outbox'[e] = [outbox[e] EXCEPT !.delivered = TRUE]
        /\ \A f \in DOMAIN outbox : f # e => outbox'[f] = outbox[f]
        /\ outbox' = [f \in DOMAIN outbox' |-> outbox'[f]]
    BY DEF MarkDelivered, ClientInv, ClientTypeOK
  <1>2. conversations' = conversations
    BY DEF MarkDelivered
  <1>3. outbox[e] \in Entries
    BY <1>1 DEF ClientInv, ClientTypeOK
  <1>4. outbox'[e] \in Entries /\ outbox'[e].delivered
        /\ outbox'[e].conversation = outbox[e].conversation
    BY <1>1, <1>3 DEF Entries
  <1>5. ClientTypeOK'
    BY <1>1, <1>2, <1>4 DEF ClientInv, ClientTypeOK
  <1>6. StaleIsBehind'
    BY <1>1, <1>2, <1>4 DEF ClientInv, StaleIsBehind
  <1> QED BY <1>5, <1>6 DEF ClientInv

\* A rotation to a later epoch, and one that comes too late.
LEMMA RotateEffect ==
  ASSUME ClientInv, NEW c \in Conversations, NEW n \in Nat, RotateEpoch(c, n)
  PROVE  ClientInv'
  <1> DEFINE Left(e) == /\ n > EpochOf(c) /\ outbox[e].conversation = c
                        /\ outbox[e].epoch < n /\ ~outbox[e].delivered
  <1>1. /\ DOMAIN outbox' = DOMAIN outbox
        /\ outbox' = [e \in DOMAIN outbox' |-> outbox'[e]]
        /\ \A e \in DOMAIN outbox :
             outbox'[e] = IF Left(e) THEN [outbox[e] EXCEPT !.stale = TRUE] ELSE outbox[e]
    BY DEF RotateEpoch
  <1>2. /\ DOMAIN conversations' = DOMAIN conversations \cup {c}
        /\ \A d \in DOMAIN conversations' :
             conversations'[d] = IF d = c /\ n > EpochOf(c) THEN n ELSE WithConversation(c)[d]
        /\ conversations' = [d \in DOMAIN conversations' |-> conversations'[d]]
    <2>1. CASE n > EpochOf(c)
      BY <2>1, EpochsAreNumbers DEF RotateEpoch, ClientInv
    <2>2. CASE ~(n > EpochOf(c))
      BY <2>2, EpochsAreNumbers DEF RotateEpoch, ClientInv
    <2> QED BY <2>1, <2>2
  <1>3. \A e \in DOMAIN outbox : outbox[e] \in Entries
    BY DEF ClientInv, ClientTypeOK
  <1>4. ASSUME NEW e \in DOMAIN outbox
        PROVE  /\ outbox'[e] \in Entries
               /\ outbox'[e].conversation = outbox[e].conversation
               /\ outbox'[e].epoch = outbox[e].epoch
               /\ outbox'[e].delivered = outbox[e].delivered
               /\ (outbox'[e].stale <=> Left(e) \/ outbox[e].stale)
    <2>1. CASE Left(e)
      BY <1>1, <1>3, <2>1 DEF Entries
    <2>2. CASE ~Left(e)
      BY <1>1, <1>3, <2>2 DEF Entries
    <2> QED BY <2>1, <2>2
  <1>5. ClientTypeOK'
    BY <1>1, <1>2, <1>4, EpochsAreNumbers DEF ClientInv, ClientTypeOK
  <1>6. ASSUME NEW e \in DOMAIN outbox, ~outbox[e].delivered
        PROVE  outbox'[e].stale <=> outbox[e].epoch < conversations'[outbox[e].conversation]
    <2> DEFINE d == outbox[e].conversation
    <2>1. /\ d \in DOMAIN conversations /\ conversations[d] \in Nat /\ outbox[e].epoch \in Nat
          /\ outbox[e].stale <=> outbox[e].epoch < conversations[d]
          /\ WithConversation(c)[d] = conversations[d]
      BY <1>3, <1>6, EpochsAreNumbers DEF ClientInv, ClientTypeOK, StaleIsBehind, Entries
    <2>2. CASE d = c /\ n > EpochOf(c)
      <3>1. EpochOf(c) = conversations[d] /\ conversations'[d] = n
        BY <1>2, <2>1, <2>2 DEF EpochOf
      <3>2. Left(e) <=> outbox[e].epoch < n
        BY <1>6, <2>2
      <3>3. outbox[e].stale => outbox[e].epoch < n
        BY <2>1, <2>2, <3>1
      <3> QED BY <1>4, <3>1, <3>2, <3>3
    <2>3. CASE ~(d = c /\ n > EpochOf(c))
      <3>1. conversations'[d] = conversations[d] /\ ~Left(e)
        BY <1>2, <2>1, <2>3
      <3> QED BY <1>4, <2>1, <3>1
    <2> QED BY <2>2, <2>3
  <1>7. StaleIsBehind'
    BY <1>1, <1>2, <1>4, <1>6 DEF ClientInv, StaleIsBehind
  <1> QED BY <1>5, <1>7 DEF ClientInv

-----------------------------------------------------------------------------
LEMMA ClientInvInit == ClientInit => ClientInv
  BY DEF ClientInit, ClientInv, ClientTypeOK, StaleIsBehind

LEMMA ClientInvStep == ClientInv /\ [ClientNext]_clientVars => ClientInv'
  <1> SUFFICES ASSUME ClientInv, [ClientNext]_clientVars PROVE ClientInv'
    OBVIOUS
  <1>1. Epochs \subseteq Nat
    BY EpochAssumption DEF Epochs
  <1>2. ASSUME NEW c \in Conversations, UpsertConversation(c) PROVE ClientInv'
    BY <1>2, UpsertEffect
  <1>3. ASSUME NEW c \in Conversations, NEW n \in Epochs, RotateEpoch(c, n) PROVE ClientInv'
    BY <1>1, <1>3, RotateEffect
  <1>4. ASSUME NEW c \in Conversations, NEW n \in Epochs, NEW e \in EnvelopeIds, Enqueue(e, c, n)
        PROVE  ClientInv'
    BY <1>1, <1>4, EnqueueEffect
  <1>5. ASSUME NEW e \in EnvelopeIds, MarkDelivered(e) PROVE ClientInv'
    BY <1>5, DeliveredEffect
  <1>6. CASE UNCHANGED clientVars
    BY <1>6 DEF ClientInv, ClientTypeOK, StaleIsBehind, clientVars
  <1> QED BY <1>2, <1>3, <1>4, <1>5, <1>6 DEF ClientNext

\* What the outbox still has to send is stale exactly when its epoch is behind that of
\* its conversation (ClientState::enqueue, rotate_epoch).
THEOREM StaleCorrect == ClientSpec => []StaleIsBehind
  <1>1. ClientInv => StaleIsBehind
    BY DEF ClientInv
  <1> QED BY <1>1, ClientInvInit, ClientInvStep, PTL DEF ClientSpec

-----------------------------------------------------------------------------
(* The bundle and the messages of WebWorkspace.                             *)

\* The fields of a call.
IsWhole(w) ==
  w = [op |-> w.op, pc |-> w.pc, tab |-> w.tab, bundle |-> w.bundle, state |-> w.state,
       batch |-> w.batch, at |-> w.at, list |-> w.list, opened |-> w.opened, text |-> w.text]
Fields(w, op, pc, tab, bundle, state, batch, at, list, opened, text) ==
  /\ IsWhole(w) /\ w.op = op /\ w.pc = pc /\ w.tab = tab /\ w.bundle = bundle /\ w.state = state
  /\ w.batch = batch /\ w.at = at /\ w.list = list /\ w.opened = opened /\ w.text = text

IsRecord(x) == x = [bundle |-> x.bundle, cursor |-> x.cursor, known |-> x.known]

Stage(w) ==
  CASE w.op = "show" -> w.pc = "loaded"
    [] w.op = "sync" -> w.pc \in {"register", "registered", "fetch"}
    [] w.op = "send" -> w.pc \in {"register", "registered", "send", "accepted", "loaded", "put"}
    [] w.op = "ingest" -> w.pc \in {"register", "registered", "open", "loaded", "put", "record", "ack"}
    [] OTHER -> FALSE

\* A call past its first statement.
IsCall(w) ==
  /\ IsWhole(w) /\ Stage(w) /\ IsRecord(w.state) /\ w.batch \in Seq(Envelopes) /\ w.at \in Nat \ {0}
  /\ w.op # "ingest" => w.opened = {} /\ w.batch = <<>> /\ w.at = 1
  /\ w.op = "send" => w.text \in Sends
  /\ w.opened # {} => w.pc \in {"open", "put", "record", "ack"}
  /\ w.op = "ingest" /\ w.pc = "loaded" => w.at <= Len(w.batch)

WorkspaceTypeOK ==
  /\ work = [r \in Runs |-> work[r]] /\ \A r \in Pending : IsCall(work[r])
  /\ IsRecord(record) /\ mailbox \in Seq(Envelopes)

\* Run r goes on as w, or is over.
Goes(r, w) ==
  /\ work' = [q \in Runs |-> work'[q]] /\ work'[r] = w
  /\ \A q \in Runs \ {r} : work'[q] = work[q]

LEMMA TurnGoes ==
  ASSUME WorkspaceTypeOK, NEW r \in Runs, NEW w, Turn(r, w)
  PROVE  Goes(r, w)
BY DEF WorkspaceTypeOK, Turn, Goes

\* A run that waits somewhere is a call.
LEMMA AtCall ==
  ASSUME WorkspaceTypeOK, NEW r \in Runs, work[r].pc # "free"
  PROVE  r \in Pending /\ IsCall(work[r])
BY DEF WorkspaceTypeOK, Pending, Free

LEMMA FreeRun ==
  ASSUME WorkspaceTypeOK, NEW r \in Runs, Doing(r, "free")
  PROVE  r \notin Pending
BY DEF WorkspaceTypeOK, Pending, IsCall, Stage, Doing

LEMMA GoesType ==
  ASSUME WorkspaceTypeOK, NEW r \in Runs, NEW w, Goes(r, w), w = Free \/ IsCall(w),
         IsRecord(record'), mailbox' \in Seq(Envelopes)
  PROVE  WorkspaceTypeOK'
BY DEF WorkspaceTypeOK, Pending, Goes

\* What becomes of a call.
LEMMA MovedCall ==
  ASSUME NEW w, IsWhole(w), NEW to, NEW x, x = [w EXCEPT !.pc = to]
  PROVE  Fields(x, w.op, to, w.tab, w.bundle, w.state, w.batch, w.at, w.list, w.opened, w.text)
BY DEF IsWhole, Fields

LEMMA NextCall ==
  ASSUME NEW w, IsWhole(w), NEW x, x = NextOne(w)
  PROVE  Fields(x, w.op, w.pc, w.tab, w.bundle, w.state, w.batch, w.at + 1, w.list, w.opened, w.text)
BY DEF IsWhole, Fields, NextOne

LEMMA ReadCall ==
  ASSUME NEW w, IsWhole(w), NEW x, x = Reads(w)
  PROVE  Fields(x, w.op, "loaded", w.tab, w.bundle, w.state, w.batch, w.at, table, w.opened, w.text)
BY DEF IsWhole, Fields, Reads

LEMMA OpenedCall ==
  ASSUME NEW w, IsWhole(w), NEW list, NEW x, x = WithOpened(w, list)
  PROVE  Fields(x, w.op, "open", w.tab, w.bundle, w.state, w.batch, w.at + 1,
                Upserted(list, w.batch[w.at]), w.opened \cup {w.batch[w.at]}, w.text)
BY DEF IsWhole, Fields, WithOpened, NextOne

LEMMA ListedCall ==
  ASSUME NEW w, IsWhole(w), NEW list, NEW x, x = [w EXCEPT !.pc = "put", !.list = list]
  PROVE  Fields(x, w.op, "put", w.tab, w.bundle, w.state, w.batch, w.at, list, w.opened, w.text)
BY DEF IsWhole, Fields

After(op) == CASE op = "sync" -> "fetch" [] op = "send" -> "send" [] OTHER -> "open"

LEMMA ReadyCall ==
  ASSUME NEW w, IsWhole(w), NEW rec, NEW x, x = Ready(w, rec)
  PROVE  Fields(x, w.op, After(w.op), w.tab, rec.bundle, rec, w.batch, w.at, w.list, w.opened, w.text)
BY DEF IsWhole, Fields, Ready, After

LEMMA RegisterCall ==
  ASSUME NEW w, IsWhole(w), NEW k, NEW rec, NEW x, x = [w EXCEPT !.pc = "register", !.bundle = k, !.state = rec]
  PROVE  Fields(x, w.op, "register", w.tab, k, rec, w.batch, w.at, w.list, w.opened, w.text)
BY DEF IsWhole, Fields

LEMMA FreshCall ==
  ASSUME NEW op, NEW t, NEW x, x = Call(op, t)
  PROVE  Fields(x, op, "start", t, Nobody, NoRecord, <<>>, 1, {}, {}, Nobody)
BY DEF IsWhole, Fields, Call

LEMMA EventCall ==
  ASSUME NEW w, IsWhole(w), NEW e, NEW x, x = [w EXCEPT !.batch = <<e>>]
  PROVE  Fields(x, w.op, w.pc, w.tab, w.bundle, w.state, <<e>>, w.at, w.list, w.opened, w.text)
BY DEF IsWhole, Fields

LEMMA TextCall ==
  ASSUME NEW w, IsWhole(w), NEW s, NEW x, x = [w EXCEPT !.text = s]
  PROVE  Fields(x, w.op, w.pc, w.tab, w.bundle, w.state, w.batch, w.at, w.list, w.opened, s)
BY DEF IsWhole, Fields

LEMMA PageCall ==
  ASSUME NEW w, IsWhole(w), NEW batch, NEW x, x = [w EXCEPT !.op = "ingest", !.batch = batch]
  PROVE  Fields(x, "ingest", w.pc, w.tab, w.bundle, w.state, batch, w.at, w.list, w.opened, w.text)
BY DEF IsWhole, Fields

\* Calls that go by a record with a bundle.
Bundled == {r \in Pending : work[r].pc \notin {"register", "registered"} /\ work[r].op # "show"}

\* Unless two registrations overlapped: at most one is under way, and then nothing else
\* has a record to go by.
OneBundle ==
  /\ \A r, q \in Registering : q = r
  /\ Registering # {} => record.bundle = Nobody
  /\ record.bundle # Nobody => published = record.bundle
  /\ \A r \in Bundled : work[r].state.bundle = record.bundle /\ record.bundle # Nobody
  /\ \A r \in Registering : /\ work[r].bundle # Nobody
                            /\ work[r].pc = "registered" => published = work[r].bundle

\* The envelopes that no exception of AckedIsStored is about.
Plain == Envelopes \ (passed \cup unsaved \cup crowded)

\* Who takes in an envelope that is not crowded is alone, and has the only cache.
Alone ==
  \A r \in Pending :
    Pending # {r} \/ DOMAIN cache \ {work[r].tab} # {} => ToSet(work[r].batch) \subseteq crowded

HoldsList(w) == w.pc \in {"loaded", "put"} \/ w.opened # {}

\* What call w knows of envelope e.
Knows(w, e) ==
  /\ e \in w.state.known => e \in table
  /\ HoldsList(w) /\ e \in table => e \in w.list
  /\ HoldsList(w) /\ e \in w.list => e \in table \/ e \in w.opened
  /\ e \in w.opened => /\ e \in ToSet(w.batch) /\ e \in w.list
                       /\ w.pc \in {"open", "put"} \/ e \in table
  /\ w.pc = "put" /\ w.tab \in DOMAIN cache /\ e \in w.opened => e \in cache[w.tab]

\* The i-th envelope of its batch is in the table, or on its way there.
Handled(w, i) ==
  w.batch[i] \in Plain =>
    \/ w.batch[i] \in table
    \/ w.pc \in {"open", "put"} /\ w.batch[i] \in w.opened
    \/ w.pc \in {"register", "registered", "open", "loaded"} /\ w.at <= i

CallFine(w) ==
  /\ \A e \in Plain : Knows(w, e)
  /\ \A i \in DOMAIN w.batch : Handled(w, i)

\* The cache of a tab has what the table has, and what a run of the tab is writing.
CacheFine(t) ==
  \A e \in Plain :
    /\ e \in table => e \in cache[t]
    /\ e \in cache[t] =>
         \/ e \in table
         \/ \E r \in Pending : work[r].pc = "put" /\ work[r].tab = t /\ e \in work[r].opened

Stored ==
  /\ Plain \cap acked \subseteq table /\ Plain \cap record.known \subseteq table
  /\ \A r \in Pending : CallFine(work[r])
  /\ \A t \in DOMAIN cache : CacheFine(t)

WorkspaceInv == WorkspaceTypeOK /\ (crossed \/ OneBundle) /\ Alone /\ Stored

LEMMA WorkspaceStart == WorkInit /\ WorkspaceInit => WorkspaceInv
<1>. SUFFICES ASSUME WorkInit, WorkspaceInit PROVE WorkspaceInv
  OBVIOUS
<1>1. Pending = {} /\ Registering = {} /\ Bundled = {}
  BY DEF WorkInit, Pending, Registering, Bundled
<1>2. IsRecord(record) /\ record.bundle = Nobody /\ record.known = {}
  BY DEF WorkspaceInit, IsRecord, NoRecord
<1>3. DOMAIN cache = {}
  BY DEF WorkspaceInit
<1>4. WorkspaceTypeOK
  BY <1>1, <1>2 DEF WorkspaceInit, WorkspaceTypeOK, WorkInit
<1>5. Stored
  BY <1>1, <1>2, <1>3 DEF Stored, WorkspaceInit
<1>. QED BY <1>1, <1>2, <1>4, <1>5 DEF WorkspaceInv, OneBundle, Alone

LEMMA WatchSees ==
  ASSUME Watch
  PROVE  /\ Alone' /\ crowded \subseteq crowded'
         /\ ~crossed' => ~crossed /\ \A r, q \in Registering' : q = r
<1>1. Alone' /\ crowded \subseteq crowded'
  BY DEF Watch, Alone
<1>2. ASSUME ~crossed', NEW r \in Registering', NEW q \in Registering' PROVE q = r
  <2>1. IsFiniteSet(Registering')
    <3>1. Registering' \subseteq Runs
      BY DEF Registering, Pending
    <3>. QED BY <3>1, FS_Subset, WorkAssumption
  <2>2. Cardinality(Registering') <= 1 /\ Cardinality(Registering') \in Nat
    <3>1. ~(Cardinality(Registering') > 1)
      BY <1>2 DEF Watch
    <3>2. Cardinality(Registering') \in Nat
      BY <2>1, FS_CardinalityType
    <3>. QED BY <3>1, <3>2
  <2>3. SUFFICES ASSUME q # r PROVE FALSE
    OBVIOUS
  <2>4. Cardinality({q, r}) = 2
    <3>1. {q, r} = {r} \cup {q} /\ IsFiniteSet({r}) /\ Cardinality({r}) = 1
      BY FS_Singleton
    <3>. QED BY <2>3, <3>1, FS_AddElement
  <2>5. Cardinality({q, r}) <= Cardinality(Registering')
    BY <1>2, <2>1, FS_Subset
  <2>. QED BY <2>2, <2>4, <2>5
<1>. QED BY <1>1, <1>2 DEF Watch

\* A run goes on with the record it has, while bundles stay.
LEMMA BundleStays ==
  ASSUME WorkspaceInv, Watch, NEW r \in Runs, NEW x, Goes(r, x),
         crossed \/ record'.bundle = record.bundle, published' = published,
         x # Free => /\ x.pc \notin {"register", "registered"}
                     /\ \/ x.op = "show" \/ crossed
                        \/ /\ x.state.bundle = record.bundle
                           /\ record.bundle # Nobody
  PROVE  crossed' \/ OneBundle'
<1>. SUFFICES ASSUME ~crossed' PROVE OneBundle'
  OBVIOUS
<1>1. ~crossed /\ OneBundle /\ \A p, q \in Registering' : p = q
  BY WatchSees DEF WorkspaceInv
<1>2. Registering' \subseteq Registering /\ \A q \in Registering' : work'[q] = work[q]
  BY DEF Registering, Pending, Goes
<1>3. \A q \in Bundled' : q = r \/ (q \in Bundled /\ work'[q] = work[q])
  BY DEF Bundled, Pending, Goes
<1>4. r \in Bundled' => x.state.bundle = record.bundle /\ record.bundle # Nobody
  BY <1>1 DEF Bundled, Pending, Goes
<1>5. work'[r] = x
  BY DEF Goes
<1>. QED BY <1>1, <1>2, <1>3, <1>4, <1>5 DEF OneBundle

\* A step of run r, which becomes x, while table and caches stay.
LEMMA StoredStays ==
  ASSUME WorkspaceInv, Watch, NEW r \in Runs, NEW x, Goes(r, x), work[r].pc # "put",
         UNCHANGED <<table, cache>>, passed \subseteq passed', unsaved \subseteq unsaved',
         Plain' \cap acked' \subseteq table, Plain' \cap record'.known \subseteq table,
         x # Free => CallFine(x)'
  PROVE  Stored'
<1>1. Plain' \subseteq Plain
  BY WatchSees DEF Plain
<1>2. \A q \in Pending' : q # r => q \in Pending /\ work'[q] = work[q]
  BY DEF Pending, Goes
<1>3. ASSUME NEW q \in Pending' PROVE CallFine(work[q])'
  <2>1. CASE q = r
    BY <2>1 DEF Goes, Pending
  <2>2. CASE q # r
    <3>1. CallFine(work[q]) /\ work'[q] = work[q]
      BY <1>2, <1>3, <2>2 DEF WorkspaceInv, Stored
    <3>. QED BY <1>1, <3>1 DEF CallFine, Knows, Handled, HoldsList
  <2>. QED BY <2>1, <2>2
<1>4. ASSUME NEW t \in DOMAIN cache PROVE CacheFine(t)'
  <2>1. CacheFine(t)
    BY <1>4 DEF WorkspaceInv, Stored
  <2>2. \A q \in Pending : work[q].pc = "put" => q \in Pending' /\ work'[q] = work[q]
    BY DEF Pending, Goes
  <2>. QED BY <1>1, <2>1, <2>2 DEF CacheFine
<1>. QED BY <1>1, <1>3, <1>4 DEF Stored

\* Such a step, when the record is left alone, too.
LEMMA Rest ==
  ASSUME WorkspaceInv, Watch, UNCHANGED <<table, record, acked>>, passed \subseteq passed', unsaved \subseteq unsaved'
  PROVE  Plain' \cap acked' \subseteq table /\ Plain' \cap record'.known \subseteq table
BY WatchSees DEF WorkspaceInv, Stored, Plain

\* What remains fine of a call that keeps its list, and its place or what it has opened.
LEMMA StaysFine ==
  ASSUME WorkspaceInv, Watch, NEW r \in Pending, NEW x,
         UNCHANGED <<table, cache>>, passed \subseteq passed', unsaved \subseteq unsaved',
         x.state = work[r].state, x.list = work[r].list, x.opened = work[r].opened, x.batch = work[r].batch,
         x.tab = work[r].tab, work[r].pc # "loaded", work[r].pc # "put", x.pc \notin {"loaded", "put"},
         x.opened # {} => x.pc = "open" \/ \A e \in Plain : e \in x.opened => e \in table,
         \A i \in DOMAIN x.batch : Handled(x, i)'
  PROVE  CallFine(x)'
<1>1. Plain' \subseteq Plain /\ CallFine(work[r])
  BY WatchSees DEF Plain, WorkspaceInv, Stored
<1>2. ASSUME NEW e \in Plain' PROVE Knows(x, e)'
  <2>1. Knows(work[r], e)
    BY <1>1, <1>2 DEF CallFine
  <2>. QED BY <1>1, <1>2, <2>1 DEF Knows, HoldsList
<1>. QED BY <1>2 DEF CallFine

\* A call that is to begin: w before ensureRelayDeviceBundle.
ToBegin(w) ==
  /\ IsWhole(w) /\ w.op \in {"sync", "send", "ingest"} /\ w.batch \in Seq(Envelopes)
  /\ w.op # "ingest" => w.batch = <<>>
  /\ w.op = "send" => w.text \in Sends
  /\ w.at = 1 /\ w.opened = {}

LEMMA BatchIndex ==
  ASSUME NEW s \in Seq(Envelopes)
  PROVE  \A i \in DOMAIN s : i \in Nat /\ 1 <= i /\ s[i] \in ToSet(s)
BY DEF ToSet

\* What has not opened anything, nor read the table, is fine.
LEMMA FreshFine ==
  ASSUME WorkspaceInv, Watch, NEW x, IsCall(x), UNCHANGED <<table, record, acked>>,
         passed \subseteq passed', unsaved \subseteq unsaved',
         x.opened = {}, x.at = 1, x.state = record, x.pc \in {"register", "registered", "fetch", "send", "open"}
  PROVE  CallFine(x)'
<1>1. Plain' \cap record.known \subseteq table
  BY Rest
<1>2. \A e \in Plain' : Knows(x, e)'
  BY <1>1 DEF Knows, HoldsList
<1>3. \A i \in DOMAIN x.batch : i >= 1
  BY BatchIndex DEF IsCall
<1>4. x.batch = <<>> \/ x.pc \in {"register", "registered", "open"}
  BY DEF IsCall, Stage
<1>. QED BY <1>2, <1>3, <1>4 DEF CallFine, Handled

LEMMA StartKeeps ==
  ASSUME WorkspaceInv, Watch, NEW r \in Runs, NEW w, ToBegin(w), Start(r, w)
  PROVE  WorkspaceInv'
<1>1. WorkspaceTypeOK /\ r \notin Pending /\ UNCHANGED <<record, table, cache, published, mailbox, acked, passed, unsaved>>
  BY FreeRun DEF WorkspaceInv, Start, browser, relaySide, seen
<1>2. ASSUME NEW x, IsCall(x), x.opened = {}, x.at = 1, x.state = record,
             x.pc \in {"register", "fetch", "send", "open"}, Turn(r, x), crossed' \/ OneBundle'
      PROVE  WorkspaceInv'
  <2>1. Goes(r, x)
    BY <1>1, <1>2, TurnGoes
  <2>2. CallFine(x)'
    BY <1>1, <1>2, FreshFine
  <2>3. work[r].pc # "put"
    BY DEF Start, Doing
  <2>4. Stored'
    BY <1>1, <2>1, <2>2, <2>3, Rest, StoredStays
  <2>5. WorkspaceTypeOK'
    BY <1>1, <1>2, <2>1, GoesType DEF WorkspaceTypeOK
  <2>. QED BY <1>2, <2>4, <2>5, WatchSees DEF WorkspaceInv
<1>3. CASE record.bundle # Nobody
  <2>1. PICK x : x = Ready(w, record)
    OBVIOUS
  <2>2. /\ Fields(x, w.op, After(w.op), w.tab, record.bundle, record, w.batch, w.at, w.list, w.opened, w.text)
        /\ After(w.op) \in {"fetch", "send", "open"}
    BY <2>1, ReadyCall DEF ToBegin, After
  <2>3. IsCall(x)
    BY <1>1, <2>2 DEF ToBegin, Fields, After, IsCall, Stage, WorkspaceTypeOK
  <2>4. Turn(r, x)
    BY <1>3, <2>1 DEF Start
  <2>5. crossed' \/ OneBundle'
    BY <1>1, <1>3, <2>2, <2>4, TurnGoes, BundleStays DEF Fields
  <2>. QED BY <1>2, <2>2, <2>3, <2>4, <2>5 DEF Fields, ToBegin
<1>4. CASE record.bundle = Nobody
  <2>1. PICK k \in Bundles : Turn(r, [w EXCEPT !.pc = "register", !.bundle = k, !.state = record])
    BY <1>4 DEF Start
  <2>2. PICK x : x = [w EXCEPT !.pc = "register", !.bundle = k, !.state = record]
    OBVIOUS
  <2>3. Fields(x, w.op, "register", w.tab, k, record, w.batch, w.at, w.list, w.opened, w.text)
    BY <2>2, RegisterCall DEF ToBegin
  <2>4. IsCall(x)
    BY <1>1, <2>3 DEF ToBegin, Fields, IsCall, Stage, WorkspaceTypeOK
  <2>5. Goes(r, x)
    BY <1>1, <2>1, <2>2, TurnGoes
  <2>6. ASSUME ~crossed' PROVE OneBundle'
    <3>1. OneBundle /\ \A p, q \in Registering' : p = q
      BY <2>6, WatchSees DEF WorkspaceInv
    <3>2. r \in Registering' /\ work'[r].bundle # Nobody /\ work'[r].pc = "register"
      BY <2>3, <2>5, WorkspaceAssumption DEF Fields, Registering, Pending, Goes, Free
    <3>3. Bundled' = {}
      BY <1>4, <3>1, <3>2, <2>5 DEF OneBundle, Bundled, Pending, Goes
    <3>. QED BY <1>1, <1>4, <3>1, <3>2, <3>3 DEF OneBundle
  <2>. QED BY <1>2, <2>1, <2>2, <2>3, <2>4, <2>6 DEF Fields, ToBegin
<1>. QED BY <1>3, <1>4

LEMMA RegisterKeeps ==
  ASSUME WorkspaceInv, Watch, NEW r \in Runs, Register(r)
  PROVE  WorkspaceInv'
<1>1. /\ WorkspaceTypeOK /\ work[r].pc = "register"
      /\ UNCHANGED <<record, table, cache, mailbox, live, acked, passed, unsaved>> /\ published' = work[r].bundle
  BY DEF WorkspaceInv, Register, browser, seen, Step, Doing
<1>2. r \in Pending /\ IsCall(work[r])
  BY <1>1, AtCall
<1>3. PICK x : x = [work[r] EXCEPT !.pc = "registered"]
  OBVIOUS
<1>4. Fields(x, work[r].op, "registered", work[r].tab, work[r].bundle, work[r].state,
             work[r].batch, work[r].at, work[r].list, work[r].opened, work[r].text)
  BY <1>2, <1>3, MovedCall DEF IsCall
<1>5. Goes(r, x)
  BY <1>1, <1>3, TurnGoes DEF Register, Step
<1>6. IsCall(x)
  BY <1>1, <1>2, <1>4 DEF Fields, IsCall, Stage
<1>7. \A i \in DOMAIN x.batch : Handled(x, i)'
  <2>1. \A i \in DOMAIN work[r].batch : Handled(work[r], i)
    BY <1>2 DEF WorkspaceInv, Stored, CallFine
  <2>2. Plain' \subseteq Plain
    BY <1>1, WatchSees DEF Plain
  <2>. QED BY <1>1, <1>4, <2>1, <2>2 DEF Handled, Fields
<1>8. CallFine(x)'
  BY <1>1, <1>2, <1>4, <1>6, <1>7, StaysFine DEF Fields, IsCall
<1>9. Stored'
  BY <1>1, <1>5, <1>8, Rest, StoredStays
<1>10. ASSUME ~crossed' PROVE OneBundle'
  <2>1. OneBundle /\ \A p, q \in Registering' : p = q
    BY <1>10, WatchSees DEF WorkspaceInv
  <2>2. r \in Registering /\ r \in Registering' /\ record.bundle = Nobody
    BY <1>1, <1>2, <1>4, <1>5, <2>1 DEF OneBundle, Fields, Registering, Pending, Goes, Free
  <2>3. work'[r].bundle = work[r].bundle /\ work[r].bundle # Nobody
    BY <1>4, <1>5, <2>1, <2>2 DEF OneBundle, Goes, Fields
  <2>4. Bundled' = {}
    BY <1>4, <1>5, <2>1, <2>2 DEF OneBundle, Bundled, Pending, Goes, Fields
  <2>. QED BY <1>1, <2>1, <2>2, <2>3, <2>4 DEF OneBundle
<1>11. WorkspaceTypeOK'
  BY <1>1, <1>5, <1>6, GoesType DEF WorkspaceTypeOK
<1>. QED BY <1>9, <1>10, <1>11, WatchSees DEF WorkspaceInv

\* A step of a run that leaves table, caches and bundles alone.
LEMMA RunKeeps ==
  ASSUME WorkspaceInv, Watch, NEW r \in Runs, NEW x, Goes(r, x), work[r].pc # "put",
         UNCHANGED <<table, cache, published>>, passed \subseteq passed', unsaved \subseteq unsaved',
         IsRecord(record'), crossed \/ record'.bundle = record.bundle,
         mailbox' \in Seq(Envelopes),
         Plain' \cap acked' \subseteq table, Plain' \cap record'.known \subseteq table,
         x # Free => /\ IsCall(x) /\ CallFine(x)' /\ x.pc \notin {"register", "registered"}
                     /\ \/ x.op = "show" \/ crossed
                        \/ /\ x.state.bundle = record.bundle
                           /\ record.bundle # Nobody
  PROVE  WorkspaceInv'
<1>1. WorkspaceTypeOK
  BY DEF WorkspaceInv
<1>2. Stored'
  BY StoredStays
<1>3. crossed' \/ OneBundle'
  BY BundleStays
<1>4. WorkspaceTypeOK'
  BY <1>1, GoesType
<1>. QED BY <1>2, <1>3, <1>4, WatchSees DEF WorkspaceInv

\* A call that ends early.
LEMMA EndKeeps ==
  ASSUME WorkspaceInv, Watch, NEW r \in Runs, Quit(r), work[r].pc # "put",
         UNCHANGED <<table, cache, published, record, mailbox, live, acked, passed, unsaved>>
  PROVE  WorkspaceInv'
<1>1. WorkspaceTypeOK
  BY DEF WorkspaceInv
<1>2. Goes(r, Free)
  BY <1>1, TurnGoes DEF Quit
<1>. QED BY <1>1, <1>2, Rest, RunKeeps DEF WorkspaceTypeOK

\* A run that goes by a record with a bundle.
LEMMA GoesBy ==
  ASSUME WorkspaceInv, NEW r \in Pending, work[r].pc \notin {"register", "registered"}, work[r].op # "show"
  PROVE  crossed \/ (work[r].state.bundle = record.bundle /\ record.bundle # Nobody)
BY DEF WorkspaceInv, OneBundle, Bundled

LEMMA FailRegisterKeeps ==
  ASSUME WorkspaceInv, Watch, NEW r \in Runs, FailRegister(r)
  PROVE  WorkspaceInv'
BY EndKeeps DEF FailRegister, HeldAfterFailure, relaySide, seen, Doing

LEMMA FailRequestKeeps ==
  ASSUME WorkspaceInv, Watch, NEW r \in Runs, FailRequest(r)
  PROVE  WorkspaceInv'
BY EndKeeps DEF FailRequest, relaySide, seen, browser

LEMMA SaveBundleKeeps ==
  ASSUME WorkspaceInv, Watch, NEW r \in Runs, SaveBundle(r)
  PROVE  WorkspaceInv'
<1>1. /\ WorkspaceTypeOK /\ work[r].pc = "registered"
      /\ UNCHANGED <<published, table, cache, mailbox, live, acked, passed, unsaved>>
      /\ record' = [work[r].state EXCEPT !.bundle = work[r].bundle]
  BY DEF WorkspaceInv, SaveBundle, relaySide, seen, Step, Doing
<1>2. r \in Pending /\ IsCall(work[r])
  BY <1>1, AtCall
<1>3. PICK x : x = Ready(work[r], record')
  OBVIOUS
<1>4. /\ Fields(x, work[r].op, After(work[r].op), work[r].tab, record'.bundle, record',
                work[r].batch, work[r].at, work[r].list, work[r].opened, work[r].text)
      /\ After(work[r].op) \in {"fetch", "send", "open"}
  BY <1>2, <1>3, ReadyCall DEF IsCall, After
<1>5. IsRecord(record') /\ record'.bundle = work[r].bundle /\ record'.known = work[r].state.known
  BY <1>1, <1>2 DEF IsCall, IsRecord
<1>6. Goes(r, x)
  BY <1>1, <1>3, TurnGoes DEF SaveBundle
<1>7. IsCall(x)
  BY <1>1, <1>2, <1>4, <1>5 DEF Fields, IsCall, Stage, After
<1>8. Plain' \subseteq Plain /\ CallFine(work[r])
  BY <1>1, <1>2, WatchSees DEF Plain, WorkspaceInv, Stored
<1>9. Plain' \cap record'.known \subseteq table /\ Plain' \cap acked' \subseteq table
  BY <1>1, <1>5, <1>8 DEF CallFine, Knows, Plain, WorkspaceInv, Stored
<1>10. CallFine(x)'
  <2>1. \A e \in Plain' : Knows(x, e)'
    BY <1>1, <1>2, <1>4, <1>8, <1>9 DEF Knows, HoldsList, Fields, IsCall
  <2>2. \A i \in DOMAIN x.batch : Handled(x, i)'
    BY <1>1, <1>2, <1>4, <1>8 DEF Fields, CallFine, Handled, After, IsCall, Stage
  <2>. QED BY <2>1, <2>2 DEF CallFine
<1>11. Stored'
  BY <1>1, <1>6, <1>9, <1>10, StoredStays
<1>12. ASSUME ~crossed' PROVE OneBundle'
  <2>1. OneBundle /\ \A p, q \in Registering' : p = q
    BY <1>12, WatchSees DEF WorkspaceInv
  <2>2. r \in Registering /\ record.bundle = Nobody
    BY <1>1, <1>2, <2>1 DEF OneBundle, Registering
  <2>3. published = record'.bundle /\ record'.bundle # Nobody
    BY <1>1, <1>5, <2>1, <2>2 DEF OneBundle
  <2>4. Registering' = {}
    BY <1>4, <1>6, <2>1, <2>2 DEF OneBundle, Registering, Pending, Goes, Fields
  <2>5. Bundled' \subseteq {r}
    BY <1>6, <2>1, <2>2 DEF OneBundle, Bundled, Pending, Goes
  <2>6. work'[r].state = record'
    BY <1>4, <1>6 DEF Goes, Fields
  <2>. QED BY <1>1, <2>1, <2>3, <2>4, <2>5, <2>6 DEF OneBundle
<1>13. WorkspaceTypeOK'
  BY <1>1, <1>5, <1>6, <1>7, GoesType DEF WorkspaceTypeOK
<1>. QED BY <1>11, <1>12, <1>13, WatchSees DEF WorkspaceInv

LEMMA PageType ==
  ASSUME WorkspaceTypeOK, NEW cursor
  PROVE  Page(cursor) \in Seq(Envelopes)
<1>1. CASE Contains(mailbox, cursor)
  <2>1. PICK k : k = CHOOSE i \in DOMAIN mailbox : mailbox[i] = cursor
    OBVIOUS
  <2>2. k \in 1..Len(mailbox) /\ mailbox \in Seq(Envelopes)
    BY <1>1, <2>1 DEF Contains, WorkspaceTypeOK
  <2>3. Page(cursor) = SubSeq(mailbox, 1 + k, Len(mailbox))
    BY <1>1, <2>1 DEF Page
  <2>4. \A i \in (1 + k)..Len(mailbox) : mailbox[i] \in Envelopes
    BY <2>2
  <2>5. 1 + k \in Int /\ Len(mailbox) \in Int
    BY <2>2
  <2>6. SubSeq(mailbox, 1 + k, Len(mailbox)) \in Seq(Envelopes)
    BY <2>4, <2>5, SubSeqProperties
  <2>. QED BY <2>3, <2>6
<1>. QED BY <1>1 DEF Page, WorkspaceTypeOK

LEMMA FetchKeeps ==
  ASSUME WorkspaceInv, Watch, NEW r \in Runs, Fetch(r)
  PROVE  WorkspaceInv'
<1>1. /\ WorkspaceTypeOK /\ work[r].pc = "fetch"
      /\ UNCHANGED <<record, published, table, cache, mailbox, live, acked, passed, unsaved>>
  BY DEF WorkspaceInv, Fetch, relaySide, browser, seen, Doing
<1>2. r \in Pending /\ IsCall(work[r]) /\ work[r].op = "sync"
  BY <1>1, AtCall DEF IsCall, Stage
<1>3. PICK page : page = Page(work[r].state.cursor)
  OBVIOUS
<1>4. page \in Seq(Envelopes)
  BY <1>1, <1>3, PageType
<1>5. CASE page = <<>>
  BY <1>1, <1>3, <1>5, EndKeeps DEF Fetch, Quit
<1>6. CASE page # <<>>
  <2>1. PICK w : w = [work[r] EXCEPT !.op = "ingest", !.batch = page]
    OBVIOUS
  <2>2. Fields(w, "ingest", work[r].pc, work[r].tab, work[r].bundle, work[r].state,
               page, work[r].at, work[r].list, work[r].opened, work[r].text)
    BY <1>2, <2>1, PageCall DEF IsCall
  <2>3. PICK x : x = Ready(w, record)
    OBVIOUS
  <2>4. Fields(x, "ingest", "open", work[r].tab, record.bundle, record, page, work[r].at, work[r].list, {}, work[r].text)
    BY <1>2, <2>2, <2>3, ReadyCall DEF Fields, After, IsCall
  <2>5. Goes(r, x)
    BY <1>1, <1>3, <1>6, <2>1, <2>3, TurnGoes DEF Fetch
  <2>6. IsCall(x)
    BY <1>1, <1>2, <1>4, <2>4 DEF Fields, IsCall, Stage, WorkspaceTypeOK
  <2>7. CallFine(x)'
    BY <1>1, <1>2, <2>4, <2>6, FreshFine DEF Fields, IsCall
  <2>8. crossed \/ record.bundle # Nobody
    BY <1>1, <1>2, GoesBy
  <2>. QED BY <1>1, <2>4, <2>5, <2>6, <2>7, <2>8, Rest, RunKeeps DEF WorkspaceTypeOK, Fields
<1>. QED BY <1>5, <1>6

LEMMA OpenCall ==
  ASSUME WorkspaceInv, NEW r \in Runs, Doing(r, "open")
  PROVE  /\ WorkspaceTypeOK /\ r \in Pending /\ IsCall(work[r]) /\ work[r].op = "ingest"
         /\ work[r].pc = "open" /\ CallFine(work[r])
         /\ crossed \/ (work[r].state.bundle = record.bundle /\ record.bundle # Nobody)
<1>1. WorkspaceTypeOK /\ work[r].pc = "open"
  BY DEF WorkspaceInv, Doing
<1>2. r \in Pending /\ IsCall(work[r])
  BY <1>1, AtCall
<1>3. work[r].op = "ingest"
  BY <1>1, <1>2 DEF IsCall, Stage
<1>. QED BY <1>1, <1>2, <1>3, GoesBy DEF WorkspaceInv, Stored

LEMMA SkipKeeps ==
  ASSUME WorkspaceInv, Watch, NEW r \in Runs, SkipKnown(r)
  PROVE  WorkspaceInv'
<1>1. /\ UNCHANGED <<record, published, table, cache, mailbox, live, acked, passed, unsaved>>
      /\ Doing(r, "open") /\ work[r].batch[work[r].at] \in work[r].state.known
  BY DEF SkipKnown, relaySide, browser, seen, Unknown, InLoop, Current
<1>2. PICK x : x = NextOne(work[r])
  OBVIOUS
<1>3. Fields(x, "ingest", "open", work[r].tab, work[r].bundle, work[r].state,
             work[r].batch, work[r].at + 1, work[r].list, work[r].opened, work[r].text)
  BY <1>1, <1>2, OpenCall, NextCall DEF IsCall
<1>4. Goes(r, x)
  BY <1>1, <1>2, OpenCall, TurnGoes DEF SkipKnown
<1>5. IsCall(x)
  BY <1>1, <1>3, OpenCall DEF Fields, IsCall, Stage
<1>6. Plain' \subseteq Plain
  BY <1>1, WatchSees DEF Plain
<1>7. ASSUME NEW i \in DOMAIN x.batch PROVE Handled(x, i)'
  <2>1. i \in Nat /\ work[r].at \in Nat /\ Handled(work[r], i)
    BY <1>1, <1>3, <1>7, OpenCall, BatchIndex DEF Fields, IsCall, CallFine
  <2>2. i = work[r].at /\ x.batch[i] \in Plain => x.batch[i] \in table
    BY <1>1, <1>3, OpenCall DEF Fields, CallFine, Knows
  <2>. QED BY <1>1, <1>3, <1>6, <2>1, <2>2, OpenCall DEF Handled, Fields
<1>8. CallFine(x)'
  BY <1>1, <1>3, <1>5, <1>7, OpenCall, StaysFine DEF Fields
<1>. QED BY <1>1, <1>3, <1>4, <1>5, <1>8, OpenCall, Rest, RunKeeps DEF Fields, WorkspaceTypeOK

LEMMA PassOverKeeps ==
  ASSUME WorkspaceInv, Watch, NEW r \in Runs, PassOver(r)
  PROVE  WorkspaceInv'
<1>1. /\ UNCHANGED <<record, published, table, cache, mailbox, live, acked, unsaved>>
      /\ Doing(r, "open") /\ passed' = passed \cup {work[r].batch[work[r].at]}
  BY DEF PassOver, relaySide, browser, Unknown, InLoop, Current
<1>2. PICK x : x = NextOne(work[r])
  OBVIOUS
<1>3. Fields(x, "ingest", "open", work[r].tab, work[r].bundle, work[r].state,
             work[r].batch, work[r].at + 1, work[r].list, work[r].opened, work[r].text)
  BY <1>1, <1>2, OpenCall, NextCall DEF IsCall
<1>4. Goes(r, x)
  BY <1>1, <1>2, OpenCall, TurnGoes DEF PassOver
<1>5. IsCall(x)
  BY <1>1, <1>3, OpenCall DEF Fields, IsCall, Stage
<1>6. Plain' \subseteq Plain /\ work[r].batch[work[r].at] \notin Plain'
  BY <1>1, WatchSees DEF Plain
<1>7. ASSUME NEW i \in DOMAIN x.batch PROVE Handled(x, i)'
  <2>1. i \in Nat /\ work[r].at \in Nat /\ Handled(work[r], i)
    BY <1>1, <1>3, <1>7, OpenCall, BatchIndex DEF Fields, IsCall, CallFine
  <2>. QED BY <1>1, <1>3, <1>6, <2>1, OpenCall DEF Handled, Fields
<1>8. CallFine(x)'
  BY <1>1, <1>3, <1>5, <1>7, OpenCall, StaysFine DEF Fields
<1>. QED BY <1>1, <1>3, <1>4, <1>5, <1>8, OpenCall, Rest, RunKeeps DEF Fields, WorkspaceTypeOK

\* What a cache has is in the table, when a run is at work that is not writing.
LEMMA CacheIsTable ==
  ASSUME WorkspaceInv, NEW t \in DOMAIN cache, NEW r \in Pending, work[r].pc # "put", NEW e \in Plain
  PROVE  e \in cache[t] <=> e \in table
<1>1. ASSUME NEW q \in Pending, work[q].pc = "put", e \in work[q].opened PROVE FALSE
  <2>1. e \in ToSet(work[q].batch)
    BY <1>1 DEF WorkspaceInv, Stored, CallFine, Knows
  <2>2. Pending # {q}
    BY <1>1
  <2>. QED BY <1>1, <2>1, <2>2 DEF WorkspaceInv, Alone, Plain
<1>. QED BY <1>1 DEF WorkspaceInv, Stored, CacheFine

\* A list that has what the table has, and one envelope more.
LEMMA UpsertedHas ==
  ASSUME NEW list, NEW x, NEW e \in Envelopes
  PROVE  e \in Upserted(list, x) <=> e = x \/ e \in list
BY WorkspaceAssumption DEF Upserted, Own

LEMMA WithOpenedFine ==
  ASSUME WorkspaceInv, Watch, NEW r \in Pending, work[r].pc \in {"open", "loaded"}, work[r].op = "ingest", NEW list,
         UNCHANGED <<table, acked, record, passed, unsaved>>,
         work[r].at <= Len(work[r].batch),
         \A e \in Plain : (e \in table => e \in list) /\ (e \in list => e \in table \/ e \in work[r].opened),
         \A e \in work[r].opened \cap Plain : e \in list,
         NEW x, x = WithOpened(work[r], list)
  PROVE  IsCall(x) /\ CallFine(x)'
<1>1. IsCall(work[r]) /\ CallFine(work[r]) /\ Plain' \subseteq Plain
  BY WatchSees DEF WorkspaceInv, Stored, WorkspaceTypeOK, Plain
<1>2. PICK y : y = work[r].batch[work[r].at]
  OBVIOUS
<1>3. Fields(x, "ingest", "open", work[r].tab, work[r].bundle, work[r].state,
             work[r].batch, work[r].at + 1, Upserted(list, y), work[r].opened \cup {y}, work[r].text)
  BY <1>1, <1>2, OpenedCall DEF IsCall
<1>4. IsCall(x)
  BY <1>1, <1>3 DEF Fields, IsCall, Stage
<1>5. ASSUME NEW e \in Plain' PROVE Knows(x, e)'
  <2>1. Knows(work[r], e) /\ e \in Plain /\ e \in Envelopes
    BY <1>1, <1>5 DEF CallFine, Plain
  <2>2. e \in Upserted(list, y) <=> e = y \/ e \in list
    BY <2>1, UpsertedHas
  <2>3. e \in ToSet(x.batch) \/ e \notin x.opened
    <3>1. e = y => e \in ToSet(work[r].batch)
      <4>1. work[r].at \in DOMAIN work[r].batch
        BY <1>1 DEF IsCall
      <4>. QED BY <1>2, <4>1 DEF ToSet
    <3>. QED BY <1>3, <2>1, <3>1 DEF Knows, Fields
  <2>. QED BY <1>3, <2>1, <2>2, <2>3 DEF Knows, Fields, HoldsList
<1>6. ASSUME NEW i \in DOMAIN x.batch PROVE Handled(x, i)'
  <2>1. i \in Nat /\ work[r].at \in Nat /\ Handled(work[r], i)
    BY <1>1, <1>3, <1>6, BatchIndex DEF Fields, IsCall, CallFine
  <2>. QED BY <1>1, <1>2, <1>3, <2>1 DEF Handled, Fields
<1>. QED BY <1>4, <1>5, <1>6 DEF CallFine

LEMMA OpenKeeps ==
  ASSUME WorkspaceInv, Watch, NEW r \in Runs, Open(r)
  PROVE  WorkspaceInv'
<1>1. /\ UNCHANGED <<record, published, table, cache, mailbox, live, acked, passed, unsaved>>
      /\ Doing(r, "open") /\ work[r].at <= Len(work[r].batch) /\ HasList(r)
  BY DEF Open, relaySide, browser, seen, Unknown, InLoop
<1>2. PICK x : x = WithOpened(work[r], List(r))
  OBVIOUS
<1>3. r \in Pending /\ IsCall(work[r]) /\ CallFine(work[r])
  BY <1>1, OpenCall
<1>4. ASSUME NEW e \in Plain
      PROVE  /\ e \in table => e \in List(r)
             /\ e \in List(r) => e \in table \/ e \in work[r].opened
             /\ e \in work[r].opened => e \in List(r)
  <2>1. Knows(work[r], e)
    BY <1>3 DEF CallFine
  <2>2. CASE work[r].opened # {}
    BY <2>1, <2>2 DEF Knows, HoldsList, List
  <2>3. CASE work[r].opened = {}
    BY <1>1, <1>3, <2>3, OpenCall, CacheIsTable DEF List, HasList
  <2>. QED BY <2>2, <2>3
<1>5. IsCall(x) /\ CallFine(x)'
  BY <1>1, <1>2, <1>3, <1>4, OpenCall, WithOpenedFine
<1>6. x.op = "ingest" /\ x.pc = "open" /\ x.state = work[r].state
  BY <1>1, <1>2, <1>3, OpenCall, OpenedCall DEF Fields, IsCall
<1>7. Goes(r, x)
  BY <1>1, <1>2, OpenCall, TurnGoes DEF Open
<1>. QED BY <1>1, <1>5, <1>6, <1>7, OpenCall, Rest, RunKeeps DEF WorkspaceTypeOK

LEMMA AcceptedKeeps ==
  ASSUME WorkspaceInv, Watch, NEW r \in Runs, Accepted(r)
  PROVE  WorkspaceInv'
<1>1. /\ UNCHANGED <<record, published, table, cache, mailbox, live, acked, passed, unsaved>>
      /\ work[r].pc = "send" /\ WorkspaceTypeOK
  BY DEF Accepted, relaySide, browser, seen, Step, Doing, WorkspaceInv
<1>2. r \in Pending /\ IsCall(work[r]) /\ work[r].op = "send" /\ work[r].batch = <<>> /\ work[r].opened = {}
  BY <1>1, AtCall DEF IsCall, Stage
<1>3. PICK x : x = [work[r] EXCEPT !.pc = "accepted"]
  OBVIOUS
<1>4. Fields(x, work[r].op, "accepted", work[r].tab, work[r].bundle, work[r].state,
             work[r].batch, work[r].at, work[r].list, work[r].opened, work[r].text)
  BY <1>2, <1>3, MovedCall DEF IsCall
<1>5. Goes(r, x)
  BY <1>1, <1>3, TurnGoes DEF Accepted, Step
<1>6. IsCall(x)
  BY <1>1, <1>2, <1>4 DEF Fields, IsCall, Stage
<1>7. CallFine(x)'
  <2>1. DOMAIN x.batch = {} /\ x.opened = {}
    BY <1>2, <1>4 DEF Fields
  <2>. QED BY <1>1, <1>2, <1>4, <2>1, StaysFine DEF Fields
<1>. QED BY <1>1, <1>2, <1>4, <1>5, <1>6, <1>7, GoesBy, Rest, RunKeeps DEF Fields, WorkspaceTypeOK

\* A run that has read the table.
LEMMA LoadedFine ==
  ASSUME WorkspaceInv, Watch, NEW x, UNCHANGED <<table, cache, record, acked, passed, unsaved>>,
         x.pc = "loaded", x.list = table, x.opened = {},
         \A e \in Plain : e \in x.state.known => e \in table,
         \A i \in DOMAIN x.batch : Handled(x, i)'
  PROVE  CallFine(x)'
<1>1. Plain' \subseteq Plain
  BY WatchSees DEF Plain
<1>2. \A e \in Plain' : Knows(x, e)'
  BY <1>1 DEF Knows, HoldsList
<1>. QED BY <1>2 DEF CallFine

LEMMA ReadTableKeeps ==
  ASSUME WorkspaceInv, Watch, NEW r \in Runs, ReadTable(r)
  PROVE  WorkspaceInv'
<1>1. /\ UNCHANGED <<record, published, table, cache, mailbox, live, acked, passed, unsaved>>
      /\ WorkspaceTypeOK
      /\ \/ work[r].pc = "open" /\ work[r].at <= Len(work[r].batch) /\ work[r].opened = {}
         \/ work[r].pc = "accepted"
  BY DEF ReadTable, relaySide, browser, seen, Unknown, InLoop, Doing, WorkspaceInv
<1>2. r \in Pending /\ IsCall(work[r]) /\ work[r].opened = {} /\ work[r].op \in {"ingest", "send"}
  BY <1>1, AtCall DEF IsCall, Stage
<1>3. PICK x : x = Reads(work[r])
  OBVIOUS
<1>4. Fields(x, work[r].op, "loaded", work[r].tab, work[r].bundle, work[r].state,
             work[r].batch, work[r].at, table, {}, work[r].text)
  BY <1>2, <1>3, ReadCall DEF IsCall
<1>5. Goes(r, x)
  BY <1>1, <1>3, TurnGoes DEF ReadTable
<1>6. IsCall(x)
  BY <1>1, <1>2, <1>4 DEF Fields, IsCall, Stage
<1>7. Plain' \subseteq Plain /\ CallFine(work[r])
  BY <1>1, <1>2, WatchSees DEF Plain, WorkspaceInv, Stored
<1>8. \A i \in DOMAIN x.batch : Handled(x, i)'
  BY <1>1, <1>2, <1>4, <1>7 DEF Fields, CallFine, Handled, IsCall, Stage
<1>9. CallFine(x)'
  BY <1>1, <1>4, <1>7, <1>8, LoadedFine DEF Fields, CallFine, Knows
<1>. QED BY <1>1, <1>2, <1>4, <1>5, <1>6, <1>9, GoesBy, Rest, RunKeeps DEF Fields, WorkspaceTypeOK

LEMMA ShowPageKeeps ==
  ASSUME WorkspaceInv, Watch, NEW r \in Runs, NEW t \in Tabs, ShowPage(r, t)
  PROVE  WorkspaceInv'
<1>1. /\ UNCHANGED <<record, published, table, cache, mailbox, live, acked, passed, unsaved>>
      /\ WorkspaceTypeOK /\ work[r].pc = "free"
  BY DEF ShowPage, relaySide, browser, seen, Doing, WorkspaceInv
<1>2. PICK w : w = Call("show", t)
  OBVIOUS
<1>3. Fields(w, "show", "start", t, Nobody, NoRecord, <<>>, 1, {}, {}, Nobody)
  BY <1>2, FreshCall
<1>4. PICK x : x = Reads(w)
  OBVIOUS
<1>5. Fields(x, "show", "loaded", t, Nobody, NoRecord, <<>>, 1, table, {}, Nobody)
  BY <1>3, <1>4, ReadCall DEF Fields
<1>6. Goes(r, x)
  BY <1>1, <1>2, <1>4, TurnGoes DEF ShowPage
<1>7. IsRecord(NoRecord) /\ NoRecord.known = {} /\ <<>> \in Seq(Envelopes)
  BY DEF IsRecord, NoRecord
<1>8. IsCall(x)
  BY <1>5, <1>7 DEF Fields, IsCall, Stage
<1>9. CallFine(x)'
  BY <1>1, <1>5, <1>7, LoadedFine DEF Fields
<1>. QED BY <1>1, <1>5, <1>6, <1>8, <1>9, Rest, RunKeeps DEF Fields, WorkspaceTypeOK

\* A run writes the cache of its tab.
LEMMA CacheKeeps ==
  ASSUME WorkspaceInv, Watch, NEW r \in Pending, NEW x, Goes(r, x), work[r].pc # "put",
         UNCHANGED <<table, record, published, mailbox, acked, passed, unsaved>>,
         NEW list, cache' = Cached(work[r].tab, list),
         \A e \in Plain : /\ e \in table => e \in list
                          /\ e \in list => \/ e \in table
                                           \/ /\ x # Free /\ x.pc = "put" /\ x.tab = work[r].tab
                                              /\ e \in x.opened,
         x # Free => /\ IsCall(x) /\ CallFine(x)' /\ x.pc \notin {"register", "registered"}
                     /\ \/ x.op = "show" \/ crossed
                        \/ /\ x.state.bundle = record.bundle
                           /\ record.bundle # Nobody
  PROVE  WorkspaceInv'
<1>1. WorkspaceTypeOK /\ Plain' \subseteq Plain /\ r \in Runs
  BY WatchSees DEF WorkspaceInv, Plain, Pending
<1>2. crossed' \/ OneBundle'
  BY <1>1, BundleStays
<1>3. WorkspaceTypeOK'
  BY <1>1, GoesType DEF WorkspaceTypeOK
<1>4. \A q \in Pending' : q # r => q \in Pending /\ work'[q] = work[q]
  BY DEF Pending, Goes
<1>5. ASSUME NEW q \in Pending, q # r, NEW e \in Plain, e \in work[q].opened PROVE FALSE
  <2>1. e \in ToSet(work[q].batch)
    BY <1>5 DEF WorkspaceInv, Stored, CallFine, Knows
  <2>2. Pending # {q}
    BY <1>5
  <2>. QED BY <1>5, <2>1, <2>2 DEF WorkspaceInv, Alone, Plain
<1>6. ASSUME NEW q \in Pending' PROVE CallFine(work[q])'
  <2>1. CASE q = r
    BY <2>1 DEF Goes, Pending
  <2>2. CASE q # r
    <3>1. q \in Pending /\ CallFine(work[q]) /\ work'[q] = work[q]
      BY <1>4, <1>6, <2>2 DEF WorkspaceInv, Stored
    <3>2. \A e \in Plain' : e \notin work[q].opened
      BY <1>1, <1>5, <2>2, <3>1
    <3>. QED BY <1>1, <3>1, <3>2 DEF CallFine, Knows, Handled, HoldsList
  <2>. QED BY <2>1, <2>2
<1>7. ASSUME NEW t \in DOMAIN cache' PROVE CacheFine(t)'
  <2>1. CASE t = work[r].tab
    <3>1. cache'[t] = list
      BY <1>7, <2>1 DEF Cached
    <3>2. x # Free => r \in Pending' /\ work'[r] = x
      BY <1>1 DEF Pending, Goes
    <3>. QED BY <1>1, <2>1, <3>1, <3>2 DEF CacheFine
  <2>2. CASE t # work[r].tab
    <3>1. t \in DOMAIN cache /\ cache'[t] = cache[t]
      BY <1>7, <2>2 DEF Cached
    <3>2. \A e \in Plain : e \in cache[t] <=> e \in table
      BY <3>1, CacheIsTable
    <3>. QED BY <1>1, <3>1, <3>2 DEF CacheFine
  <2>. QED BY <2>1, <2>2
<1>8. Stored'
  BY <1>6, <1>7, Rest DEF Stored
<1>. QED BY <1>2, <1>3, <1>8, WatchSees DEF WorkspaceInv

LEMMA FillKeeps ==
  ASSUME WorkspaceInv, Watch, NEW r \in Runs, FillCache(r)
  PROVE  WorkspaceInv'
<1>1. /\ UNCHANGED <<record, published, table, mailbox, acked, passed, unsaved>>
      /\ WorkspaceTypeOK /\ work[r].pc = "loaded" /\ cache' = Cached(work[r].tab, work[r].list)
  BY DEF FillCache, relaySide, seen, Doing, WorkspaceInv
<1>2. /\ r \in Pending /\ IsCall(work[r]) /\ work[r].opened = {} /\ work[r].op \in {"ingest", "send", "show"}
      /\ CallFine(work[r])
  BY <1>1, AtCall DEF IsCall, Stage, WorkspaceInv, Stored
<1>3. \A e \in Plain : e \in work[r].list <=> e \in table
  BY <1>1, <1>2 DEF CallFine, Knows, HoldsList
<1>4. CASE work[r].op = "show"
  <2>1. Goes(r, Free)
    BY <1>1, <1>4, TurnGoes DEF FillCache
  <2>. QED BY <1>1, <1>2, <1>3, <2>1, CacheKeeps
<1>5. CASE work[r].op = "send"
  <2>1. PICK x : x = [work[r] EXCEPT !.pc = "accepted"]
    OBVIOUS
  <2>2. Fields(x, work[r].op, "accepted", work[r].tab, work[r].bundle, work[r].state,
               work[r].batch, work[r].at, work[r].list, work[r].opened, work[r].text)
    BY <1>2, <2>1, MovedCall DEF IsCall
  <2>3. Goes(r, x)
    BY <1>1, <1>5, <2>1, TurnGoes DEF FillCache
  <2>4. IsCall(x)
    BY <1>1, <1>2, <1>5, <2>2 DEF Fields, IsCall, Stage
  <2>5. Plain' \subseteq Plain /\ x.batch = <<>> /\ DOMAIN x.batch = {}
    BY <1>1, <1>2, <1>5, <2>2, WatchSees DEF Plain, Fields, IsCall
  <2>6. CallFine(x)'
    BY <1>1, <1>2, <2>2, <2>5 DEF CallFine, Knows, HoldsList, Fields
  <2>7. crossed \/ (x.state.bundle = record.bundle /\ record.bundle # Nobody)
    BY <1>1, <1>2, <1>5, <2>2, GoesBy DEF Fields
  <2>. QED BY <1>1, <1>2, <1>3, <2>2, <2>3, <2>4, <2>6, <2>7, CacheKeeps DEF Fields
<1>6. CASE work[r].op = "ingest"
  <2>1. PICK x : x = WithOpened(work[r], work[r].list)
    OBVIOUS
  <2>2. IsCall(x) /\ CallFine(x)'
    <3>1. work[r].at <= Len(work[r].batch)
      BY <1>1, <1>2, <1>6 DEF IsCall
    <3>. QED BY <1>1, <1>2, <1>3, <1>6, <2>1, <3>1, WithOpenedFine
  <2>3. x.op = "ingest" /\ x.pc = "open" /\ x.state = work[r].state
    BY <1>2, <1>6, <2>1, OpenedCall DEF Fields, IsCall
  <2>4. Goes(r, x)
    BY <1>1, <1>6, <2>1, TurnGoes DEF FillCache
  <2>7. crossed \/ (x.state.bundle = record.bundle /\ record.bundle # Nobody)
    BY <1>1, <1>2, <1>6, <2>3, GoesBy
  <2>. QED BY <1>1, <1>2, <1>3, <2>2, <2>3, <2>4, <2>7, CacheKeeps
<1>. QED BY <1>2, <1>4, <1>5, <1>6

LEMMA PersistKeeps ==
  ASSUME WorkspaceInv, Watch, NEW r \in Runs, Persist(r)
  PROVE  WorkspaceInv'
<1>1. /\ UNCHANGED <<record, published, table, mailbox, acked, passed, unsaved>>
      /\ Doing(r, "open") /\ ~(work[r].at <= Len(work[r].batch))
  BY DEF Persist, relaySide, seen, InLoop
<1>2. /\ WorkspaceTypeOK /\ r \in Pending /\ IsCall(work[r]) /\ work[r].op = "ingest"
      /\ work[r].pc = "open" /\ CallFine(work[r]) /\ Plain' \subseteq Plain
      /\ crossed \/ (work[r].state.bundle = record.bundle /\ record.bundle # Nobody)
  BY <1>1, OpenCall, WatchSees DEF Plain
<1>3. \A i \in DOMAIN work[r].batch :
         work[r].batch[i] \in Plain => work[r].batch[i] \in table \cup work[r].opened
  BY <1>1, <1>2, BatchIndex DEF CallFine, Handled, IsCall
<1>4. CASE work[r].opened = {}
  <2>1. PICK x : x = [work[r] EXCEPT !.pc = "record"]
    OBVIOUS
  <2>2. Fields(x, work[r].op, "record", work[r].tab, work[r].bundle, work[r].state,
               work[r].batch, work[r].at, work[r].list, work[r].opened, work[r].text)
    BY <1>2, <2>1, MovedCall DEF IsCall
  <2>3. Goes(r, x) /\ cache' = cache
    BY <1>2, <1>4, <2>1, TurnGoes DEF Persist, Step
  <2>4. IsCall(x)
    BY <1>2, <2>2 DEF Fields, IsCall, Stage
  <2>5. \A i \in DOMAIN x.batch : Handled(x, i)'
    BY <1>1, <1>2, <1>3, <1>4, <2>2 DEF Fields, Handled
  <2>6. CallFine(x)'
    BY <1>1, <1>2, <1>4, <2>2, <2>3, <2>5, StaysFine DEF Fields
  <2>. QED BY <1>1, <1>2, <2>2, <2>3, <2>4, <2>6, Rest, RunKeeps DEF Fields, WorkspaceTypeOK
<1>5. CASE work[r].opened # {}
  <2>1. PICK x : x = [work[r] EXCEPT !.pc = "put"]
    OBVIOUS
  <2>2. Fields(x, work[r].op, "put", work[r].tab, work[r].bundle, work[r].state,
               work[r].batch, work[r].at, work[r].list, work[r].opened, work[r].text)
    BY <1>2, <2>1, MovedCall DEF IsCall
  <2>3. Goes(r, x) /\ cache' = Cached(work[r].tab, work[r].list)
    BY <1>2, <1>5, <2>1, TurnGoes DEF Persist, Step
  <2>4. IsCall(x)
    BY <1>2, <2>2 DEF Fields, IsCall, Stage
  <2>5. \A e \in Plain :
          /\ e \in table => e \in work[r].list
          /\ e \in work[r].list => e \in table \/ e \in work[r].opened
          /\ e \in work[r].opened => e \in work[r].list /\ e \in ToSet(work[r].batch)
          /\ e \in work[r].state.known => e \in table
    BY <1>2, <1>5 DEF CallFine, Knows, HoldsList
  <2>6. cache'[work[r].tab] = work[r].list
    BY <2>3 DEF Cached
  <2>7. CallFine(x)'
    <3>1. \A e \in Plain' : Knows(x, e)'
      BY <1>1, <1>2, <2>2, <2>5, <2>6 DEF Fields, Knows, HoldsList
    <3>2. \A i \in DOMAIN x.batch : Handled(x, i)'
      BY <1>1, <1>2, <1>3, <2>2 DEF Fields, Handled
    <3>. QED BY <3>1, <3>2 DEF CallFine
  <2>8. x # Free
    BY <2>2 DEF Fields, Free
  <2>9. crossed \/ (x.state.bundle = record.bundle /\ record.bundle # Nobody)
    BY <1>2, <2>2 DEF Fields
  <2>. QED BY <1>1, <1>2, <2>2, <2>3, <2>4, <2>5, <2>7, <2>8, <2>9, CacheKeeps DEF Fields
<1>. QED BY <1>4, <1>5

LEMMA KeepOwnKeeps ==
  ASSUME WorkspaceInv, Watch, NEW r \in Runs, KeepOwn(r)
  PROVE  WorkspaceInv'
<1>1. PICK list : list = Upserted(cache[work[r].tab], work[r].text)
  OBVIOUS
<1>2. /\ UNCHANGED <<record, published, table, mailbox, acked, passed, unsaved>>
      /\ WorkspaceTypeOK /\ work[r].pc = "accepted" /\ work[r].tab \in DOMAIN cache
      /\ cache' = Cached(work[r].tab, list)
      /\ Turn(r, [work[r] EXCEPT !.pc = "put", !.list = list])
  BY <1>1 DEF KeepOwn, relaySide, seen, Doing, WorkspaceInv
<1>3. /\ r \in Pending /\ IsCall(work[r]) /\ work[r].op = "send" /\ work[r].batch = <<>>
      /\ work[r].opened = {} /\ CallFine(work[r])
  BY <1>2, AtCall DEF IsCall, Stage, WorkspaceInv, Stored
<1>4. PICK x : x = [work[r] EXCEPT !.pc = "put", !.list = list]
  OBVIOUS
<1>5. Fields(x, work[r].op, "put", work[r].tab, work[r].bundle, work[r].state,
             work[r].batch, work[r].at, list, work[r].opened, work[r].text)
  BY <1>3, <1>4, ListedCall DEF IsCall
<1>6. Goes(r, x)
  BY <1>2, <1>4, TurnGoes
<1>7. IsCall(x)
  BY <1>2, <1>3, <1>5 DEF Fields, IsCall, Stage
<1>8. \A e \in Plain : e \in list <=> e \in table
  <2>1. work[r].text \notin Envelopes
    BY <1>3, WorkspaceAssumption DEF IsCall
  <2>. QED BY <1>1, <1>2, <1>3, <2>1, CacheIsTable, UpsertedHas DEF Plain
<1>9. x # Free /\ x.opened = {} /\ x.batch = <<>> /\ DOMAIN x.batch = {}
  BY <1>3, <1>5 DEF Fields, Free
<1>10. CallFine(x)'
  <2>1. Plain' \subseteq Plain
    BY <1>2, WatchSees DEF Plain
  <2>. QED BY <1>2, <1>3, <1>5, <1>8, <1>9, <2>1 DEF CallFine, Knows, HoldsList, Fields
<1>11. crossed \/ (x.state.bundle = record.bundle /\ record.bundle # Nobody)
  BY <1>2, <1>3, <1>5, GoesBy DEF Fields
<1>. QED BY <1>2, <1>3, <1>5, <1>6, <1>7, <1>8, <1>9, <1>10, <1>11, CacheKeeps DEF Fields

LEMMA PutKeeps ==
  ASSUME WorkspaceInv, Watch, NEW r \in Runs, Put(r)
  PROVE  WorkspaceInv'
<1>1. /\ UNCHANGED <<record, published, cache, mailbox, acked, passed, unsaved>>
      /\ WorkspaceTypeOK /\ work[r].pc = "put" /\ table' = work[r].list
      /\ Turn(r, AfterPut(r))
  BY DEF Put, relaySide, seen, Doing, WorkspaceInv
<1>2. /\ r \in Pending /\ IsCall(work[r]) /\ CallFine(work[r]) /\ Plain' \subseteq Plain
      /\ work[r].op \in {"send", "ingest"}
  BY <1>1, AtCall, WatchSees DEF WorkspaceInv, Stored, Plain, IsCall, Stage
<1>3. PICK x : x = AfterPut(r)
  OBVIOUS
<1>4. Goes(r, x)
  BY <1>1, <1>3, TurnGoes
<1>5. ASSUME x # Free
      PROVE  Fields(x, "ingest", "record", work[r].tab, work[r].bundle, work[r].state,
                    work[r].batch, work[r].at, work[r].list, work[r].opened, work[r].text)
  <2>1. x = [work[r] EXCEPT !.pc = "record"] /\ work[r].op = "ingest"
    BY <1>2, <1>3, <1>5 DEF AfterPut
  <2>2. Fields(x, work[r].op, "record", work[r].tab, work[r].bundle, work[r].state,
               work[r].batch, work[r].at, work[r].list, work[r].opened, work[r].text)
    BY <1>2, <2>1, MovedCall DEF IsCall
  <2>. QED BY <2>1, <2>2
<1>6. x # Free => IsCall(x)
  BY <1>2, <1>5 DEF Fields, IsCall, Stage
<1>7. \A e \in Plain :
        /\ e \in table => e \in table'
        /\ e \in table' => e \in table \/ e \in work[r].opened
        /\ e \in work[r].opened => e \in table' /\ e \in ToSet(work[r].batch)
        /\ e \in work[r].state.known => e \in table
        /\ e \in work[r].opened /\ work[r].tab \in DOMAIN cache => e \in cache[work[r].tab]
  BY <1>1, <1>2 DEF CallFine, Knows, HoldsList
<1>8. \A q \in Pending' : q # r => q \in Pending /\ work'[q] = work[q]
  BY <1>4 DEF Pending, Goes
<1>9. ASSUME NEW q \in Pending, q # r, NEW e \in Plain
      PROVE  (e \in table' <=> e \in table) /\ e \notin work[q].opened
  <2>1. Pending # {q} /\ Pending # {r}
    BY <1>2, <1>9
  <2>2. e \notin work[r].opened
    BY <1>2, <1>7, <2>1 DEF WorkspaceInv, Alone, Plain
  <2>3. e \in work[q].opened => e \in ToSet(work[q].batch)
    BY <1>9 DEF WorkspaceInv, Stored, CallFine, Knows
  <2>. QED BY <1>7, <2>1, <2>2, <2>3 DEF WorkspaceInv, Alone, Plain
<1>10. ASSUME NEW q \in Pending' PROVE CallFine(work[q])'
  <2>1. CASE q = r
    <3>1. x # Free /\ work'[r] = x
      BY <1>4, <1>10, <2>1 DEF Pending, Goes
    <3>2. \A e \in Plain' : Knows(x, e)'
      BY <1>1, <1>2, <1>5, <1>7, <3>1 DEF Knows, HoldsList, Fields
    <3>3. \A i \in DOMAIN x.batch : Handled(x, i)'
      BY <1>1, <1>2, <1>5, <1>7, <3>1 DEF CallFine, Handled, Fields
    <3>. QED BY <2>1, <3>1, <3>2, <3>3 DEF CallFine
  <2>2. CASE q # r
    <3>1. q \in Pending /\ CallFine(work[q]) /\ work'[q] = work[q]
      BY <1>8, <1>10, <2>2 DEF WorkspaceInv, Stored
    <3>2. \A e \in Plain' : (e \in table' <=> e \in table) /\ e \in Plain
      BY <1>2, <1>9, <2>2, <3>1
    <3>. QED BY <1>1, <1>2, <3>1, <3>2 DEF CallFine, Knows, Handled, HoldsList
  <2>. QED BY <2>1, <2>2
<1>11. ASSUME NEW t \in DOMAIN cache PROVE CacheFine(t)'
  <2>1. CacheFine(t)
    BY <1>11 DEF WorkspaceInv, Stored
  <2>2. ASSUME NEW e \in Plain', e \in table' PROVE e \in cache[t]
    <3>1. CASE e \in table
      BY <1>2, <2>1, <2>2, <3>1 DEF CacheFine
    <3>2. CASE e \notin table
      <4>1. e \in work[r].opened /\ e \in Plain /\ e \in ToSet(work[r].batch)
        BY <1>2, <1>7, <2>2, <3>2
      <4>2. t = work[r].tab
        BY <1>2, <1>11, <4>1 DEF WorkspaceInv, Alone, Plain
      <4>. QED BY <1>7, <1>11, <4>1, <4>2
    <3>. QED BY <3>1, <3>2
  <2>3. ASSUME NEW e \in Plain', e \in cache[t] PROVE e \in table'
    <3>1. e \in table \/ \E q \in Pending : e \in work[q].opened
      BY <1>2, <2>1, <2>3 DEF CacheFine
    <3>. QED BY <1>2, <1>7, <1>9, <2>3, <3>1
  <2>. QED BY <1>1, <2>2, <2>3 DEF CacheFine
<1>12. Stored'
  <2>1. Plain \cap acked \subseteq table /\ Plain \cap record.known \subseteq table
    BY DEF WorkspaceInv, Stored
  <2>2. Plain' \cap acked' \subseteq table' /\ Plain' \cap record'.known \subseteq table'
    BY <1>1, <1>2, <1>7, <2>1
  <2>. QED BY <1>1, <1>10, <1>11, <2>2 DEF Stored
<1>13. crossed' \/ OneBundle'
  <2>1. x # Free => crossed \/ (x.state.bundle = record.bundle /\ record.bundle # Nobody)
    BY <1>1, <1>2, <1>5, GoesBy DEF Fields
  <2>. QED BY <1>1, <1>4, <1>5, <2>1, BundleStays DEF Fields
<1>14. WorkspaceTypeOK'
  BY <1>1, <1>4, <1>6, GoesType DEF WorkspaceTypeOK
<1>. QED BY <1>12, <1>13, <1>14, WatchSees DEF WorkspaceInv

LEMMA FailPutKeeps ==
  ASSUME WorkspaceInv, Watch, NEW r \in Runs, FailPut(r)
  PROVE  WorkspaceInv'
<1>1. /\ UNCHANGED <<record, published, table, cache, mailbox, acked, passed>>
      /\ WorkspaceTypeOK /\ work[r].pc = "put" /\ unsaved' = unsaved \cup work[r].list
      /\ Turn(r, AfterPut(r))
  BY DEF FailPut, relaySide, browser, Doing, WorkspaceInv
<1>2. /\ r \in Pending /\ IsCall(work[r]) /\ CallFine(work[r])
      /\ Plain' \subseteq Plain /\ \A e \in Plain' : e \notin work[r].list
      /\ work[r].op \in {"send", "ingest"}
  BY <1>1, AtCall, WatchSees DEF WorkspaceInv, Stored, Plain, IsCall, Stage
<1>3. PICK x : x = AfterPut(r)
  OBVIOUS
<1>4. Goes(r, x)
  BY <1>1, <1>3, TurnGoes
<1>5. ASSUME x # Free
      PROVE  Fields(x, "ingest", "record", work[r].tab, work[r].bundle, work[r].state,
                    work[r].batch, work[r].at, work[r].list, work[r].opened, work[r].text)
  <2>1. x = [work[r] EXCEPT !.pc = "record"] /\ work[r].op = "ingest"
    BY <1>2, <1>3, <1>5 DEF AfterPut
  <2>2. Fields(x, work[r].op, "record", work[r].tab, work[r].bundle, work[r].state,
               work[r].batch, work[r].at, work[r].list, work[r].opened, work[r].text)
    BY <1>2, <2>1, MovedCall DEF IsCall
  <2>. QED BY <2>1, <2>2
<1>6. x # Free => IsCall(x)
  BY <1>2, <1>5 DEF Fields, IsCall, Stage
<1>7. \A e \in Plain' : e \notin work[r].opened /\ (e \in work[r].state.known => e \in table) /\ e \notin table
  BY <1>1, <1>2 DEF CallFine, Knows, HoldsList
<1>8. \A q \in Pending' : q # r => q \in Pending /\ work'[q] = work[q]
  BY <1>4 DEF Pending, Goes
<1>9. \A q \in Pending : q # r => q \in Pending' /\ work'[q] = work[q]
  BY <1>4 DEF Pending, Goes
<1>10. ASSUME NEW q \in Pending' PROVE CallFine(work[q])'
  <2>1. CASE q = r
    <3>1. x # Free /\ work'[r] = x
      BY <1>4, <1>10, <2>1 DEF Pending, Goes
    <3>2. \A e \in Plain' : Knows(x, e)'
      BY <1>1, <1>2, <1>5, <1>7, <3>1 DEF Knows, HoldsList, Fields
    <3>3. \A i \in DOMAIN x.batch : Handled(x, i)'
      BY <1>1, <1>2, <1>5, <1>7, <3>1 DEF CallFine, Handled, Fields
    <3>. QED BY <2>1, <3>1, <3>2, <3>3 DEF CallFine
  <2>2. CASE q # r
    <3>1. q \in Pending /\ CallFine(work[q]) /\ work'[q] = work[q]
      BY <1>8, <1>10, <2>2 DEF WorkspaceInv, Stored
    <3>. QED BY <1>1, <1>2, <3>1 DEF CallFine, Knows, Handled, HoldsList
  <2>. QED BY <2>1, <2>2
<1>11. ASSUME NEW t \in DOMAIN cache PROVE CacheFine(t)'
  <2>1. CacheFine(t)
    BY <1>11 DEF WorkspaceInv, Stored
  <2>. QED BY <1>1, <1>2, <1>7, <1>9, <2>1 DEF CacheFine
<1>12. Stored'
  <2>1. Plain' \cap acked' \subseteq table' /\ Plain' \cap record'.known \subseteq table'
    BY <1>1, <1>2 DEF WorkspaceInv, Stored
  <2>. QED BY <1>1, <1>10, <1>11, <2>1 DEF Stored
<1>13. crossed' \/ OneBundle'
  <2>1. x # Free => crossed \/ (x.state.bundle = record.bundle /\ record.bundle # Nobody)
    BY <1>1, <1>2, <1>5, GoesBy DEF Fields
  <2>. QED BY <1>1, <1>4, <1>5, <2>1, BundleStays DEF Fields
<1>14. WorkspaceTypeOK'
  BY <1>1, <1>4, <1>6, GoesType DEF WorkspaceTypeOK
<1>. QED BY <1>12, <1>13, <1>14, WatchSees DEF WorkspaceInv

LEMMA SaveRecordKeeps ==
  ASSUME WorkspaceInv, Watch, NEW r \in Runs, SaveRecord(r)
  PROVE  WorkspaceInv'
<1>1. /\ UNCHANGED <<published, table, cache, mailbox, acked, passed, unsaved>>
      /\ WorkspaceTypeOK /\ work[r].pc = "record"
      /\ record' = [work[r].state EXCEPT !.cursor = Last(work[r].batch), !.known = @ \cup work[r].opened]
      /\ Turn(r, [work[r] EXCEPT !.pc = "ack"])
  BY DEF SaveRecord, relaySide, seen, Doing, Step, WorkspaceInv
<1>2. /\ r \in Pending /\ IsCall(work[r]) /\ CallFine(work[r]) /\ Plain' \subseteq Plain
      /\ work[r].op = "ingest" /\ IsRecord(work[r].state)
  BY <1>1, AtCall, WatchSees DEF WorkspaceInv, Stored, Plain, IsCall, Stage
<1>3. PICK x : x = [work[r] EXCEPT !.pc = "ack"]
  OBVIOUS
<1>4. Fields(x, work[r].op, "ack", work[r].tab, work[r].bundle, work[r].state,
             work[r].batch, work[r].at, work[r].list, work[r].opened, work[r].text)
  BY <1>2, <1>3, MovedCall DEF IsCall
<1>5. Goes(r, x)
  BY <1>1, <1>3, TurnGoes
<1>6. IsCall(x)
  BY <1>2, <1>4 DEF Fields, IsCall, Stage
<1>7. PICK c : c = Last(work[r].batch)
  OBVIOUS
<1>8. /\ IsRecord(record') /\ record'.bundle = work[r].state.bundle
      /\ record'.known = work[r].state.known \cup work[r].opened
  BY <1>1, <1>2, <1>7 DEF IsRecord
<1>9. \A e \in Plain : e \in record'.known => e \in table
  BY <1>1, <1>2, <1>8 DEF CallFine, Knows
<1>10. Plain' \cap record'.known \subseteq table /\ Plain' \cap acked' \subseteq table
  BY <1>1, <1>2, <1>9 DEF WorkspaceInv, Stored
<1>11. \A i \in DOMAIN x.batch : Handled(x, i)'
  BY <1>1, <1>2, <1>4 DEF Fields, CallFine, Handled
<1>12. \A e \in Plain : e \in x.opened => e \in table
  BY <1>1, <1>2, <1>4 DEF Fields, CallFine, Knows
<1>13. CallFine(x)'
  BY <1>1, <1>2, <1>4, <1>11, <1>12, StaysFine DEF Fields
<1>14. crossed \/ (work[r].state.bundle = record.bundle /\ record.bundle # Nobody)
  BY <1>1, <1>2, GoesBy
<1>. QED BY <1>1, <1>4, <1>5, <1>6, <1>8, <1>10, <1>13, <1>14, RunKeeps DEF Fields, WorkspaceTypeOK

\* Among finitely many numbers there is a k-th, for every k up to how many they are.
LEMMA PlaceFound ==
  ASSUME NEW m \in Nat, NEW left \in SUBSET (1..m), NEW k \in 1..Cardinality(left)
  PROVE  \E i \in left : Cardinality({j \in left : j <= i}) = k
<1>. DEFINE Upto(i) == {j \in left : j <= i}
            place == [i \in left |-> Cardinality(Upto(i))]
<1>1. IsFiniteSet(left)
  <2>1. IsFiniteSet(1..m)
    BY FS_Interval
  <2>. QED BY <2>1, FS_Subset
<1>2. Cardinality(left) \in Nat
  BY <1>1, FS_CardinalityType
<1>3. ASSUME NEW i \in left
      PROVE  /\ Upto(i) \in SUBSET left /\ IsFiniteSet(Upto(i))
             /\ Cardinality(Upto(i)) \in 1..Cardinality(left)
  <2>1. Upto(i) \in SUBSET left
    OBVIOUS
  <2>2. IsFiniteSet(Upto(i)) /\ Cardinality(Upto(i)) <= Cardinality(left)
    BY <1>1, <2>1, FS_Subset
  <2>3. Cardinality(Upto(i)) \in Nat
    BY <2>2, FS_CardinalityType
  <2>4. i \in Upto(i)
    OBVIOUS
  <2>5. Cardinality(Upto(i)) # 0
    BY <2>2, <2>4, FS_EmptySet
  <2>. HIDE DEF Upto
  <2>. QED BY <1>2, <2>1, <2>2, <2>3, <2>5
<1>4. ASSUME NEW i \in left, NEW j \in left, i < j
      PROVE  Cardinality(Upto(i)) # Cardinality(Upto(j))
  <2>1. /\ i \in Int /\ j \in Int /\ \A x \in left : x \in Int
        /\ \A x \in Int : x <= i => x <= j
        /\ j <= j /\ ~(j <= i)
    BY <1>4
  <2>2. Upto(i) \in SUBSET Upto(j) /\ j \in Upto(j) /\ j \notin Upto(i)
    BY <2>1
  <2>3. IsFiniteSet(Upto(j))
    BY <1>3
  <2>. HIDE DEF Upto
  <2>. QED BY <2>2, <2>3, FS_Subset
<1>5. place \in [left -> 1..Cardinality(left)]
  <2>. HIDE DEF Upto
  <2>. QED BY <1>3
<1>6. ASSUME NEW i \in left, NEW j \in left, place[i] = place[j] PROVE i = j
  <2>. HIDE DEF Upto
  <2>1. i \in Int /\ j \in Int /\ Cardinality(Upto(i)) = Cardinality(Upto(j))
    BY <1>6
  <2>2. ~(i < j) /\ ~(j < i)
    BY <1>4, <2>1
  <2>. QED BY <2>1, <2>2
<1>7. place \in Injection(left, 1..Cardinality(left))
  <2>. HIDE DEF place
  <2>. QED BY <1>5, <1>6 DEF Injection, IsInjective
<1>8. /\ IsFiniteSet(1..Cardinality(left))
      /\ Cardinality(1..Cardinality(left)) = Cardinality(left)
  BY <1>2, FS_Interval
<1>9. place \in Surjection(left, 1..Cardinality(left))
  <2>. HIDE DEF place
  <2>. QED BY <1>7, <1>8, FS_Injection
<1>10. \E i \in left : place[i] = k
  <2>. HIDE DEF place
  <2>. QED BY <1>9 DEF Surjection
<1>. QED BY <1>10

LEMMA UnackedIsSeq ==
  ASSUME mailbox \in Seq(Envelopes), NEW es
  PROVE  Unacked(es) \in Seq(Envelopes)
<1>1. PICK left : left = {i \in DOMAIN mailbox : mailbox[i] \notin es}
  OBVIOUS
<1>2. Len(mailbox) \in Nat /\ left \in SUBSET (1..Len(mailbox))
  BY <1>1
<1>3. \A i \in left : mailbox[i] \in Envelopes
  BY <1>1
<1>4. PICK n : n = Cardinality(left)
  OBVIOUS
<1>5. n \in Nat
  <2>1. IsFiniteSet(1..Len(mailbox))
    BY <1>2, FS_Interval
  <2>2. IsFiniteSet(left)
    BY <1>2, <2>1, FS_Subset
  <2>. QED BY <1>4, <2>2, FS_CardinalityType
<1>6. \A k \in 1..n : \E i \in left : Cardinality({j \in left : j <= i}) = k
  BY <1>2, <1>4, PlaceFound
<1>7. Unacked(es) = [k \in 1..n |-> mailbox[CHOOSE i \in left : Cardinality({j \in left : j <= i}) = k]]
  BY <1>1, <1>4 DEF Unacked
<1>8. \A k \in 1..n : (CHOOSE i \in left : Cardinality({j \in left : j <= i}) = k) \in left
  BY <1>6
<1>9. Unacked(es) \in [1..n -> Envelopes]
  BY <1>3, <1>7, <1>8
<1>. QED BY <1>5, <1>9

LEMMA AckKeeps ==
  ASSUME WorkspaceInv, Watch, NEW r \in Runs, Ack(r)
  PROVE  WorkspaceInv'
<1>1. /\ UNCHANGED <<record, published, table, cache, passed, unsaved>>
      /\ WorkspaceTypeOK /\ work[r].pc = "ack" /\ Turn(r, Free)
      /\ mailbox' = Unacked(ToSet(work[r].batch)) /\ acked' = acked \cup ToSet(work[r].batch)
  BY DEF Ack, browser, Doing, Quit, WorkspaceInv
<1>2. r \in Pending /\ CallFine(work[r]) /\ Plain' \subseteq Plain
  BY <1>1, AtCall, WatchSees DEF WorkspaceInv, Stored, Plain
<1>3. Plain \cap ToSet(work[r].batch) \subseteq table
  BY <1>1, <1>2 DEF CallFine, Handled, ToSet
<1>4. Plain' \cap acked' \subseteq table /\ Plain' \cap record'.known \subseteq table
  BY <1>1, <1>2, <1>3 DEF WorkspaceInv, Stored
<1>5. Goes(r, Free)
  BY <1>1, TurnGoes
<1>6. mailbox' \in Seq(Envelopes)
  BY <1>1, UnackedIsSeq DEF WorkspaceTypeOK
<1>. QED BY <1>1, <1>4, <1>5, <1>6, RunKeeps DEF WorkspaceTypeOK

LEMMA PeerSendsKeeps ==
  ASSUME WorkspaceInv, Watch, NEW e \in Envelopes, NEW tabs, PeerSends(e, tabs)
  PROVE  WorkspaceInv'
<1>1. /\ UNCHANGED <<work, record, published, table, cache, acked, passed, unsaved>>
      /\ mailbox' = Append(mailbox, e)
  BY DEF PeerSends, browser, seen
<1>2. Plain' \subseteq Plain
  BY <1>1, WatchSees DEF Plain
<1>3. mailbox' \in Seq(Envelopes)
  BY <1>1 DEF WorkspaceInv, WorkspaceTypeOK
<1>4. Stored'
  BY <1>1, <1>2 DEF WorkspaceInv, Stored, Pending, CallFine, CacheFine, Knows, Handled, HoldsList
<1>5. crossed' \/ OneBundle'
  BY <1>1, WatchSees DEF WorkspaceInv, OneBundle, Registering, Bundled, Pending
<1>6. WorkspaceTypeOK'
  BY <1>1, <1>3 DEF WorkspaceInv, WorkspaceTypeOK, Pending
<1>. QED BY <1>4, <1>5, <1>6, WatchSees DEF WorkspaceInv

LEMMA ReloadKeeps ==
  ASSUME WorkspaceInv, Watch, NEW t \in Tabs, Reload(t)
  PROVE  WorkspaceInv'
<1>1. /\ UNCHANGED <<record, published, mailbox, table, acked, passed, unsaved>>
      /\ work' = [q \in Runs |-> IF q \in {p \in Pending : work[p].tab = t} THEN Free ELSE work[q]]
      /\ cache' = [u \in DOMAIN cache \ {t} |-> cache[u]]
  BY DEF Reload, relaySide, seen, Lost
<1>2. Plain' \subseteq Plain
  BY <1>1, WatchSees DEF Plain
<1>3. \A q \in Pending' : q \in Pending /\ work'[q] = work[q]
  BY <1>1 DEF Pending
<1>4. \A q \in Pending : work[q].tab # t => q \in Pending' /\ work'[q] = work[q]
  BY <1>1 DEF Pending
<1>5. ASSUME NEW q \in Pending' PROVE CallFine(work[q])'
  <2>1. CallFine(work[q]) /\ work'[q] = work[q]
    BY <1>3, <1>5 DEF WorkspaceInv, Stored
  <2>2. \A u \in DOMAIN cache' : u \in DOMAIN cache /\ cache'[u] = cache[u]
    BY <1>1
  <2>. QED BY <1>1, <1>2, <2>1, <2>2 DEF CallFine, Knows, Handled, HoldsList
<1>6. ASSUME NEW u \in DOMAIN cache' PROVE CacheFine(u)'
  <2>1. u # t /\ CacheFine(u) /\ cache'[u] = cache[u]
    BY <1>1, <1>6 DEF WorkspaceInv, Stored
  <2>. QED BY <1>1, <1>2, <1>4, <2>1 DEF CacheFine
<1>7. Stored'
  BY <1>1, <1>2, <1>5, <1>6 DEF Stored, WorkspaceInv
<1>8. crossed' \/ OneBundle'
  BY <1>1, <1>3, WatchSees DEF WorkspaceInv, OneBundle, Registering, Bundled
<1>9. WorkspaceTypeOK'
  BY <1>1, <1>3 DEF WorkspaceInv, WorkspaceTypeOK
<1>. QED BY <1>7, <1>8, <1>9, WatchSees DEF WorkspaceInv

\* A call begins: the mailbox is synced, an envelope is taken in, a text is sent.
LEMMA BeginKeeps ==
  ASSUME WorkspaceInv, Watch, NEW r \in Runs, NEW t \in Tabs
  PROVE  /\ BeginSync(r, t) => WorkspaceInv'
         /\ \A e \in Envelopes : TakeEvent(r, t, e) => WorkspaceInv'
         /\ \A s \in Sends : BeginSend(r, t, s) => WorkspaceInv'
<1>1. ASSUME NEW w, ToBegin(w), Start(r, w) PROVE WorkspaceInv'
  <2>1. mailbox' \in Seq(Envelopes)
    BY <1>1 DEF Start, relaySide, WorkspaceInv, WorkspaceTypeOK
  <2>. QED BY <1>1, <2>1, StartKeeps
<1>2. <<>> \in Seq(Envelopes) /\ \A e \in Envelopes : <<e>> \in Seq(Envelopes)
  OBVIOUS
<1>3. ASSUME BeginSync(r, t) PROVE WorkspaceInv'
  <2>1. PICK w : w = Call("sync", t)
    OBVIOUS
  <2>2. IsWhole(w) /\ w.op = "sync" /\ w.batch = <<>> /\ w.at = 1 /\ w.opened = {}
    BY <2>1, FreshCall DEF Fields
  <2>3. ToBegin(w)
    BY <1>2, <2>2 DEF ToBegin
  <2>. QED BY <1>1, <1>3, <2>1, <2>3 DEF BeginSync
<1>4. ASSUME NEW e \in Envelopes, TakeEvent(r, t, e) PROVE WorkspaceInv'
  <2>1. PICK i : i = Call("ingest", t)
    OBVIOUS
  <2>2. Fields(i, "ingest", "start", t, Nobody, NoRecord, <<>>, 1, {}, {}, Nobody)
    BY <2>1, FreshCall
  <2>3. PICK w : w = [i EXCEPT !.batch = <<e>>]
    OBVIOUS
  <2>4. IsWhole(i)
    BY <2>2 DEF Fields
  <2>5. Fields(w, i.op, i.pc, i.tab, i.bundle, i.state, <<e>>, i.at, i.list, i.opened, i.text)
    BY <2>3, <2>4, EventCall
  <2>6. ToBegin(w)
    BY <1>2, <2>2, <2>5 DEF ToBegin, Fields
  <2>. QED BY <1>1, <1>4, <2>1, <2>3, <2>6 DEF TakeEvent
<1>5. ASSUME NEW s \in Sends, BeginSend(r, t, s) PROVE WorkspaceInv'
  <2>1. PICK n : n = Call("send", t)
    OBVIOUS
  <2>2. Fields(n, "send", "start", t, Nobody, NoRecord, <<>>, 1, {}, {}, Nobody)
    BY <2>1, FreshCall
  <2>3. PICK w : w = [n EXCEPT !.text = s]
    OBVIOUS
  <2>4. IsWhole(n)
    BY <2>2 DEF Fields
  <2>5. Fields(w, n.op, n.pc, n.tab, n.bundle, n.state, n.batch, n.at, n.list, n.opened, s)
    BY <2>3, <2>4, TextCall
  <2>6. ToBegin(w)
    BY <1>2, <2>2, <2>5 DEF ToBegin, Fields
  <2>. QED BY <1>1, <1>5, <2>1, <2>3, <2>6 DEF BeginSend
<1>. QED BY <1>3, <1>4, <1>5

LEMMA WorkspaceStep == WorkspaceInv /\ [WorkspaceNext]_workspaceVars => WorkspaceInv'
<1>. SUFFICES ASSUME WorkspaceInv, [WorkspaceNext]_workspaceVars PROVE WorkspaceInv'
  OBVIOUS
<1>1. CASE UNCHANGED workspaceVars
  <2>1. UNCHANGED <<work, record, table, cache, published, mailbox, acked, passed, unsaved, crowded, crossed>>
    BY <1>1 DEF workspaceVars, browser, relaySide, seen
  <2>2. WorkspaceTypeOK' /\ (crossed' \/ OneBundle') /\ Alone'
    BY <2>1 DEF WorkspaceInv, WorkspaceTypeOK, OneBundle, Alone, Pending, Registering, Bundled
  <2>3. Stored'
    BY <2>1 DEF WorkspaceInv, Stored, Pending, Plain, CallFine, CacheFine, Knows, Handled, HoldsList
  <2>. QED BY <2>2, <2>3 DEF WorkspaceInv
<1>2. CASE WorkspaceNext
  <2>1. Watch
    BY <1>2 DEF WorkspaceNext
  <2>2. ASSUME NEW r \in Runs,
               \/ Register(r) \/ SaveBundle(r) \/ FailRegister(r) \/ FailRequest(r)
               \/ Fetch(r) \/ SkipKnown(r) \/ Open(r) \/ PassOver(r)
               \/ ReadTable(r) \/ FillCache(r) \/ Persist(r) \/ Accepted(r) \/ KeepOwn(r)
               \/ Put(r) \/ FailPut(r) \/ SaveRecord(r) \/ Ack(r)
        PROVE  WorkspaceInv'
    BY <2>1, <2>2, RegisterKeeps, SaveBundleKeeps, FailRegisterKeeps, FailRequestKeeps, FetchKeeps, SkipKeeps,
       OpenKeeps, PassOverKeeps, ReadTableKeeps, FillKeeps, PersistKeeps, AcceptedKeeps, KeepOwnKeeps,
       PutKeeps, FailPutKeeps, SaveRecordKeeps, AckKeeps
  <2>3. ASSUME NEW r \in Runs, NEW t \in Tabs,
               \/ BeginSync(r, t) \/ ShowPage(r, t)
               \/ \E e \in Envelopes : TakeEvent(r, t, e)
               \/ \E s \in Sends : BeginSend(r, t, s)
        PROVE  WorkspaceInv'
    BY <2>1, <2>3, BeginKeeps, ShowPageKeeps
  <2>4. ASSUME \E t \in Tabs : Reload(t) PROVE WorkspaceInv'
    BY <2>1, <2>4, ReloadKeeps
  <2>5. ASSUME \E e \in Envelopes, tabs \in SUBSET Tabs : PeerSends(e, tabs) PROVE WorkspaceInv'
    BY <2>1, <2>5, PeerSendsKeeps
  <2>. QED BY <1>2, <2>2, <2>3, <2>4, <2>5 DEF WorkspaceNext
<1>. QED BY <1>1, <1>2

\* Only what the relay served is acknowledged.
LEMMA AckedStep ==
  ASSUME WorkspaceTypeOK, acked \subseteq Envelopes, [WorkspaceNext]_workspaceVars
  PROVE  acked' \subseteq Envelopes
<1>1. ASSUME NEW r \in Runs, Ack(r) PROVE acked' \subseteq Envelopes
  <2>1. IsCall(work[r])
    BY <1>1, AtCall DEF Ack, Doing
  <2>2. ToSet(work[r].batch) \subseteq Envelopes
    BY <2>1 DEF IsCall, ToSet
  <2>. QED BY <1>1, <2>2 DEF Ack
<1>2. CASE UNCHANGED workspaceVars
  BY <1>2 DEF workspaceVars, seen
<1>3. CASE WorkspaceNext
  <2>1. ASSUME NEW r \in Runs, NEW t \in Tabs, NEW e, BeginSync(r, t) \/ ShowPage(r, t) \/ TakeEvent(r, t, e) \/ BeginSend(r, t, e)
        PROVE  acked' = acked
    BY <2>1 DEF BeginSync, ShowPage, TakeEvent, BeginSend, Start, seen
  <2>2. ASSUME NEW r \in Runs,
               \/ Register(r) \/ SaveBundle(r) \/ FailRegister(r) \/ Fetch(r) \/ SkipKnown(r) \/ Open(r)
               \/ PassOver(r) \/ ReadTable(r) \/ FillCache(r)
        PROVE  acked' = acked
    BY <2>2 DEF Register, SaveBundle, FailRegister, Fetch, SkipKnown, Open, PassOver, ReadTable, FillCache, seen
  <2>3. ASSUME NEW r \in Runs,
               \/ Persist(r) \/ Put(r) \/ FailPut(r) \/ SaveRecord(r) \/ Accepted(r) \/ KeepOwn(r) \/ FailRequest(r)
        PROVE  acked' = acked
    BY <2>3 DEF Persist, Put, FailPut, SaveRecord, Accepted, KeepOwn, FailRequest, seen
  <2>4. ASSUME \/ \E e \in Envelopes, tabs \in SUBSET Tabs : PeerSends(e, tabs)
               \/ \E t \in Tabs : Reload(t)
        PROVE  acked' = acked
    BY <2>4 DEF PeerSends, Reload, seen
  <2>. QED BY <1>1, <1>3, <2>1, <2>2, <2>3, <2>4 DEF WorkspaceNext
<1>. QED BY <1>2, <1>3

LEMMA WorkspaceSafe == WorkspaceSpec => [](WorkspaceInv /\ acked \subseteq Envelopes)
<1>1. WorkInit /\ WorkspaceInit => WorkspaceInv /\ acked \subseteq Envelopes
  BY WorkspaceStart DEF WorkspaceInit
<1>2. /\ WorkspaceInv /\ acked \subseteq Envelopes /\ [WorkspaceNext]_workspaceVars
      => (WorkspaceInv /\ acked \subseteq Envelopes)'
  <2>1. WorkspaceInv => WorkspaceTypeOK
    BY DEF WorkspaceInv
  <2>. QED BY <2>1, WorkspaceStep, AckedStep
<1>. QED BY <1>1, <1>2, PTL DEF WorkspaceSpec

\* The bundle that the relay hands to peers is the one that the record opens with
\* (relay-workspace.ts, ensureRelayDeviceBundle), for any tabs and runs, wherever
\* requests fail and tabs are closed, unless two registrations overlapped.
THEOREM BundleKept == WorkspaceSpec => []BundlesAgree
<1>1. WorkspaceInv => BundlesAgree
  BY DEF WorkspaceInv, OneBundle, BundlesAgree
<1>. QED BY <1>1, WorkspaceSafe, PTL

\* What a browser acknowledges is in its table (relay-workspace.ts,
\* ingestRelayEnvelopes), but for what it could not open, transactions that failed, and
\* envelopes that were taken in beside another run or another tab's cache.
THEOREM AckedKept == WorkspaceSpec => []AckedIsStored
<1>1. ASSUME WorkspaceInv, acked \subseteq Envelopes, NEW e \in acked \ (passed \cup unsaved \cup crowded) PROVE e \in table
  <2>. QED BY <1>1 DEF WorkspaceInv, Stored, Plain
<1>2. WorkspaceInv /\ acked \subseteq Envelopes => AckedIsStored
  BY <1>1 DEF AckedIsStored
<1>. QED BY <1>2, WorkspaceSafe, PTL

-----------------------------------------------------------------------------
(* The threads of PhoneThread and WebThread.                                *)

LoadOps == {"visit", "poll", "refresh", "open", "reload"}

Marks == [edited : BOOLEAN, liked : BOOLEAN, gone : BOOLEAN]
Lists == UNION {[S -> Marks] : S \in SUBSET Messages}
Events == [what : ThreadOps, msg : Messages, liked : BOOLEAN]
ChangeRuns ==
  [op : ThreadOps, pc : {"asked", "write", "answer"}, chat : Chats, msg : Messages,
   own : BOOLEAN, liked : BOOLEAN, got : Lists, current : {TRUE}]
ReadRuns ==
  [op : LoadOps, pc : {"cache", "asked", "listed", "show"}, chat : Chats, msg : {Nobody},
   own : {TRUE}, liked : {FALSE}, got : Lists, current : BOOLEAN]

Tasks == ChangeRuns \cup ReadRuns \cup {Free}

ThreadTypeOK ==
  /\ work \in [Runs -> Tasks]
  /\ row \in Lists /\ view \in Lists
  /\ due \subseteq Events /\ air \subseteq Events
  /\ picked \in Chats \cup {Nobody} /\ link \in {"none", "connecting", "open"}
  /\ loose \subseteq Messages /\ strayed \in BOOLEAN

CopyTypeOK == cached \in [Chats -> Lists] /\ polling \in BOOLEAN

-----------------------------------------------------------------------------
(* Lists of messages.                                                       *)

LEMMA ListIff ==
  ASSUME NEW v
  PROVE  v \in Lists <=> DOMAIN v \subseteq Messages /\ v \in [DOMAIN v -> Marks]
<1>1. ASSUME v \in Lists PROVE DOMAIN v \subseteq Messages /\ v \in [DOMAIN v -> Marks]
  <2>1. PICK S \in SUBSET Messages : v \in [S -> Marks] BY <1>1 DEF Lists
  <2>. QED BY <2>1
<1>2. ASSUME DOMAIN v \subseteq Messages, v \in [DOMAIN v -> Marks] PROVE v \in Lists
  BY <1>2 DEF Lists
<1>. QED BY <1>1, <1>2

LEMMA NothingList == Nothing \in Lists /\ DOMAIN Nothing = {}
BY ListIff DEF Nothing

LEMMA FreshMarks == Fresh \in Marks /\ Fresh = [edited |-> FALSE, liked |-> FALSE, gone |-> FALSE]
BY DEF Fresh, Marks

\* One list laid over another: what each message is then.
LEMMA OverList ==
  ASSUME NEW f \in Lists, NEW g \in Lists
  PROVE  /\ Over(f, g) \in Lists /\ DOMAIN Over(f, g) = DOMAIN f \cup DOMAIN g
         /\ \A m \in DOMAIN f : Over(f, g)[m] = f[m]
         /\ \A m \in DOMAIN g \ DOMAIN f : Over(f, g)[m] = g[m]
<1>1. DOMAIN f \subseteq Messages /\ f \in [DOMAIN f -> Marks] BY ListIff
<1>2. DOMAIN g \subseteq Messages /\ g \in [DOMAIN g -> Marks] BY ListIff
<1>3. Over(f, g) \in [DOMAIN f \cup DOMAIN g -> Marks] BY <1>1, <1>2 DEF Over
<1>4. Over(f, g) \in Lists BY <1>1, <1>2, <1>3, ListIff
<1>. QED BY <1>3, <1>4 DEF Over

LEMMA JustList ==
  ASSUME NEW m \in Messages
  PROVE  Just(m) \in Lists /\ DOMAIN Just(m) = {m} /\ Just(m)[m] = Fresh
BY ListIff, FreshMarks DEF Just

LEMMA PutList ==
  ASSUME NEW m \in Messages, NEW v \in Lists
  PROVE  /\ Over(Just(m), v) \in Lists /\ DOMAIN Over(Just(m), v) = DOMAIN v \cup {m}
         /\ Over(Just(m), v)[m] = Fresh
         /\ \A n \in DOMAIN v \ {m} : Over(Just(m), v)[n] = v[n]
<1>1. Just(m) \in Lists /\ DOMAIN Just(m) = {m} /\ Just(m)[m] = Fresh BY JustList
<1>2. PICK f : f = Just(m) OBVIOUS
<1>3. f \in Lists /\ DOMAIN f = {m} /\ f[m] = Fresh BY <1>1, <1>2
<1>4. /\ Over(f, v) \in Lists /\ DOMAIN Over(f, v) = DOMAIN f \cup DOMAIN v
      /\ \A n \in DOMAIN f : Over(f, v)[n] = f[n]
      /\ \A n \in DOMAIN v \ DOMAIN f : Over(f, v)[n] = v[n]
  BY <1>3, OverList
<1>5. /\ Over(f, v) \in Lists /\ DOMAIN Over(f, v) = DOMAIN v \cup {m}
      /\ Over(f, v)[m] = Fresh
      /\ \A n \in DOMAIN v \ {m} : Over(f, v)[n] = v[n]
  BY <1>3, <1>4
<1>. QED BY <1>2, <1>5

\* What a change makes of a list: it touches the message of the change only.
LEMMA ChangeList ==
  ASSUME NEW v \in Lists, NEW e \in Events
  PROVE  /\ WithChange(v, e) \in Lists
         /\ DOMAIN WithChange(v, e) = IF e.what = "post" THEN DOMAIN v \cup {e.msg} ELSE DOMAIN v
         /\ \A n \in DOMAIN v \ {e.msg} : WithChange(v, e)[n] = v[n]
         /\ e.msg \in DOMAIN v =>
              WithChange(v, e)[e.msg] =
                CASE e.what = "post"   -> v[e.msg]
                  [] e.what = "edit"   -> [v[e.msg] EXCEPT !.edited = TRUE]
                  [] e.what = "delete" -> [v[e.msg] EXCEPT !.gone = TRUE]
                  [] e.what = "like"   -> [v[e.msg] EXCEPT !.liked = e.liked]
         /\ e.msg \notin DOMAIN v /\ e.what = "post" => WithChange(v, e)[e.msg] = Fresh
<1>0. /\ e.msg \in Messages /\ e.liked \in BOOLEAN
      /\ e.what = "post" \/ e.what = "edit" \/ e.what = "delete" \/ e.what = "like"
  BY DEF Events, ThreadOps
<1>1. DOMAIN v \subseteq Messages /\ v \in [DOMAIN v -> Marks] BY ListIff
<1>2. CASE e.msg \notin DOMAIN v
  <2>1. CASE e.what = "post"
    <3>1. WithChange(v, e) = Over(Just(e.msg), v) BY <1>2, <2>1 DEF WithChange
    <3>. QED BY <1>0, <1>2, <2>1, <3>1, PutList
  <2>2. CASE e.what # "post"
    <3>1. WithChange(v, e) = v BY <1>2, <2>2 DEF WithChange
    <3>. QED BY <1>2, <2>2, <3>1
  <2>. QED BY <2>1, <2>2
<1>3. CASE e.msg \in DOMAIN v
  <2>0. v[e.msg] \in Marks BY <1>1, <1>3
  <2>1. CASE e.what = "post"
    <3>1. WithChange(v, e) = v BY <1>3, <2>1 DEF WithChange
    <3>. QED BY <1>3, <2>1, <3>1
  <2>2. CASE e.what = "edit"
    <3>1. WithChange(v, e) = [v EXCEPT ![e.msg].edited = TRUE] BY <1>3, <2>2 DEF WithChange
    <3>2. [v[e.msg] EXCEPT !.edited = TRUE] \in Marks BY <2>0 DEF Marks
    <3>3. /\ DOMAIN WithChange(v, e) = DOMAIN v
          /\ WithChange(v, e) \in [DOMAIN v -> Marks]
          /\ WithChange(v, e)[e.msg] = [v[e.msg] EXCEPT !.edited = TRUE]
          /\ \A n \in DOMAIN v \ {e.msg} : WithChange(v, e)[n] = v[n]
      BY <1>1, <1>3, <3>1, <3>2
    <3>4. WithChange(v, e) \in Lists BY <1>1, <3>3, ListIff
    <3>. QED BY <1>3, <2>2, <3>3, <3>4
  <2>3. CASE e.what = "delete"
    <3>1. WithChange(v, e) = [v EXCEPT ![e.msg].gone = TRUE] BY <1>3, <2>3 DEF WithChange
    <3>2. [v[e.msg] EXCEPT !.gone = TRUE] \in Marks BY <2>0 DEF Marks
    <3>3. /\ DOMAIN WithChange(v, e) = DOMAIN v
          /\ WithChange(v, e) \in [DOMAIN v -> Marks]
          /\ WithChange(v, e)[e.msg] = [v[e.msg] EXCEPT !.gone = TRUE]
          /\ \A n \in DOMAIN v \ {e.msg} : WithChange(v, e)[n] = v[n]
      BY <1>1, <1>3, <3>1, <3>2
    <3>4. WithChange(v, e) \in Lists BY <1>1, <3>3, ListIff
    <3>. QED BY <1>3, <2>3, <3>3, <3>4
  <2>4. CASE e.what = "like"
    <3>1. WithChange(v, e) = [v EXCEPT ![e.msg].liked = e.liked] BY <1>3, <2>4 DEF WithChange
    <3>2. [v[e.msg] EXCEPT !.liked = e.liked] \in Marks BY <1>0, <2>0 DEF Marks
    <3>3. /\ DOMAIN WithChange(v, e) = DOMAIN v
          /\ WithChange(v, e) \in [DOMAIN v -> Marks]
          /\ WithChange(v, e)[e.msg] = [v[e.msg] EXCEPT !.liked = e.liked]
          /\ \A n \in DOMAIN v \ {e.msg} : WithChange(v, e)[n] = v[n]
      BY <1>1, <1>3, <3>1, <3>2
    <3>4. WithChange(v, e) \in Lists BY <1>1, <3>3, ListIff
    <3>. QED BY <1>3, <2>4, <3>3, <3>4
  <2>. QED BY <1>0, <2>1, <2>2, <2>3, <2>4
<1>. QED BY <1>2, <1>3

\* The row that is written, for each kind of change.
LEMMA WriteList ==
  ASSUME NEW w \in ChangeRuns, row \in Lists, w.op # "post" => w.msg \in DOMAIN row
  PROVE  /\ Written(w) \in Lists /\ DOMAIN Written(w) = DOMAIN row \cup {w.msg}
         /\ \A n \in DOMAIN row \ {w.msg} : Written(w)[n] = row[n]
         /\ Written(w)[w.msg] =
                CASE w.op = "post"   -> Fresh
                  [] w.op = "edit"   -> [row[w.msg] EXCEPT !.edited = TRUE]
                  [] w.op = "delete" -> [row[w.msg] EXCEPT !.gone = TRUE]
                  [] w.op = "like"   -> [row[w.msg] EXCEPT !.liked = w.liked]
<1>0. /\ w.msg \in Messages /\ w.liked \in BOOLEAN
      /\ w.op = "post" \/ w.op = "edit" \/ w.op = "delete" \/ w.op = "like"
  BY DEF ChangeRuns, ThreadOps
<1>1. DOMAIN row \subseteq Messages /\ row \in [DOMAIN row -> Marks] BY ListIff
<1>2. CASE w.op = "post"
  <2>1. Written(w) = Over(Just(w.msg), row) BY <1>2 DEF Written
  <2>2. /\ Over(Just(w.msg), row) \in Lists
        /\ DOMAIN Over(Just(w.msg), row) = DOMAIN row \cup {w.msg}
        /\ Over(Just(w.msg), row)[w.msg] = Fresh
        /\ \A n \in DOMAIN row \ {w.msg} : Over(Just(w.msg), row)[n] = row[n]
    BY <1>0, PutList
  <2>3. Written(w)[w.msg] = Fresh BY <2>1, <2>2
  <2>. QED BY <1>2, <2>1, <2>2, <2>3
<1>3. CASE w.op = "edit"
  <2>0. row[w.msg] \in Marks BY <1>1, <1>3
  <2>1. Written(w) = [row EXCEPT ![w.msg].edited = TRUE] BY <1>3 DEF Written
  <2>2. [row[w.msg] EXCEPT !.edited = TRUE] \in Marks BY <2>0 DEF Marks
  <2>3. /\ DOMAIN Written(w) = DOMAIN row
        /\ Written(w) \in [DOMAIN row -> Marks]
        /\ Written(w)[w.msg] = [row[w.msg] EXCEPT !.edited = TRUE]
        /\ \A n \in DOMAIN row \ {w.msg} : Written(w)[n] = row[n]
    BY <1>1, <1>3, <2>1, <2>2
  <2>4. Written(w) \in Lists BY <1>1, <2>3, ListIff
  <2>. QED BY <1>3, <2>3, <2>4
<1>4. CASE w.op = "delete"
  <2>0. row[w.msg] \in Marks BY <1>1, <1>4
  <2>1. Written(w) = [row EXCEPT ![w.msg].gone = TRUE] BY <1>4 DEF Written
  <2>2. [row[w.msg] EXCEPT !.gone = TRUE] \in Marks BY <2>0 DEF Marks
  <2>3. /\ DOMAIN Written(w) = DOMAIN row
        /\ Written(w) \in [DOMAIN row -> Marks]
        /\ Written(w)[w.msg] = [row[w.msg] EXCEPT !.gone = TRUE]
        /\ \A n \in DOMAIN row \ {w.msg} : Written(w)[n] = row[n]
    BY <1>1, <1>4, <2>1, <2>2
  <2>4. Written(w) \in Lists BY <1>1, <2>3, ListIff
  <2>. QED BY <1>4, <2>3, <2>4
<1>5. CASE w.op = "like"
  <2>0. row[w.msg] \in Marks BY <1>1, <1>5
  <2>1. Written(w) = [row EXCEPT ![w.msg].liked = w.liked] BY <1>5 DEF Written
  <2>2. [row[w.msg] EXCEPT !.liked = w.liked] \in Marks BY <1>0, <2>0 DEF Marks
  <2>3. /\ DOMAIN Written(w) = DOMAIN row
        /\ Written(w) \in [DOMAIN row -> Marks]
        /\ Written(w)[w.msg] = [row[w.msg] EXCEPT !.liked = w.liked]
        /\ \A n \in DOMAIN row \ {w.msg} : Written(w)[n] = row[n]
    BY <1>1, <1>5, <2>1, <2>2
  <2>4. Written(w) \in Lists BY <1>1, <2>3, ListIff
  <2>. QED BY <1>5, <2>3, <2>4
<1>. QED BY <1>0, <1>2, <1>3, <1>4, <1>5


-----------------------------------------------------------------------------
(* The calls under way and the messages they are about.                      *)

\* The messages of hosted chats in a list have a row.
KnownList(v) == \A m \in DOMAIN v : ChatOf[m] \in Hosted => m \in DOMAIN row

\* What a call may take for granted where it stands.
TaskOK(w) ==
  /\ w \in ChangeRuns =>
       /\ w.pc = "write" => w.chat \in Hosted /\ (w.op # "post" => w.msg \in DOMAIN row)
       /\ w.op = "post" => ChatOf[w.msg] = w.chat /\ (w.pc # "answer" => w.msg \notin DOMAIN row)
       /\ w.pc = "answer" => w.own /\ (w.chat \in Hosted => w.msg \in DOMAIN row)
       /\ w.own \/ w.chat \in Hosted
  /\ w # Free => KnownList(w.got)

\* A message is posted by one call.
PostsApart ==
  \A r, q \in Runs :
    /\ work[r] \in ChangeRuns /\ work[r].op = "post"
    /\ work[q] \in ChangeRuns /\ work[q].op = "post" /\ work[r].msg = work[q].msg
    => r = q

Base ==
  /\ ThreadTypeOK
  /\ \A r \in Runs : TaskOK(work[r])
  /\ PostsApart
  /\ \A e \in due \cup air : e.msg \in DOMAIN row
  /\ KnownList(view)

\* The row of a message is as a change of it tells.
Tells(e) ==
  /\ e.msg \in DOMAIN row
  /\ e.what = "post" => row[e.msg] = Fresh
  /\ e.what = "edit" => row[e.msg].edited
  /\ e.what = "delete" => row[e.msg].gone
  /\ e.what = "like" => row[e.msg].liked = e.liked

Touches(w, m) == w \in ChangeRuns /\ w.msg = m
Shows(w, m) == w \in ReadRuns /\ w.pc \in {"listed", "show"} /\ w.chat = ChatOf[m]

\* One change of the message is under way, and the row is as it tells once it is
\* written; a list that is to be shown has the message as it is.
OneCall(m) == \A r, q \in Runs : Touches(work[r], m) /\ Touches(work[q], m) => r = q
OneCast(m) == \A e, f \in due \cup air : e.msg = m /\ f.msg = m => e = f
CastTells(m) == \A e \in due \cup air : e.msg = m => Tells(e)
CallTells(m) ==
  \A r \in Runs : Touches(work[r], m) =>
    /\ work[r].pc = "answer" => Tells(Event(work[r]))
    /\ \A e \in due \cup air : e.msg = m => work[r].pc = "answer" /\ e = Event(work[r])
ListTells(m) == \A r \in Runs : Shows(work[r], m) => Follows(work[r].got, m)

MessageOK(m) == OneCall(m) /\ OneCast(m) /\ CastTells(m) /\ CallTells(m) /\ ListTells(m)

\* A change is about a message of the chat it names.
AtHome == \A r \in Runs : work[r] \in ChangeRuns => ChatOf[work[r].msg] = work[r].chat

ThreadInv ==
  /\ Base
  /\ ~strayed => AtHome /\ \A m \in Messages \ loose : ChatOf[m] \in Hosted => MessageOK(m)

\* A list has the message as it is, or will have it when the broadcast is heard.
ThreadSettled(v, m) ==
  /\ \A e \in due \cup air : e.msg = m => Follows(WithChange(v, e), m)
  /\ (\A e \in due \cup air : e.msg # m) => Follows(v, m)

-----------------------------------------------------------------------------
(* The calls, as sets.                                                      *)

LEMMA TaskSets ==
  ASSUME NEW w \in Tasks
  PROVE  /\ w \in ChangeRuns <=> w.op \in ThreadOps
         /\ w \in ReadRuns <=> w.op \in LoadOps
         /\ w = Free <=> w.op = "none"
         /\ w.pc = "free" <=> w = Free
         /\ w.pc \in {"write", "answer"} => w \in ChangeRuns
         /\ w.pc \in {"cache", "listed", "show"} => w \in ReadRuns
         /\ w.pc = "asked" => w \in ChangeRuns \cup ReadRuns
<1>0. Free.op = "none" /\ Free.pc = "free" BY DEF Free
<1>1. CASE w \in ChangeRuns
  <2>1. /\ w.op = "post" \/ w.op = "edit" \/ w.op = "delete" \/ w.op = "like"
        /\ w.pc \in {"asked", "write", "answer"}
    BY <1>1 DEF ChangeRuns, ThreadOps
  <2>2. w \notin ReadRuns BY <2>1 DEF ReadRuns, LoadOps
  <2>3. w # Free BY <1>0, <2>1
  <2>. QED BY <1>1, <2>1, <2>2, <2>3 DEF ThreadOps, LoadOps
<1>2. CASE w \in ReadRuns
  <2>1. w.op \in LoadOps /\ w.pc \in {"cache", "asked", "listed", "show"} BY <1>2 DEF ReadRuns
  <2>2. w \notin ChangeRuns BY <2>1 DEF ChangeRuns, ThreadOps, LoadOps
  <2>3. w # Free BY <1>0, <2>1 DEF LoadOps
  <2>. QED BY <1>2, <2>1, <2>2, <2>3 DEF ThreadOps, LoadOps
<1>3. CASE w = Free
  <2>1. w.op = "none" /\ w.pc = "free" BY <1>3 DEF Free
  <2>2. w \notin ChangeRuns /\ w \notin ReadRuns BY <2>1 DEF ChangeRuns, ReadRuns, ThreadOps, LoadOps
  <2>. QED BY <1>3, <2>1, <2>2 DEF ThreadOps, LoadOps
<1>. QED BY <1>1, <1>2, <1>3 DEF Tasks

LEMMA FreeTask == Free \in Tasks /\ Free \notin ChangeRuns /\ Free \notin ReadRuns
BY DEF Tasks, ChangeRuns, ReadRuns, Free, ThreadOps, LoadOps

LEMMA Disjoint == \A w \in ChangeRuns : w \notin ReadRuns
BY DEF ChangeRuns, ThreadOps, ReadRuns, LoadOps

LEMMA PendingSets ==
  ASSUME ThreadTypeOK, NEW m
  PROVE  /\ \A r \in Runs : work[r] \in Tasks
         /\ \A r : r \in Pending <=> r \in Runs /\ work[r] \in ChangeRuns \cup ReadRuns
         /\ \A r : r \in Touching(m) <=> r \in Runs /\ Touches(work[r], m)
         /\ \A r : r \in Sending <=> r \in Runs /\ work[r] \in ChangeRuns /\ work[r].op = "post" /\ work[r].own
         /\ m \in Messages => (Overtakable(m) <=> \E r \in Runs : Shows(work[r], m))
<1>1. \A r \in Runs : work[r] \in Tasks BY DEF ThreadTypeOK
<1>2. \A r \in Runs :
        /\ work[r] \in ChangeRuns <=> work[r].op \in ThreadOps
        /\ work[r] \in ReadRuns <=> work[r].op \in LoadOps
        /\ work[r] = Free <=> work[r].op = "none"
        /\ work[r].pc \in {"cache", "listed", "show"} => work[r] \in ReadRuns
  BY <1>1, TaskSets
<1>3. \A r : r \in Pending <=> r \in Runs /\ work[r] \in ChangeRuns \cup ReadRuns
  BY <1>1, <1>2 DEF Pending, Tasks, ThreadOps, LoadOps
<1>4. \A r : r \in Touching(m) <=> r \in Runs /\ Touches(work[r], m)
  BY <1>2, <1>3 DEF Touching, Touches
<1>5. \A r : r \in Sending <=> r \in Runs /\ work[r] \in ChangeRuns /\ work[r].op = "post" /\ work[r].own
  BY <1>2, <1>3 DEF Sending, ThreadOps
<1>6. m \in Messages => (Overtakable(m) <=> \E r \in Runs : Shows(work[r], m))
  BY <1>2, <1>3 DEF Overtakable, Shows, In
<1>. QED BY <1>1, <1>3, <1>4, <1>5, <1>6

\* The same of the state after a step.
LEMMA PendingSetsNext ==
  ASSUME NEW m, ThreadTypeOK'
  PROVE  /\ \A r : r \in Sending' <=> r \in Runs /\ work'[r] \in ChangeRuns /\ work'[r].op = "post" /\ work'[r].own
         /\ m \in Messages => (Overtakable(m)' <=> \E r \in Runs : Shows(work'[r], m))
<1>1. \A r \in Runs : work'[r] \in Tasks BY DEF ThreadTypeOK
<1>2. \A r \in Runs :
        /\ work'[r] \in ChangeRuns <=> work'[r].op \in ThreadOps
        /\ work'[r] = Free <=> work'[r].op = "none"
        /\ work'[r].pc \in {"cache", "listed", "show"} => work'[r] \in ReadRuns
  BY <1>1, TaskSets
<1>3. \A r : r \in Pending' <=> r \in Runs /\ work'[r] # Free BY DEF Pending
<1>4. \A r : r \in Sending' <=> r \in Runs /\ work'[r] \in ChangeRuns /\ work'[r].op = "post" /\ work'[r].own
  BY <1>2, <1>3 DEF Sending, ThreadOps
<1>5. \A w \in ReadRuns : w # Free BY FreeTask
<1>6. m \in Messages => (Overtakable(m)' <=> \E r \in Runs : Shows(work'[r], m))
  BY <1>2, <1>3, <1>5 DEF Overtakable, Shows, In
<1>. QED BY <1>4, <1>6

LEMMA Turned ==
  ASSUME ThreadTypeOK, NEW r \in Runs, NEW w \in Tasks, Turn(r, w)
  PROVE  /\ work' \in [Runs -> Tasks] /\ work'[r] = w
         /\ \A q \in Runs \ {r} : work'[q] = work[q]
BY DEF ThreadTypeOK, Turn

\* A change heard twice makes no difference.
LEMMA HeardAgain ==
  ASSUME NEW v \in Lists, NEW e \in Events, row \in Lists, Tells(e), Follows(v, e.msg)
  PROVE  Follows(WithChange(v, e), e.msg)
<1>0. /\ e.liked \in BOOLEAN
      /\ e.what = "post" \/ e.what = "edit" \/ e.what = "delete" \/ e.what = "like"
  BY DEF Events, ThreadOps
<1>1. /\ DOMAIN WithChange(v, e) = IF e.what = "post" THEN DOMAIN v \cup {e.msg} ELSE DOMAIN v
      /\ e.msg \in DOMAIN v =>
              WithChange(v, e)[e.msg] =
                CASE e.what = "post"   -> v[e.msg]
                  [] e.what = "edit"   -> [v[e.msg] EXCEPT !.edited = TRUE]
                  [] e.what = "delete" -> [v[e.msg] EXCEPT !.gone = TRUE]
                  [] e.what = "like"   -> [v[e.msg] EXCEPT !.liked = e.liked]
  BY ChangeList
<1>2. e.msg \in DOMAIN row /\ row[e.msg] \in Marks BY ListIff DEF Tells
<1>3. e.msg \in DOMAIN v => v[e.msg] \in Marks BY ListIff
<1>4. PICK x : x = row[e.msg] OBVIOUS
<1>5. PICK y : y = v[e.msg] OBVIOUS
<1>6. PICK z : z = WithChange(v, e)[e.msg] OBVIOUS
<1>7. /\ x \in Marks /\ (e.msg \in DOMAIN v => y \in Marks)
      /\ x.gone => (e.msg \in DOMAIN v => y.gone)
      /\ ~x.gone => e.msg \in DOMAIN v /\ y = x
  BY <1>2, <1>3, <1>4, <1>5 DEF Follows, Live
<1>8. /\ e.what = "post" => x = Fresh
      /\ e.what = "edit" => x.edited
      /\ e.what = "delete" => x.gone
      /\ e.what = "like" => x.liked = e.liked
  BY <1>4 DEF Tells
<1>9. CASE e.msg \in DOMAIN v
  <2>1. /\ e.what = "post" => z = y
        /\ e.what = "edit" => z = [y EXCEPT !.edited = TRUE]
        /\ e.what = "delete" => z = [y EXCEPT !.gone = TRUE]
        /\ e.what = "like" => z = [y EXCEPT !.liked = e.liked]
    BY <1>0, <1>1, <1>5, <1>6, <1>9
  <2>2. x.gone => z.gone
    BY <1>0, <1>7, <1>9, <2>1 DEF Marks
  <2>3. ASSUME ~x.gone PROVE z = x
    <3>1. y = x /\ x \in Marks BY <1>7, <2>3
    <3>2. CASE e.what = "post" BY <2>1, <3>1, <3>2
    <3>3. CASE e.what = "edit"
      <4>1. z = [x EXCEPT !.edited = TRUE] /\ x.edited = TRUE BY <1>8, <2>1, <3>1, <3>3 DEF Marks
      <4>2. [x EXCEPT !.edited = TRUE] = x BY <3>1, <4>1 DEF Marks
      <4>. QED BY <4>1, <4>2
    <3>4. CASE e.what = "delete" BY <1>8, <2>3, <3>4
    <3>5. CASE e.what = "like"
      <4>1. z = [x EXCEPT !.liked = e.liked] /\ x.liked = e.liked BY <1>8, <2>1, <3>1, <3>5
      <4>2. [x EXCEPT !.liked = e.liked] = x BY <3>1, <4>1 DEF Marks
      <4>. QED BY <4>1, <4>2
    <3>. QED BY <1>0, <3>2, <3>3, <3>4, <3>5
  <2>4. e.msg \in DOMAIN WithChange(v, e) BY <1>1, <1>9
  <2>. QED BY <1>2, <1>4, <1>6, <2>2, <2>3, <2>4 DEF Follows, Live
<1>10. CASE e.msg \notin DOMAIN v
  <2>1. x.gone BY <1>7, <1>10
  <2>2. e.what # "post" BY <1>8, <2>1, FreshMarks
  <2>3. e.msg \notin DOMAIN WithChange(v, e) BY <1>1, <1>10, <2>2
  <2>. QED BY <1>2, <1>4, <2>1, <2>3 DEF Follows, Live
<1>. QED BY <1>9, <1>10

\* What follows its message settles whatever is under way.
LEMMA FollowsSettles ==
  ASSUME ThreadTypeOK, NEW v \in Lists, NEW m, CastTells(m), Follows(v, m)
  PROVE  ThreadSettled(v, m)
<1>1. ASSUME NEW e \in due \cup air, e.msg = m PROVE Follows(WithChange(v, e), m)
  <2>1. e \in Events /\ row \in Lists BY DEF ThreadTypeOK
  <2>2. Tells(e) BY <1>1 DEF CastTells
  <2>3. Follows(v, e.msg) BY <1>1
  <2>4. Follows(WithChange(v, e), e.msg) BY <2>1, <2>2, <2>3, HeardAgain
  <2>. QED BY <1>1, <2>4
<1>. QED BY <1>1 DEF ThreadSettled

-----------------------------------------------------------------------------
(* Steps that neither ask for a change nor write one.                       *)

\* What becomes of a call: it stays, ends, loads, or goes on with its change.
Loading(q) ==
  /\ work'[q] \in ReadRuns
  /\ KnownList(work'[q].got)
  /\ ~strayed' => \A m \in Messages \ loose' :
       ChatOf[m] \in Hosted /\ Shows(work'[q], m) => Follows(work'[q].got, m)
ThreadChanging(q) ==
  /\ work[q] \in ChangeRuns /\ work'[q] \in ChangeRuns
  /\ work'[q].op = work[q].op /\ work'[q].msg = work[q].msg
  /\ work'[q].chat = work[q].chat /\ work'[q].got = work[q].got
  /\ TaskOK(work'[q])
  /\ work[q].pc # "answer" /\ (work[q].chat \in Hosted => work'[q].pc # "answer")
GoesOn(q) == work'[q] = work[q] \/ work'[q] = Free \/ Loading(q) \/ ThreadChanging(q)

\* A message that the views need not follow before may have to when nothing moves it.
SettledOnly == \A m \in Messages \ loose' : m \notin loose \/ (~Moving(m) /\ ~Overtakable(m)')

Quiet ==
  /\ work' \in [Runs -> Tasks] /\ \A q \in Runs : GoesOn(q)
  /\ row' = row /\ due' \cup air' \subseteq due \cup air
  /\ view' \in Lists /\ KnownList(view')
  /\ picked' \in Chats \cup {Nobody} /\ link' \in {"none", "connecting", "open"}
  /\ loose' \subseteq Messages /\ SettledOnly
  /\ strayed' \in BOOLEAN /\ (strayed => strayed')

LEMMA QuietTouches ==
  ASSUME ThreadTypeOK, NEW q \in Runs, GoesOn(q), work'[q] \in ChangeRuns
  PROVE  /\ work[q] \in ChangeRuns
         /\ work'[q].op = work[q].op /\ work'[q].msg = work[q].msg /\ work'[q].chat = work[q].chat
         /\ work'[q] = work[q] \/ ThreadChanging(q)
<1>1. Free \notin ChangeRuns BY FreeTask
<1>2. ASSUME Loading(q) PROVE FALSE
  <2>1. work'[q] \in ReadRuns BY <1>2 DEF Loading
  <2>. QED BY <2>1, TaskSets DEF Tasks, ReadRuns, LoadOps, ChangeRuns, ThreadOps
<1>. QED BY <1>1, <1>2 DEF GoesOn, ThreadChanging

LEMMA QuietBase ==
  ASSUME Base, Quiet
  PROVE  Base'
<1>0. row' = row BY DEF Quiet
<1>1. ThreadTypeOK' BY DEF Base, ThreadTypeOK, Quiet
<1>2. ASSUME NEW q \in Runs PROVE TaskOK(work[q])'
  <2>1. TaskOK(work[q]) /\ GoesOn(q) BY DEF Base, Quiet
  <2>2. CASE work'[q] = work[q] BY <1>0, <2>1, <2>2 DEF TaskOK, KnownList
  <2>3. CASE work'[q] = Free BY <2>3, FreeTask DEF TaskOK
  <2>4. CASE Loading(q)
    <3>1. work'[q] \in ReadRuns /\ KnownList(work'[q].got) BY <2>4 DEF Loading
    <3>2. work'[q] \notin ChangeRuns BY <3>1 DEF ReadRuns, LoadOps, ChangeRuns, ThreadOps
    <3>. QED BY <1>0, <3>1, <3>2 DEF TaskOK, KnownList
  <2>5. CASE ThreadChanging(q)
    <3>1. TaskOK(work'[q]) BY <2>5 DEF ThreadChanging
    <3>. QED BY <1>0, <3>1 DEF TaskOK, KnownList
  <2>. QED BY <2>1, <2>2, <2>3, <2>4, <2>5 DEF GoesOn
<1>3. PostsApart'
  <2>1. SUFFICES ASSUME NEW r \in Runs, NEW q \in Runs,
                        work'[r] \in ChangeRuns, work'[r].op = "post",
                        work'[q] \in ChangeRuns, work'[q].op = "post", work'[r].msg = work'[q].msg
                 PROVE  r = q
    BY DEF PostsApart
  <2>2. GoesOn(r) /\ GoesOn(q) /\ ThreadTypeOK BY DEF Quiet, Base
  <2>3. work[r] \in ChangeRuns /\ work'[r].op = work[r].op /\ work'[r].msg = work[r].msg
    BY <2>1, <2>2, QuietTouches
  <2>4. work[q] \in ChangeRuns /\ work'[q].op = work[q].op /\ work'[q].msg = work[q].msg
    BY <2>1, <2>2, QuietTouches
  <2>. QED BY <2>1, <2>3, <2>4 DEF Base, PostsApart
<1>4. (\A e \in due \cup air : e.msg \in DOMAIN row)' BY <1>0 DEF Base, Quiet
<1>5. KnownList(view)' BY <1>0 DEF Quiet, KnownList
<1>. QED BY <1>1, <1>2, <1>3, <1>4, <1>5 DEF Base

LEMMA QuietStep ==
  ASSUME ThreadInv, Quiet
  PROVE  ThreadInv'
<1>0. Base /\ ThreadTypeOK BY DEF ThreadInv, Base
<1>1. Base' BY <1>0, QuietBase
<1>2. SUFFICES ASSUME ~strayed'
               PROVE  (AtHome /\ \A m \in Messages \ loose : ChatOf[m] \in Hosted => MessageOK(m))'
  BY <1>1 DEF ThreadInv
<1>3. ~strayed /\ row' = row /\ due' \cup air' \subseteq due \cup air
  BY <1>0, <1>2 DEF Quiet, ThreadTypeOK
<1>4. AtHome /\ \A m \in Messages \ loose : ChatOf[m] \in Hosted => MessageOK(m)
  BY <1>3 DEF ThreadInv
<1>5. ASSUME NEW q \in Runs, work'[q] \in ChangeRuns
      PROVE  /\ work[q] \in ChangeRuns
             /\ work'[q].msg = work[q].msg /\ work'[q].chat = work[q].chat
             /\ work'[q] = work[q] \/ ThreadChanging(q)
  BY <1>0, <1>5, QuietTouches DEF Quiet
<1>6. AtHome' BY <1>4, <1>5 DEF AtHome
<1>7. ASSUME NEW m \in Messages \ loose', ChatOf[m] \in Hosted PROVE MessageOK(m)'
  <2>1. ASSUME NEW q \in Runs, Touches(work'[q], m)
        PROVE  Touches(work[q], m) /\ (work'[q] = work[q] \/ ThreadChanging(q))
    BY <1>5, <2>1 DEF Touches
  <2>2. ASSUME NEW q \in Runs, Shows(work'[q], m)
        PROVE  (Shows(work[q], m) /\ work'[q] = work[q]) \/ Follows(work'[q].got, m)
    <3>1. GoesOn(q) /\ work'[q] \in ReadRuns BY <2>2 DEF Quiet, Shows
    <3>2. ~ThreadChanging(q) /\ work'[q] # Free
      BY <3>1, FreeTask DEF ThreadChanging, ChangeRuns, ReadRuns, ThreadOps, LoadOps
    <3>. QED BY <1>2, <1>7, <2>2, <3>1, <3>2 DEF GoesOn, Loading
  <2>3. CASE m \notin loose
    <3>1. OneCall(m) /\ OneCast(m) /\ CastTells(m) /\ CallTells(m) /\ ListTells(m)
      BY <1>4, <1>7, <2>3 DEF MessageOK
    <3>2. OneCall(m)' BY <2>1, <3>1 DEF OneCall
    <3>3. OneCast(m)' BY <1>3, <3>1 DEF OneCast
    <3>4. CastTells(m)' BY <1>3, <3>1 DEF CastTells, Tells
    <3>5. CallTells(m)'
      <4>1. SUFFICES ASSUME NEW r \in Runs, Touches(work'[r], m)
                     PROVE  /\ work'[r].pc = "answer" => Tells(Event(work[r]))'
                            /\ \A e \in due' \cup air' : e.msg = m =>
                                 work'[r].pc = "answer" /\ e = Event(work[r])'
        BY DEF CallTells, Touches
      <4>2. Touches(work[r], m) /\ (work'[r] = work[r] \/ ThreadChanging(r)) BY <2>1, <4>1
      <4>3. CASE work'[r] = work[r]
        BY <1>3, <3>1, <4>2, <4>3 DEF CallTells, Tells, Event
      <4>4. CASE ThreadChanging(r)
        <5>1. work[r].chat \in Hosted /\ work[r].pc # "answer"
          BY <1>4, <1>7, <4>2, <4>4 DEF AtHome, Touches, ThreadChanging
        <5>2. work'[r].pc # "answer" BY <4>4, <5>1 DEF ThreadChanging
        <5>3. \A e \in due \cup air : e.msg # m BY <3>1, <4>2, <5>1 DEF CallTells
        <5>. QED BY <1>3, <5>2, <5>3
      <4>. QED BY <4>2, <4>3, <4>4
    <3>6. ListTells(m)'
      <4>1. SUFFICES ASSUME NEW r \in Runs, Shows(work'[r], m)
                     PROVE  Follows(work[r].got, m)'
        BY DEF ListTells, Shows
      <4>2. Follows(work'[r].got, m) BY <2>2, <3>1, <4>1 DEF ListTells
      <4>. QED BY <1>3, <4>2 DEF Follows, Live
    <3>. QED BY <3>2, <3>3, <3>4, <3>5, <3>6 DEF MessageOK
  <2>4. CASE ~Moving(m) /\ ~Overtakable(m)'
    <3>0. ThreadTypeOK' BY <1>1 DEF Base
    <3>1. \A r \in Runs : ~Touches(work[r], m) BY <1>0, <2>4, PendingSets DEF Moving
    <3>2. \A e \in due \cup air : e.msg # m BY <2>4 DEF Moving
    <3>3. \A r \in Runs : ~Shows(work'[r], m) BY <2>4, <3>0, PendingSetsNext
    <3>4. \A r \in Runs : ~Touches(work'[r], m) BY <2>1, <3>1
    <3>5. OneCall(m)' BY <3>4 DEF OneCall, Touches
    <3>6. OneCast(m)' /\ CastTells(m)' BY <1>3, <3>2 DEF OneCast, CastTells
    <3>7. CallTells(m)' BY <3>4 DEF CallTells, Touches
    <3>8. ListTells(m)' BY <3>3 DEF ListTells, Shows
    <3>. QED BY <3>5, <3>6, <3>7, <3>8 DEF MessageOK
  <2>. QED BY <1>7, <2>3, <2>4 DEF Quiet, SettledOnly
<1>. QED BY <1>6, <1>7

-----------------------------------------------------------------------------
(* A change is asked for.                                                   *)

LEMMA AskEffect ==
  ASSUME ThreadTypeOK, NEW r \in Runs, NEW op \in ThreadOps, NEW m \in Messages,
         NEW own \in BOOLEAN, Ask(r, op, m, own), own => picked \in Chats
  PROVE  /\ work[r] = Free /\ work' \in [Runs -> Tasks] /\ work'[r] \in ChangeRuns
         /\ work'[r].op = op /\ work'[r].pc = "asked" /\ work'[r].msg = m /\ work'[r].own = own
         /\ work'[r].chat = (IF own THEN picked ELSE ChatOf[m])
         /\ work'[r].got = (IF own /\ op = "post" THEN view ELSE Nothing)
         /\ \A q \in Runs \ {r} : work'[q] = work[q]
         /\ loose' = IF Moving(m) THEN loose \cup {m} ELSE loose
         /\ loose' \subseteq Messages
<1>1. PICK c : c = IF own THEN picked ELSE ChatOf[m] OBVIOUS
<1>2. PICK v : v = IF own /\ op = "post" THEN view ELSE Nothing OBVIOUS
<1>3. c \in Chats BY <1>1, ThreadAssumption
<1>4. v \in Lists BY <1>2, NothingList DEF ThreadTypeOK
<1>5. PICK w : w = [Task(op, "asked", c, m, own) EXCEPT !.got = v] OBVIOUS
<1>6. /\ w \in ChangeRuns /\ w.op = op /\ w.pc = "asked" /\ w.msg = m /\ w.own = own
      /\ w.chat = c /\ w.got = v
  BY <1>3, <1>4, <1>5 DEF Task, ChangeRuns
<1>7. Turn(r, w) /\ work[r].pc = "free" BY <1>1, <1>2, <1>5 DEF Ask, Doing
<1>8. w \in Tasks BY <1>6 DEF Tasks
<1>9. /\ work' \in [Runs -> Tasks] /\ work'[r] = w
      /\ \A q \in Runs \ {r} : work'[q] = work[q]
  BY <1>7, <1>8, Turned
<1>10. work[r] = Free BY <1>7, TaskSets DEF ThreadTypeOK
<1>11. loose' = IF Moving(m) THEN loose \cup {m} ELSE loose BY DEF Ask
<1>12. loose' \subseteq Messages BY <1>11 DEF ThreadTypeOK
<1>. QED BY <1>1, <1>2, <1>6, <1>9, <1>10, <1>11, <1>12

LEMMA AskStep ==
  ASSUME ThreadInv, NEW r \in Runs, NEW op \in ThreadOps, NEW m \in Messages,
         NEW own \in BOOLEAN, Ask(r, op, m, own), own => picked \in Chats,
         own \/ ChatOf[m] \in Hosted, own /\ op = "post" => ChatOf[m] = picked,
         UNCHANGED <<row, due, air, picked, link, view>>,
         strayed' \in BOOLEAN, strayed => strayed',
         own /\ ~strayed' => ChatOf[m] = picked
  PROVE  ThreadInv'
<1>0. Base /\ ThreadTypeOK BY DEF ThreadInv, Base
<1>1. /\ work[r] = Free /\ work' \in [Runs -> Tasks] /\ work'[r] \in ChangeRuns
      /\ work'[r].op = op /\ work'[r].pc = "asked" /\ work'[r].msg = m /\ work'[r].own = own
      /\ work'[r].chat = (IF own THEN picked ELSE ChatOf[m])
      /\ work'[r].got = (IF own /\ op = "post" THEN view ELSE Nothing)
      /\ \A q \in Runs \ {r} : work'[q] = work[q]
      /\ loose' = IF Moving(m) THEN loose \cup {m} ELSE loose
      /\ loose' \subseteq Messages
  BY <1>0, AskEffect
<1>2. row' = row /\ due' = due /\ air' = air /\ view' = view OBVIOUS
<1>3. op = "post" => m \notin DOMAIN row /\ Touching(m) = {} BY DEF Ask
<1>4. \A q \in Runs : q \in Touching(m) <=> Touches(work[q], m) BY <1>0, PendingSets
<1>5. Base'
  <2>1. ThreadTypeOK' BY <1>0, <1>1, <1>2 DEF ThreadTypeOK
  <2>2. ASSUME NEW q \in Runs PROVE TaskOK(work[q])'
    <3>1. CASE q # r BY <1>0, <1>1, <1>2, <3>1 DEF Base, TaskOK, KnownList
    <3>2. CASE q = r
      <4>1. KnownList(work'[r].got)
        BY <1>0, <1>1, NothingList DEF Base, KnownList
      <4>2. op = "post" => ChatOf[m] = work'[r].chat BY <1>1
      <4>. QED BY <1>1, <1>2, <1>3, <3>2, <4>1, <4>2 DEF TaskOK, KnownList
    <3>. QED BY <3>1, <3>2
  <2>3. PostsApart'
    <3>1. ASSUME NEW q \in Runs, q # r, work'[q] \in ChangeRuns, work'[q].op = "post", op = "post"
          PROVE  work'[q].msg # m
      BY <1>1, <1>3, <1>4, <3>1 DEF Touches
    <3>2. ASSUME NEW p \in Runs, NEW q \in Runs,
                 work'[p] \in ChangeRuns, work'[p].op = "post",
                 work'[q] \in ChangeRuns, work'[q].op = "post", work'[p].msg = work'[q].msg
          PROVE  p = q
      <4>1. CASE p = r BY <1>1, <3>1, <3>2, <4>1
      <4>2. CASE q = r BY <1>1, <3>1, <3>2, <4>2
      <4>3. CASE p # r /\ q # r BY <1>0, <1>1, <3>2, <4>3 DEF Base, PostsApart
      <4>. QED BY <4>1, <4>2, <4>3
    <3>. QED BY <3>2 DEF PostsApart
  <2>4. (\A e \in due \cup air : e.msg \in DOMAIN row)' BY <1>0, <1>2 DEF Base
  <2>5. KnownList(view)' BY <1>0, <1>2 DEF Base, KnownList
  <2>. QED BY <2>1, <2>2, <2>3, <2>4, <2>5 DEF Base
<1>6. SUFFICES ASSUME ~strayed'
               PROVE  (AtHome /\ \A n \in Messages \ loose : ChatOf[n] \in Hosted => MessageOK(n))'
  BY <1>5 DEF ThreadInv
<1>7. AtHome /\ \A n \in Messages \ loose : ChatOf[n] \in Hosted => MessageOK(n)
  BY <1>0, <1>6 DEF ThreadInv, ThreadTypeOK
<1>8. AtHome' BY <1>1, <1>6, <1>7 DEF AtHome
<1>9. ASSUME NEW n \in Messages \ loose', ChatOf[n] \in Hosted PROVE MessageOK(n)'
  <2>1. n \notin loose BY <1>1, <1>9
  <2>2. OneCall(n) /\ OneCast(n) /\ CastTells(n) /\ CallTells(n) /\ ListTells(n)
    BY <1>7, <1>9, <2>1 DEF MessageOK
  <2>3. n = m => ~Moving(m) BY <1>1, <1>9
  <2>4. n = m => \A q \in Runs : ~Touches(work[q], m) BY <1>4, <2>3 DEF Moving
  <2>5. n = m => \A e \in due \cup air : e.msg # n BY <2>3 DEF Moving
  <2>6. Touches(work'[r], n) <=> n = m BY <1>1 DEF Touches
  <2>7. ~Shows(work'[r], n) BY <1>1 DEF Shows
  <2>8. OneCall(n)'
    <3>1. ASSUME NEW p \in Runs, NEW q \in Runs, Touches(work'[p], n), Touches(work'[q], n) PROVE p = q
      <4>1. CASE p = r BY <1>1, <2>4, <2>6, <3>1, <4>1
      <4>2. CASE q = r BY <1>1, <2>4, <2>6, <3>1, <4>2
      <4>3. CASE p # r /\ q # r BY <1>1, <2>2, <3>1, <4>3 DEF OneCall
      <4>. QED BY <4>1, <4>2, <4>3
    <3>. QED BY <3>1 DEF OneCall, Touches
  <2>9. OneCast(n)' /\ CastTells(n)' BY <1>2, <2>2 DEF OneCast, CastTells, Tells
  <2>10. CallTells(n)'
    <3>1. ASSUME NEW q \in Runs, Touches(work'[q], n)
          PROVE  /\ work'[q].pc = "answer" => Tells(Event(work[q]))'
                 /\ \A e \in due' \cup air' : e.msg = n => work'[q].pc = "answer" /\ e = Event(work[q])'
      <4>1. CASE q = r BY <1>1, <1>2, <2>5, <2>6, <3>1, <4>1
      <4>2. CASE q # r
        <5>1. work'[q] = work[q] BY <1>1, <4>2
        <5>. QED BY <1>2, <2>2, <3>1, <5>1 DEF CallTells, Tells, Event
      <4>. QED BY <4>1, <4>2
    <3>. QED BY <3>1 DEF CallTells, Touches
  <2>11. ListTells(n)'
    <3>1. ASSUME NEW q \in Runs, Shows(work'[q], n) PROVE Follows(work[q].got, n)'
      <4>1. q # r BY <2>7, <3>1
      <4>2. work'[q] = work[q] BY <1>1, <4>1
      <4>. QED BY <1>2, <2>2, <3>1, <4>2 DEF ListTells, Follows, Live
    <3>. QED BY <3>1 DEF ListTells, Shows
  <2>. QED BY <2>8, <2>9, <2>10, <2>11 DEF MessageOK
<1>. QED BY <1>8, <1>9

-----------------------------------------------------------------------------
(* A change is written.                                                     *)

LEMMA WriteEffect ==
  ASSUME Base, NEW r \in Runs, WriteChange(r)
  PROVE  /\ work[r] \in ChangeRuns /\ work[r].pc = "write" /\ work[r].chat \in Hosted
         /\ work[r].op # "post" => work[r].msg \in DOMAIN row
         /\ work[r].op = "post" => work[r].msg \notin DOMAIN row
         /\ Event(work[r]) \in Events /\ Event(work[r]).msg = work[r].msg
         /\ row' \in Lists /\ DOMAIN row' = DOMAIN row \cup {work[r].msg}
         /\ \A n \in DOMAIN row \ {work[r].msg} : row'[n] = row[n]
         /\ work[r].op = "post" => row'[work[r].msg] = Fresh
         /\ work[r].op = "edit" => row'[work[r].msg] = [row[work[r].msg] EXCEPT !.edited = TRUE]
         /\ work[r].op = "delete" => row'[work[r].msg] = [row[work[r].msg] EXCEPT !.gone = TRUE]
         /\ work[r].op = "like" => row'[work[r].msg] = [row[work[r].msg] EXCEPT !.liked = work[r].liked]
         /\ due' = due \cup {Event(work[r])} /\ air' = air
         /\ work' \in [Runs -> Tasks] /\ \A q \in Runs \ {r} : work'[q] = work[q]
         /\ work'[r] # Free =>
              /\ work'[r] \in ChangeRuns /\ work'[r].op = work[r].op /\ work'[r].pc = "answer"
              /\ work'[r].msg = work[r].msg /\ work'[r].chat = work[r].chat
              /\ work'[r].got = work[r].got /\ work'[r].own /\ work[r].own
              /\ Event(work'[r]) = Event(work[r])
         /\ loose' = IF Overtakable(work[r].msg) THEN loose \cup {work[r].msg} ELSE loose
         /\ UNCHANGED <<picked, link, view, strayed>>
<1>0. ThreadTypeOK BY DEF Base
<1>1. PICK w : w = work[r] OBVIOUS
<1>2. w.pc = "write" /\ w \in Tasks /\ TaskOK(w) BY <1>0, <1>1 DEF WriteChange, ThreadTypeOK, Base
<1>3. w \in ChangeRuns BY <1>2, TaskSets
<1>4. w.chat \in Hosted /\ (w.op # "post" => w.msg \in DOMAIN row) /\ (w.op = "post" => w.msg \notin DOMAIN row)
  BY <1>2, <1>3 DEF TaskOK
<1>5. Event(w) \in Events /\ Event(w).msg = w.msg BY <1>3 DEF Event, Events, ChangeRuns
<1>6. row \in Lists BY <1>0 DEF ThreadTypeOK
<1>7. /\ Written(w) \in Lists /\ DOMAIN Written(w) = DOMAIN row \cup {w.msg}
      /\ \A n \in DOMAIN row \ {w.msg} : Written(w)[n] = row[n]
      /\ Written(w)[w.msg] =
                CASE w.op = "post"   -> Fresh
                  [] w.op = "edit"   -> [row[w.msg] EXCEPT !.edited = TRUE]
                  [] w.op = "delete" -> [row[w.msg] EXCEPT !.gone = TRUE]
                  [] w.op = "like"   -> [row[w.msg] EXCEPT !.liked = w.liked]
  BY <1>3, <1>4, <1>6, WriteList
<1>8. row' = Written(w) BY <1>1 DEF WriteChange
<1>9. /\ w.op = "post" => row'[w.msg] = Fresh
      /\ w.op = "edit" => row'[w.msg] = [row[w.msg] EXCEPT !.edited = TRUE]
      /\ w.op = "delete" => row'[w.msg] = [row[w.msg] EXCEPT !.gone = TRUE]
      /\ w.op = "like" => row'[w.msg] = [row[w.msg] EXCEPT !.liked = w.liked]
  BY <1>7, <1>8
<1>10. due' = due \cup {Event(w)} /\ air' = air BY <1>1 DEF WriteChange, ToCast
<1>11. PICK x : x = IF w.own THEN [w EXCEPT !.pc = "answer"] ELSE Free OBVIOUS
<1>12. Turn(r, x) BY <1>1, <1>11 DEF WriteChange
<1>13. x # Free => /\ x \in ChangeRuns /\ x.op = w.op /\ x.pc = "answer" /\ x.msg = w.msg
                   /\ x.chat = w.chat /\ x.got = w.got /\ x.own /\ w.own /\ x.liked = w.liked
  BY <1>3, <1>11 DEF ChangeRuns
<1>14. x \in Tasks BY <1>13, FreeTask DEF Tasks
<1>15. /\ work' \in [Runs -> Tasks] /\ work'[r] = x
       /\ \A q \in Runs \ {r} : work'[q] = work[q]
  BY <1>0, <1>12, <1>14, Turned
<1>16. x # Free => Event(x) = Event(w) BY <1>13 DEF Event
<1>17. loose' = IF Overtakable(w.msg) THEN loose \cup {w.msg} ELSE loose BY <1>1 DEF WriteChange
<1>18. UNCHANGED <<picked, link, view, strayed>> BY DEF WriteChange
<1>. QED BY <1>1, <1>2, <1>3, <1>4, <1>5, <1>7, <1>8, <1>9, <1>10, <1>13, <1>15, <1>16, <1>17, <1>18

\* The row is then as the change tells.
LEMMA WriteTells ==
  ASSUME Base, NEW r \in Runs, WriteChange(r), NEW e, e = Event(work[r])
  PROVE  Tells(e)'
<1>2. e.what = work[r].op /\ e.msg = work[r].msg /\ e.liked = work[r].liked BY DEF Event
<1>3. /\ DOMAIN row' = DOMAIN row \cup {work[r].msg}
      /\ work[r].op # "post" => work[r].msg \in DOMAIN row
      /\ work[r].op = "post" => row'[work[r].msg] = Fresh
      /\ work[r].op = "edit" => row'[work[r].msg] = [row[work[r].msg] EXCEPT !.edited = TRUE]
      /\ work[r].op = "delete" => row'[work[r].msg] = [row[work[r].msg] EXCEPT !.gone = TRUE]
      /\ work[r].op = "like" => row'[work[r].msg] = [row[work[r].msg] EXCEPT !.liked = work[r].liked]
  BY WriteEffect
<1>4. work[r].op # "post" => row[work[r].msg] \in Marks BY <1>3, ListIff DEF Base, ThreadTypeOK
<1>5. /\ e.msg \in DOMAIN row'
      /\ e.what = "post" => row'[e.msg] = Fresh
      /\ e.what = "edit" => row'[e.msg].edited
      /\ e.what = "delete" => row'[e.msg].gone
      /\ e.what = "like" => row'[e.msg].liked = e.liked
  BY <1>2, <1>3, <1>4 DEF Marks
<1>. QED BY <1>5 DEF Tells

\* A list that had the message as it was has it as it is once the change is heard.
LEMMA WriteSettles ==
  ASSUME Base, NEW r \in Runs, WriteChange(r), NEW e, e = Event(work[r]),
         NEW v \in Lists, KnownList(v), ChatOf[e.msg] \in Hosted, Follows(v, e.msg)
  PROVE  Follows(WithChange(v, e), e.msg)'
<1>1. e.what = work[r].op /\ e.msg = work[r].msg /\ e.liked = work[r].liked BY DEF Event
<1>2. /\ work[r] \in ChangeRuns /\ Event(work[r]) \in Events
      /\ DOMAIN row' = DOMAIN row \cup {work[r].msg}
      /\ work[r].op # "post" => work[r].msg \in DOMAIN row
      /\ work[r].op = "post" => work[r].msg \notin DOMAIN row
      /\ work[r].op = "post" => row'[work[r].msg] = Fresh
      /\ work[r].op = "edit" => row'[work[r].msg] = [row[work[r].msg] EXCEPT !.edited = TRUE]
      /\ work[r].op = "delete" => row'[work[r].msg] = [row[work[r].msg] EXCEPT !.gone = TRUE]
      /\ work[r].op = "like" => row'[work[r].msg] = [row[work[r].msg] EXCEPT !.liked = work[r].liked]
  BY WriteEffect
<1>3. e \in Events BY <1>2
<1>4. e.what \in {"post", "edit", "delete", "like"} BY <1>3 DEF Events, ThreadOps
<1>5. /\ DOMAIN WithChange(v, e) = IF e.what = "post" THEN DOMAIN v \cup {e.msg} ELSE DOMAIN v
      /\ e.msg \in DOMAIN v =>
           WithChange(v, e)[e.msg] =
             CASE e.what = "post"   -> v[e.msg]
               [] e.what = "edit"   -> [v[e.msg] EXCEPT !.edited = TRUE]
               [] e.what = "delete" -> [v[e.msg] EXCEPT !.gone = TRUE]
               [] e.what = "like"   -> [v[e.msg] EXCEPT !.liked = e.liked]
      /\ e.msg \notin DOMAIN v /\ e.what = "post" => WithChange(v, e)[e.msg] = Fresh
  BY <1>3, ChangeList
<1>6. CASE e.what = "post"
  <2>1. e.msg \notin DOMAIN v BY <1>1, <1>2, <1>6 DEF KnownList
  <2>2. e.msg \in DOMAIN WithChange(v, e) /\ WithChange(v, e)[e.msg] = Fresh
    BY <1>5, <1>6, <2>1
  <2>3. e.msg \in DOMAIN row' /\ row'[e.msg] = Fresh BY <1>1, <1>2, <1>6
  <2>4. ~Fresh.gone BY FreshMarks
  <2>. QED BY <2>2, <2>3, <2>4 DEF Follows, Live
<1>7. CASE e.what # "post"
  <2>1. e.msg \in DOMAIN row /\ row[e.msg] \in Marks BY <1>1, <1>2, <1>7, ListIff DEF Base, ThreadTypeOK
  <2>2. DOMAIN WithChange(v, e) = DOMAIN v BY <1>5, <1>7
  <2>3. PICK x : x = row[e.msg] OBVIOUS
  <2>4. PICK y : y = v[e.msg] OBVIOUS
  <2>5. PICK x1 : x1 = row'[e.msg] OBVIOUS
  <2>6. PICK y1 : y1 = WithChange(v, e)[e.msg] OBVIOUS
  <2>7. e.msg \in DOMAIN v => y \in Marks BY <2>4, ListIff
  <2>8. /\ ~x.gone => e.msg \in DOMAIN v /\ y = x
        /\ x.gone /\ e.msg \in DOMAIN v => y.gone
    BY <2>1, <2>3, <2>4 DEF Follows, Live
  <2>9. /\ e.what = "edit" => x1 = [x EXCEPT !.edited = TRUE]
        /\ e.what = "delete" => x1 = [x EXCEPT !.gone = TRUE]
        /\ e.what = "like" => x1 = [x EXCEPT !.liked = e.liked]
    BY <1>1, <1>2, <2>3, <2>5
  <2>10. e.msg \in DOMAIN v =>
           /\ e.what = "edit" => y1 = [y EXCEPT !.edited = TRUE]
           /\ e.what = "delete" => y1 = [y EXCEPT !.gone = TRUE]
           /\ e.what = "like" => y1 = [y EXCEPT !.liked = e.liked]
    BY <1>5, <2>4, <2>6
  <2>11. x \in Marks BY <2>1, <2>3
  <2>12. ~x1.gone => e.msg \in DOMAIN v /\ y1 = x1
    <3>1. CASE e.what = "delete" BY <2>9, <2>11, <3>1 DEF Marks
    <3>2. CASE e.what = "edit" BY <2>8, <2>9, <2>10, <2>11, <3>2 DEF Marks
    <3>3. CASE e.what = "like" BY <2>8, <2>9, <2>10, <2>11, <3>3 DEF Marks
    <3>. QED BY <1>4, <1>7, <3>1, <3>2, <3>3
  <2>13. x1.gone /\ e.msg \in DOMAIN v => y1.gone
    <3>1. CASE e.what = "delete" BY <2>7, <2>10, <3>1 DEF Marks
    <3>2. CASE e.what = "edit" BY <2>7, <2>8, <2>9, <2>10, <2>11, <3>2 DEF Marks
    <3>3. CASE e.what = "like" BY <2>7, <2>8, <2>9, <2>10, <2>11, <3>3 DEF Marks
    <3>. QED BY <1>4, <1>7, <3>1, <3>2, <3>3
  <2>14. e.msg \in DOMAIN row' BY <1>1, <1>2
  <2>. QED BY <2>2, <2>5, <2>6, <2>12, <2>13, <2>14 DEF Follows, Live
<1>. QED BY <1>6, <1>7

LEMMA WriteStep ==
  ASSUME ThreadInv, NEW r \in Runs, WriteChange(r)
  PROVE  ThreadInv'
<1>0. Base /\ ThreadTypeOK BY DEF ThreadInv, Base
<1>1. PICK w : w = work[r] OBVIOUS
<1>2. PICK e : e = Event(work[r]) OBVIOUS
<1>3. /\ w \in ChangeRuns /\ w.pc = "write" /\ w.chat \in Hosted
      /\ w.op # "post" => w.msg \in DOMAIN row
      /\ w.op = "post" => w.msg \notin DOMAIN row
      /\ e \in Events /\ e.msg = w.msg
      /\ row' \in Lists /\ DOMAIN row' = DOMAIN row \cup {w.msg}
      /\ \A n \in DOMAIN row \ {w.msg} : row'[n] = row[n]
      /\ due' = due \cup {e} /\ air' = air
      /\ work' \in [Runs -> Tasks] /\ \A q \in Runs \ {r} : work'[q] = work[q]
      /\ work'[r] # Free =>
           /\ work'[r] \in ChangeRuns /\ work'[r].op = w.op /\ work'[r].pc = "answer"
           /\ work'[r].msg = w.msg /\ work'[r].chat = w.chat
           /\ work'[r].got = w.got /\ work'[r].own
           /\ Event(work'[r]) = e
      /\ loose' = IF Overtakable(w.msg) THEN loose \cup {w.msg} ELSE loose
      /\ UNCHANGED <<picked, link, view, strayed>>
  BY <1>0, <1>1, <1>2, WriteEffect
<1>4. Tells(e)' BY <1>0, <1>2, WriteTells
<1>5. w.msg \in Messages BY <1>3 DEF ChangeRuns
<1>6. ASSUME NEW v, KnownList(v) PROVE KnownList(v)' BY <1>3, <1>6 DEF KnownList
<1>7. Base'
  <2>1. ThreadTypeOK' BY <1>0, <1>3, <1>5 DEF ThreadTypeOK
  <2>2. ASSUME NEW q \in Runs PROVE TaskOK(work[q])'
    <3>1. CASE q # r
      <4>1. TaskOK(work[q]) /\ work'[q] = work[q] BY <1>0, <1>3, <3>1 DEF Base
      <4>2. work[q] # Free => KnownList(work[q].got)' BY <1>3, <4>1 DEF TaskOK, KnownList
      <4>3. ASSUME work[q] \in ChangeRuns, work[q].op = "post", work[q].pc # "answer"
            PROVE  work[q].msg \notin DOMAIN row'
        <5>1. work[q].msg \notin DOMAIN row BY <4>1, <4>3 DEF TaskOK
        <5>2. w.op = "post" => work[q].msg # w.msg
          BY <1>0, <1>1, <1>3, <3>1, <4>3 DEF Base, PostsApart
        <5>3. w.op # "post" => work[q].msg # w.msg BY <1>3, <5>1
        <5>. QED BY <1>3, <5>1, <5>2, <5>3
      <4>. QED BY <1>3, <4>1, <4>2, <4>3 DEF TaskOK, KnownList
    <3>2. CASE q = r /\ work'[r] = Free BY <3>2, FreeTask DEF TaskOK
    <3>3. CASE q = r /\ work'[r] # Free
      <4>1. TaskOK(w) BY <1>0, <1>1 DEF Base
      <4>2. KnownList(w.got) /\ (w.op = "post" => ChatOf[w.msg] = w.chat)
        BY <1>3, <4>1, FreeTask DEF TaskOK
      <4>3. KnownList(work[r].got)' BY <1>3, <3>3, <4>2 DEF KnownList
      <4>. QED BY <1>3, <3>3, <4>2, <4>3 DEF TaskOK
    <3>. QED BY <3>1, <3>2, <3>3
  <2>3. PostsApart'
    <3>1. \A q \in Runs : work'[q] \in ChangeRuns =>
             work[q] \in ChangeRuns /\ work'[q].op = work[q].op /\ work'[q].msg = work[q].msg
      BY <1>1, <1>3, FreeTask
    <3>. QED BY <1>0, <3>1 DEF Base, PostsApart
  <2>4. (\A f \in due \cup air : f.msg \in DOMAIN row)' BY <1>0, <1>3 DEF Base
  <2>5. KnownList(view)' BY <1>0, <1>3 DEF Base, KnownList
  <2>. QED BY <2>1, <2>2, <2>3, <2>4, <2>5 DEF Base
<1>8. SUFFICES ASSUME ~strayed
               PROVE  (AtHome /\ \A m \in Messages \ loose : ChatOf[m] \in Hosted => MessageOK(m))'
  BY <1>3, <1>7 DEF ThreadInv
<1>9. AtHome /\ \A m \in Messages \ loose : ChatOf[m] \in Hosted => MessageOK(m)
  BY <1>8 DEF ThreadInv
<1>10. AtHome' BY <1>1, <1>3, <1>9, FreeTask DEF AtHome
<1>11. ASSUME NEW m \in Messages \ loose', ChatOf[m] \in Hosted PROVE MessageOK(m)'
  <2>1. m \notin loose BY <1>3, <1>11
  <2>2. OneCall(m) /\ OneCast(m) /\ CastTells(m) /\ CallTells(m) /\ ListTells(m)
    BY <1>9, <1>11, <2>1 DEF MessageOK
  <2>3. ASSUME NEW q \in Runs, Touches(work'[q], m) PROVE Touches(work[q], m)
    BY <1>1, <1>3, <2>3, FreeTask DEF Touches
  <2>4. ASSUME NEW q \in Runs, Shows(work'[q], m) PROVE q # r /\ Shows(work[q], m) /\ work'[q] = work[q]
    <3>1. q # r
      <4>1. Free \notin ReadRuns BY FreeTask
      <4>. QED BY <1>3, <2>4, <4>1 DEF Shows
    <3>. QED BY <1>3, <2>4, <3>1
  <2>5. OneCall(m)' BY <2>2, <2>3 DEF OneCall
  <2>6. CASE m # w.msg
    <3>1. /\ m \in DOMAIN row' <=> m \in DOMAIN row
          /\ m \in DOMAIN row => row'[m] = row[m]
      BY <1>3, <2>6
    <3>2. \A f : f \in due' \cup air' /\ f.msg = m => f \in due \cup air BY <1>3, <2>6
    <3>3. OneCast(m)' BY <2>2, <3>2 DEF OneCast
    <3>4. CastTells(m)' BY <2>2, <3>1, <3>2 DEF CastTells, Tells
    <3>5. CallTells(m)'
      <4>1. ASSUME NEW q \in Runs, Touches(work'[q], m)
            PROVE  /\ work'[q].pc = "answer" => Tells(Event(work[q]))'
                   /\ \A f \in due' \cup air' : f.msg = m => work'[q].pc = "answer" /\ f = Event(work[q])'
        <5>1. Touches(work[q], m) BY <2>3, <4>1
        <5>2. q # r BY <1>1, <2>6, <5>1 DEF Touches
        <5>3. work'[q] = work[q] BY <1>3, <5>2
        <5>4. Event(work[q]).msg = m BY <5>1 DEF Touches, Event
        <5>. QED BY <2>2, <3>1, <3>2, <5>1, <5>3, <5>4 DEF CallTells, Tells, Event
      <4>. QED BY <4>1 DEF CallTells, Touches
    <3>6. ListTells(m)'
      <4>1. ASSUME NEW q \in Runs, Shows(work'[q], m) PROVE Follows(work[q].got, m)'
        BY <2>2, <2>4, <3>1, <4>1 DEF ListTells, Follows, Live
      <4>. QED BY <4>1 DEF ListTells, Shows
    <3>. QED BY <2>5, <3>3, <3>4, <3>5, <3>6 DEF MessageOK
  <2>7. CASE m = w.msg
    <3>1. Touches(work[r], m) BY <1>1, <1>3, <2>7 DEF Touches
    <3>2. \A f \in due \cup air : f.msg # m
      BY <1>1, <1>3, <2>2, <3>1 DEF CallTells
    <3>3. \A q \in Runs : Touches(work[q], m) => q = r BY <2>2, <3>1 DEF OneCall
    <3>4. \A f \in due' \cup air' : f.msg = m => f = e BY <1>3, <3>2
    <3>5. OneCast(m)' BY <3>4 DEF OneCast
    <3>6. CastTells(m)' BY <1>4, <3>4 DEF CastTells
    <3>7. CallTells(m)'
      <4>1. ASSUME NEW q \in Runs, Touches(work'[q], m)
            PROVE  /\ work'[q].pc = "answer" => Tells(Event(work[q]))'
                   /\ \A f \in due' \cup air' : f.msg = m => work'[q].pc = "answer" /\ f = Event(work[q])'
        <5>1. q = r BY <2>3, <3>3, <4>1
        <5>2. work'[r] # Free BY <4>1, <5>1, FreeTask DEF Touches
        <5>3. work'[r].pc = "answer" /\ Event(work'[r]) = e BY <1>3, <5>2
        <5>4. Event(work[r])' = e BY <5>3 DEF Event
        <5>5. Tells(Event(work[r]))' BY <1>4, <5>4 DEF Tells
        <5>. QED BY <3>4, <5>1, <5>3, <5>4, <5>5
      <4>. QED BY <4>1 DEF CallTells, Touches
    <3>8. ListTells(m)'
      <4>1. \A q \in Runs : ~Shows(work[q], m)
        BY <1>0, <1>3, <1>11, <2>7, PendingSets
      <4>. QED BY <2>4, <4>1 DEF ListTells, Shows
    <3>. QED BY <2>5, <3>5, <3>6, <3>7, <3>8 DEF MessageOK
  <2>. QED BY <2>6, <2>7
<1>. QED BY <1>10, <1>11

-----------------------------------------------------------------------------
(* The steps of the relay and of the socket, the same for both clients.       *)

\* A list that settles a message goes on settling it.
Carried ==
  ~strayed =>
    \A v \in Lists, m \in Messages \ loose' :
      ChatOf[m] \in Hosted /\ KnownList(v) /\ ThreadSettled(v, m) => ThreadSettled(v, m)'

\* Calls of the client stay what they are, and loads read the chat they name.
CallsKept ==
  \A q \in Runs :
    /\ work[q] \in ReadRuns => work'[q] \in ReadRuns
    /\ work'[q] \in ChangeRuns /\ work'[q].own =>
         /\ work[q] \in ChangeRuns /\ work[q].own /\ work'[q].op = work[q].op
         /\ work'[q].msg = work[q].msg /\ work'[q].chat = work[q].chat /\ work'[q].got = work[q].got
    /\ work'[q] \in ReadRuns =>
         /\ work[q] \in ReadRuns /\ work'[q].op = work[q].op
         /\ work'[q].chat = work[q].chat /\ work'[q].current = work[q].current
         /\ \/ work'[q].pc = work[q].pc /\ work'[q].got = work[q].got
            \/ work[q].pc = "asked" /\ work'[q].pc = "listed" /\ DOMAIN work'[q].got \subseteq In(work[q].chat)

Common ==
  /\ Carried /\ CallsKept
  /\ row' \in Lists /\ DOMAIN row \subseteq DOMAIN row'
  /\ loose \subseteq loose' /\ UNCHANGED <<picked, view, strayed>>
  /\ link' = "none" <=> link = "none"
  /\ \A e \in air' :
       \/ e \in air /\ (link = "open" => link' = "open")
       \/ link' = "open" /\ picked = ChatOf[e.msg]

LEMMA SameEvents ==
  ASSUME NEW v, NEW m, row' = row,
         \A e : e.msg = m => (e \in due' \cup air' <=> e \in due \cup air)
  PROVE  ThreadSettled(v, m)' <=> ThreadSettled(v, m)
<1>1. \A u : Follows(u, m)' <=> Follows(u, m) BY DEF Follows, Live
<1>. QED BY <1>1 DEF ThreadSettled

LEMMA NothingMoves ==
  ASSUME row' = row, due' = due, air' = air
  PROVE  Carried
<1>1. ASSUME NEW v, NEW m PROVE ThreadSettled(v, m)' <=> ThreadSettled(v, m) BY SameEvents
<1>. QED BY <1>1 DEF Carried

\* One call takes a step of its own: nothing of the others changes.
LEMMA ThreadTurn ==
  ASSUME ThreadTypeOK, NEW r \in Runs, NEW w \in Tasks, Turn(r, w),
         \A q \in Runs : work'[q] = w => GoesOn(q)
  PROVE  work' \in [Runs -> Tasks] /\ work'[r] = w /\ \A q \in Runs : GoesOn(q)
<1>1. /\ work' \in [Runs -> Tasks] /\ work'[r] = w
      /\ \A q \in Runs \ {r} : work'[q] = work[q]
  BY Turned
<1>. QED BY <1>1 DEF GoesOn

\* The handler of a change admits it, or answers that there is no such message.
LEMMA AdmitEffect ==
  ASSUME Base, NEW r \in Runs, AdmitPost(r) \/ AdmitChange(r) \/ AdmitLike(r)
  PROVE  /\ work[r] \in ChangeRuns /\ work[r].chat \in Hosted
         /\ work' \in [Runs -> Tasks] /\ \A q \in Runs \ {r} : work'[q] = work[q]
         /\ work'[r] # Free => ThreadChanging(r) /\ work'[r].own = work[r].own
<1>0. ThreadTypeOK BY DEF Base
<1>1. PICK w : w = work[r] OBVIOUS
<1>2. w.pc = "asked" /\ w.op \in ThreadOps /\ w.chat \in Hosted
  BY <1>1 DEF AdmitPost, AdmitChange, AdmitLike, Asked, Doing, ThreadOps
<1>3. w \in ChangeRuns /\ TaskOK(w) BY <1>0, <1>1, <1>2, TaskSets DEF ThreadTypeOK, Base
<1>4. \A x \in Tasks : Turn(r, x) =>
        /\ work' \in [Runs -> Tasks] /\ work'[r] = x
        /\ \A q \in Runs \ {r} : work'[q] = work[q]
  BY <1>0, Turned
<1>5. ASSUME NEW x, Turn(r, x), x \in ChangeRuns, x.op = w.op, x.msg = w.msg, x.chat = w.chat,
             x.got = w.got, x.own = w.own, x.pc = "write", w.op # "post" => Found(w)
      PROVE  /\ work' \in [Runs -> Tasks] /\ \A q \in Runs \ {r} : work'[q] = work[q]
             /\ ThreadChanging(r) /\ work'[r].own = work[r].own
  <2>1. /\ work' \in [Runs -> Tasks] /\ work'[r] = x
        /\ \A q \in Runs \ {r} : work'[q] = work[q]
    BY <1>4, <1>5 DEF Tasks
  <2>2. w.op # "post" => w.msg \in DOMAIN row BY <1>5 DEF Found, Live
  <2>3. TaskOK(x) BY <1>2, <1>3, <1>5, <2>2, FreeTask DEF TaskOK
  <2>. QED BY <1>1, <1>2, <1>3, <1>5, <2>1, <2>3 DEF ThreadChanging
<1>6. ASSUME Turn(r, Free)
      PROVE  /\ work' \in [Runs -> Tasks] /\ \A q \in Runs \ {r} : work'[q] = work[q]
             /\ work'[r] = Free
  BY <1>4, <1>6, FreeTask
<1>7. [w EXCEPT !.pc = "write"] \in ChangeRuns BY <1>3 DEF ChangeRuns
<1>8. CASE AdmitPost(r)
  <2>1. Turn(r, [w EXCEPT !.pc = "write"]) /\ w.op = "post" BY <1>1, <1>8 DEF AdmitPost, Asked
  <2>2. PICK x : x = [w EXCEPT !.pc = "write"] OBVIOUS
  <2>3. /\ x \in ChangeRuns /\ x.op = w.op /\ x.msg = w.msg /\ x.chat = w.chat
        /\ x.got = w.got /\ x.own = w.own /\ x.pc = "write"
    BY <1>3, <2>2 DEF ChangeRuns
  <2>. QED BY <1>1, <1>2, <1>3, <1>5, <2>1, <2>2, <2>3
<1>9. CASE AdmitChange(r)
  <2>1. Turn(r, IF Found(w) THEN [w EXCEPT !.pc = "write"] ELSE Free) BY <1>1, <1>9 DEF AdmitChange
  <2>2. PICK x : x = [w EXCEPT !.pc = "write"] OBVIOUS
  <2>3. /\ x \in ChangeRuns /\ x.op = w.op /\ x.msg = w.msg /\ x.chat = w.chat
        /\ x.got = w.got /\ x.own = w.own /\ x.pc = "write"
    BY <1>3, <2>2 DEF ChangeRuns
  <2>4. CASE Found(w) BY <1>1, <1>2, <1>3, <1>5, <2>1, <2>2, <2>3, <2>4
  <2>5. CASE ~Found(w) BY <1>1, <1>2, <1>3, <1>6, <2>1, <2>5
  <2>. QED BY <2>4, <2>5
<1>10. CASE AdmitLike(r)
  <2>0. PICK b : b = ~row[w.msg].liked OBVIOUS
  <2>1. Turn(r, IF Found(w) THEN [w EXCEPT !.pc = "write", !.liked = b] ELSE Free)
    BY <1>1, <1>10, <2>0 DEF AdmitLike
  <2>2. PICK x : x = [w EXCEPT !.pc = "write", !.liked = b] OBVIOUS
  <2>3. b \in BOOLEAN BY <2>0
  <2>4. /\ x \in ChangeRuns /\ x.op = w.op /\ x.msg = w.msg /\ x.chat = w.chat
        /\ x.got = w.got /\ x.own = w.own /\ x.pc = "write"
    BY <1>3, <2>2, <2>3 DEF ChangeRuns
  <2>5. CASE Found(w) BY <1>1, <1>2, <1>3, <1>5, <2>1, <2>2, <2>4, <2>5
  <2>6. CASE ~Found(w) BY <1>1, <1>2, <1>3, <1>6, <2>1, <2>6
  <2>. QED BY <2>5, <2>6
<1>. QED BY <1>8, <1>9, <1>10

LEMMA QuietFrame ==
  ASSUME Base, work' \in [Runs -> Tasks], \A q \in Runs : GoesOn(q),
         row' = row, due' \cup air' \subseteq due \cup air, loose \subseteq loose', loose' \subseteq Messages,
         UNCHANGED <<view, picked, strayed>>, link' \in {"none", "connecting", "open"}
  PROVE  Quiet
BY DEF Quiet, Base, ThreadTypeOK, SettledOnly

LEMMA AdmitStep ==
  ASSUME ThreadInv, NEW r \in Runs, AdmitPost(r) \/ AdmitChange(r) \/ AdmitLike(r)
  PROVE  ThreadInv' /\ Common
<1>0. Base /\ ThreadTypeOK BY DEF ThreadInv, Base
<1>1. /\ work[r] \in ChangeRuns /\ work[r].chat \in Hosted
      /\ work' \in [Runs -> Tasks] /\ \A q \in Runs \ {r} : work'[q] = work[q]
      /\ work'[r] # Free => ThreadChanging(r) /\ work'[r].own = work[r].own
  BY <1>0, AdmitEffect
<1>2. UNCHANGED threadVars BY DEF AdmitPost, AdmitChange, AdmitLike
<1>3. \A q \in Runs : GoesOn(q) BY <1>1 DEF GoesOn
<1>4. Quiet BY <1>0, <1>1, <1>2, <1>3, QuietFrame DEF threadVars, Base, ThreadTypeOK
<1>5. ThreadInv' BY <1>4, QuietStep
<1>6. Carried BY <1>2, NothingMoves DEF threadVars
<1>7. work'[r] # Free => work'[r] \in ChangeRuns /\ work'[r] \notin ReadRuns
  <2>1. ThreadChanging(r) => work'[r] \in ChangeRuns /\ work'[r].op \in ThreadOps BY DEF ThreadChanging, ChangeRuns
  <2>2. ThreadChanging(r) => work'[r] \notin ReadRuns BY <2>1 DEF ReadRuns, LoadOps, ThreadOps
  <2>. QED BY <1>1, <2>1, <2>2
<1>8. CallsKept BY <1>1, <1>7, FreeTask, Disjoint DEF CallsKept, ThreadChanging
<1>. QED BY <1>0, <1>2, <1>5, <1>6, <1>8 DEF Common, threadVars, Base, ThreadTypeOK

LEMMA ElsewhereStep ==
  ASSUME ThreadInv, NEW r \in Runs, NEW op \in ThreadOps, NEW m \in Messages,
         ElsewhereAsks(r, op, m)
  PROVE  ThreadInv' /\ Common
<1>0. Base /\ ThreadTypeOK BY DEF ThreadInv, Base
<1>1. /\ Ask(r, op, m, FALSE) /\ ChatOf[m] \in Hosted
      /\ UNCHANGED <<row, due, air, picked, link, view, strayed>>
  BY DEF ElsewhereAsks
<1>2. FALSE \in BOOLEAN /\ strayed' \in BOOLEAN /\ (strayed => strayed')
  BY <1>0, <1>1 DEF ThreadTypeOK
<1>3. ThreadInv' BY <1>1, <1>2, AskStep
<1>4. /\ work[r] = Free /\ work'[r] \in ChangeRuns /\ work'[r].own = FALSE
      /\ \A q \in Runs \ {r} : work'[q] = work[q]
      /\ loose' = IF Moving(m) THEN loose \cup {m} ELSE loose
  BY <1>0, <1>1, <1>2, AskEffect
<1>5. Carried BY <1>1, NothingMoves
<1>6. work'[r] \notin ReadRuns BY <1>4 DEF ReadRuns, LoadOps, ChangeRuns, ThreadOps
<1>7. CallsKept BY <1>4, <1>6, FreeTask DEF CallsKept
<1>. QED BY <1>0, <1>1, <1>3, <1>4, <1>5, <1>7 DEF Common, ThreadTypeOK

\* The client gives a request up, or only sees it fail.
LEMMA LoseStep ==
  ASSUME ThreadInv, NEW r \in Runs, LoseAsked(r)
  PROVE  ThreadInv' /\ Common
<1>0. Base /\ ThreadTypeOK BY DEF ThreadInv, Base
<1>1. PICK w : w = work[r] OBVIOUS
<1>2. w.op \in ThreadOps /\ UNCHANGED threadVars BY <1>1 DEF LoseAsked
<1>3. w \in ChangeRuns /\ TaskOK(w) BY <1>0, <1>1, <1>2, TaskSets DEF ThreadTypeOK, Base
<1>4. \A x \in Tasks : Turn(r, x) =>
        /\ work' \in [Runs -> Tasks] /\ work'[r] = x
        /\ \A q \in Runs \ {r} : work'[q] = work[q]
  BY <1>0, Turned
<1>5. /\ work' \in [Runs -> Tasks] /\ \A q \in Runs \ {r} : work'[q] = work[q]
      /\ work'[r] # Free => work'[r] \in ChangeRuns /\ ~work'[r].own /\ ThreadChanging(r)
  <2>1. CASE Quit(r) BY <1>4, <2>1, FreeTask DEF Quit
  <2>2. CASE w.pc \in {"asked", "write"} /\ w.chat \in Hosted /\ Turn(r, [w EXCEPT !.own = FALSE])
    <3>1. PICK x : x = [w EXCEPT !.own = FALSE] OBVIOUS
    <3>2. /\ x \in ChangeRuns /\ x.op = w.op /\ x.msg = w.msg /\ x.chat = w.chat
          /\ x.got = w.got /\ ~x.own /\ x.pc = w.pc
      BY <1>3, <3>1 DEF ChangeRuns
    <3>3. /\ work' \in [Runs -> Tasks] /\ work'[r] = x
          /\ \A q \in Runs \ {r} : work'[q] = work[q]
      BY <1>4, <2>2, <3>1, <3>2 DEF Tasks
    <3>4. TaskOK(x) BY <1>3, <2>2, <3>2, FreeTask DEF TaskOK
    <3>5. ThreadChanging(r) BY <1>1, <1>3, <2>2, <3>2, <3>3, <3>4 DEF ThreadChanging
    <3>. QED BY <3>2, <3>3, <3>5
  <2>. QED BY <1>1, <2>1, <2>2 DEF LoseAsked
<1>6. \A q \in Runs : GoesOn(q) BY <1>5 DEF GoesOn
<1>7. Quiet BY <1>0, <1>2, <1>5, <1>6, QuietFrame DEF threadVars, Base, ThreadTypeOK
<1>8. ThreadInv' BY <1>7, QuietStep
<1>9. Carried BY <1>2, NothingMoves DEF threadVars
<1>10. work'[r] \in ChangeRuns => work'[r] \notin ReadRuns BY DEF ReadRuns, LoadOps, ChangeRuns, ThreadOps
<1>11. CallsKept BY <1>1, <1>3, <1>5, <1>10, FreeTask, Disjoint DEF CallsKept
<1>. QED BY <1>0, <1>2, <1>8, <1>9, <1>11 DEF Common, threadVars, Base, ThreadTypeOK

\* What the relay lists is what the rows are.
LEMMA ListingIs ==
  ASSUME NEW c, row \in Lists
  PROVE  /\ Listing(c) \in Lists /\ DOMAIN Listing(c) \subseteq In(c) /\ KnownList(Listing(c))
         /\ \A m \in In(c) : Follows(Listing(c), m)
<1>1. DOMAIN row \subseteq Messages /\ row \in [DOMAIN row -> Marks] BY ListIff
<1>2. DOMAIN Listing(c) = {n \in In(c) : Live(n)} /\ \A m \in DOMAIN Listing(c) : Listing(c)[m] = row[m]
  BY DEF Listing
<1>3. Listing(c) \in [DOMAIN Listing(c) -> Marks]
  <2>1. \A m \in {n \in In(c) : Live(n)} : row[m] \in Marks BY <1>1 DEF Live
  <2>. QED BY <1>2, <2>1 DEF Listing
<1>4. Listing(c) \in Lists BY <1>2, <1>3, ListIff DEF In
<1>5. KnownList(Listing(c)) BY <1>2 DEF KnownList, Live
<1>6. \A m \in In(c) : Follows(Listing(c), m) BY <1>2 DEF Follows
<1>. QED BY <1>2, <1>4, <1>5, <1>6

LEMMA ListStep ==
  ASSUME ThreadInv, NEW r \in Runs, ListRows(r)
  PROVE  ThreadInv' /\ Common
<1>0. Base /\ ThreadTypeOK BY DEF ThreadInv, Base
<1>1. PICK w : w = work[r] OBVIOUS
<1>2. w.pc = "asked" /\ w.op \notin ThreadOps /\ UNCHANGED threadVars BY <1>1 DEF ListRows, Doing
<1>3. w \in ReadRuns
  <2>1. w \in Tasks BY <1>0, <1>1 DEF ThreadTypeOK
  <2>. QED BY <1>2, <2>1, TaskSets
<1>4. PICK v : v = Listing(w.chat) OBVIOUS
<1>5. v \in Lists /\ DOMAIN v \subseteq In(w.chat) /\ KnownList(v) /\ \A m \in In(w.chat) : Follows(v, m)
  BY <1>0, <1>4, ListingIs DEF ThreadTypeOK
<1>6. PICK x : x = [w EXCEPT !.pc = "listed", !.got = v] OBVIOUS
<1>7. /\ x \in ReadRuns /\ x.op = w.op /\ x.chat = w.chat /\ x.current = w.current
      /\ x.pc = "listed" /\ x.got = v
  BY <1>3, <1>5, <1>6 DEF ReadRuns
<1>8. Turn(r, x) BY <1>1, <1>4, <1>6 DEF ListRows
<1>9. /\ work' \in [Runs -> Tasks] /\ work'[r] = x
      /\ \A q \in Runs \ {r} : work'[q] = work[q]
  BY <1>0, <1>7, <1>8, Turned DEF Tasks
<1>10. Loading(r) BY <1>5, <1>7, <1>9 DEF Loading, Shows, In
<1>11. \A q \in Runs : GoesOn(q) BY <1>9, <1>10 DEF GoesOn
<1>12. Quiet BY <1>0, <1>2, <1>9, <1>11, QuietFrame DEF threadVars, Base, ThreadTypeOK
<1>13. ThreadInv' BY <1>12, QuietStep
<1>14. Carried BY <1>2, NothingMoves DEF threadVars
<1>15. x \notin ChangeRuns BY <1>7 DEF ReadRuns, LoadOps, ChangeRuns, ThreadOps
<1>16. CallsKept BY <1>1, <1>2, <1>3, <1>5, <1>7, <1>9, <1>15 DEF CallsKept
<1>. QED BY <1>0, <1>2, <1>13, <1>14, <1>16 DEF Common, threadVars, Base, ThreadTypeOK

\* The socket and the coordinator.
LEMMA CastStep ==
  ASSUME ThreadInv, (\E e \in due : Cast(e)) \/ Attach \/ Detach
  PROVE  ThreadInv' /\ Common
<1>0. Base /\ ThreadTypeOK BY DEF ThreadInv, Base
<1>1. work' = work /\ row' = row /\ UNCHANGED <<picked, view, strayed>> BY DEF Cast, Attach, Detach
<1>2. /\ due' \cup air' \subseteq due \cup air
      /\ loose \subseteq loose' /\ loose' \subseteq Messages
      /\ link' \in {"none", "connecting", "open"} /\ (link' = "none" <=> link = "none")
      /\ \A e \in due \cup air : e \in due' \cup air' \/ e.msg \in loose'
      /\ \A e \in air' :
            \/ e \in air /\ (link = "open" => link' = "open")
            \/ link' = "open" /\ picked = ChatOf[e.msg]
  <2>0. /\ due \subseteq Events /\ air \subseteq Events /\ loose \subseteq Messages
        /\ link \in {"none", "connecting", "open"} /\ \A e \in Events : e.msg \in Messages
    BY <1>0 DEF ThreadTypeOK, Events
  <2>1. CASE \E e \in due : Cast(e)
    <3>1. PICK e \in due : Cast(e) BY <2>1
    <3>2. due' = due \ {e} /\ link' = link BY <3>1 DEF Cast
    <3>3. \/ link = "open" /\ picked = ChatOf[e.msg] /\ air' = air \cup {e} /\ loose' = loose
          \/ loose' = loose \cup {e.msg} /\ air' = air
      BY <3>1 DEF Cast
    <3>. QED BY <2>0, <3>1, <3>2, <3>3
  <2>2. CASE Attach BY <2>0, <2>2 DEF Attach
  <2>3. CASE Detach BY <2>0, <2>3 DEF Detach, CutOff
  <2>. QED BY <2>1, <2>2, <2>3
<1>3. \A q \in Runs : GoesOn(q) BY <1>1 DEF GoesOn
<1>4. work' \in [Runs -> Tasks] BY <1>0, <1>1 DEF ThreadTypeOK
<1>5. Quiet BY <1>0, <1>1, <1>2, <1>3, <1>4, QuietFrame
<1>6. ThreadInv' BY <1>5, QuietStep
<1>7. Carried
  <2>1. ASSUME NEW v, NEW m \in Messages \ loose', ThreadSettled(v, m) PROVE ThreadSettled(v, m)'
    <3>1. \A e : e.msg = m => (e \in due' \cup air' <=> e \in due \cup air) BY <1>2, <2>1
    <3>. QED BY <1>1, <2>1, <3>1, SameEvents
  <2>. QED BY <2>1 DEF Carried
<1>8. CallsKept BY <1>1 DEF CallsKept
<1>. QED BY <1>0, <1>1, <1>2, <1>6, <1>7, <1>8 DEF Common, ThreadTypeOK

LEMMA WriteCommon ==
  ASSUME ThreadInv, NEW r \in Runs, WriteChange(r)
  PROVE  ThreadInv' /\ Common
<1>0. Base /\ ThreadTypeOK BY DEF ThreadInv, Base
<1>1. ThreadInv' BY WriteStep
<1>2. PICK e : e = Event(work[r]) OBVIOUS
<1>3. /\ work[r] \in ChangeRuns /\ work[r].pc = "write" /\ e.msg = work[r].msg
      /\ row' \in Lists /\ DOMAIN row' = DOMAIN row \cup {work[r].msg}
      /\ \A n \in DOMAIN row \ {work[r].msg} : row'[n] = row[n]
      /\ due' = due \cup {e} /\ air' = air
      /\ \A q \in Runs \ {r} : work'[q] = work[q]
      /\ work'[r] # Free =>
           /\ work'[r] \in ChangeRuns /\ work'[r].op = work[r].op
           /\ work'[r].msg = work[r].msg /\ work'[r].chat = work[r].chat
           /\ work'[r].got = work[r].got /\ work[r].own
      /\ loose' = IF Overtakable(work[r].msg) THEN loose \cup {work[r].msg} ELSE loose
      /\ UNCHANGED <<picked, link, view, strayed>>
  BY <1>0, <1>2, WriteEffect
<1>4. Carried
  <2>1. ASSUME ~strayed, NEW v \in Lists, NEW m \in Messages \ loose', ChatOf[m] \in Hosted,
               KnownList(v), ThreadSettled(v, m)
        PROVE  ThreadSettled(v, m)'
    <3>1. CASE m # e.msg
      <4>1. (m \in DOMAIN row' <=> m \in DOMAIN row) /\ (m \in DOMAIN row => row'[m] = row[m])
        BY <1>3, <3>1
      <4>2. \A u : Follows(u, m)' <=> Follows(u, m) BY <4>1 DEF Follows, Live
      <4>3. \A f : f.msg = m => (f \in due' \cup air' <=> f \in due \cup air) BY <1>3, <3>1
      <4>. QED BY <2>1, <4>2, <4>3 DEF ThreadSettled
    <3>2. CASE m = e.msg
      <4>1. m \in Messages \ loose BY <1>3, <2>1
      <4>2. CallTells(m) BY <2>1, <4>1 DEF ThreadInv, MessageOK
      <4>3. \A f \in due \cup air : f.msg # m BY <1>3, <3>2, <4>2 DEF CallTells, Touches
      <4>4. Follows(v, m) BY <2>1, <4>3 DEF ThreadSettled
      <4>5. ChatOf[e.msg] \in Hosted /\ Follows(v, e.msg) BY <2>1, <3>2, <4>4
      <4>6. Follows(WithChange(v, e), e.msg)' BY <1>0, <1>2, <2>1, <4>5, WriteSettles
      <4>7. Follows(WithChange(v, e), m)' BY <3>2, <4>6
      <4>8. \A f \in due' \cup air' : f.msg = m => f = e BY <1>3, <4>3
      <4>9. e \in due' \cup air' BY <1>3
      <4>. QED BY <3>2, <4>7, <4>8, <4>9 DEF ThreadSettled
    <3>. QED BY <3>1, <3>2
  <2>. QED BY <2>1 DEF Carried
<1>5. work'[r] # Free => work'[r] \notin ReadRuns
  <2>1. \A x \in ChangeRuns : x \notin ReadRuns BY DEF ChangeRuns, ThreadOps, ReadRuns, LoadOps
  <2>. QED BY <1>3, <2>1
<1>6. CallsKept BY <1>3, <1>5, FreeTask, Disjoint DEF CallsKept
<1>. QED BY <1>0, <1>1, <1>3, <1>4, <1>6 DEF Common, ThreadTypeOK

LEMMA RelayStep ==
  ASSUME ThreadInv, ThreadStep
  PROVE  ThreadInv' /\ Common
BY AdmitStep, ElsewhereStep, LoseStep, ListStep, CastStep, WriteCommon DEF ThreadStep

-----------------------------------------------------------------------------
(* What a client makes of its view.                                         *)

\* Whether a list settles a message is a matter of that message alone.
LEMMA SameAt ==
  ASSUME ThreadTypeOK, NEW u \in Lists, NEW v \in Lists, NEW m,
         m \in DOMAIN u <=> m \in DOMAIN v, m \in DOMAIN v => u[m] = v[m], ThreadSettled(v, m)
  PROVE  ThreadSettled(u, m)
<1>1. ASSUME NEW e \in due \cup air, e.msg = m PROVE Follows(WithChange(u, e), m)
  <2>0. e \in Events /\ Follows(WithChange(v, e), m) BY <1>1 DEF ThreadSettled, ThreadTypeOK
  <2>1. /\ DOMAIN WithChange(v, e) = IF e.what = "post" THEN DOMAIN v \cup {e.msg} ELSE DOMAIN v
        /\ e.msg \in DOMAIN v =>
              WithChange(v, e)[e.msg] =
                CASE e.what = "post"   -> v[e.msg]
                  [] e.what = "edit"   -> [v[e.msg] EXCEPT !.edited = TRUE]
                  [] e.what = "delete" -> [v[e.msg] EXCEPT !.gone = TRUE]
                  [] e.what = "like"   -> [v[e.msg] EXCEPT !.liked = e.liked]
        /\ e.msg \notin DOMAIN v /\ e.what = "post" => WithChange(v, e)[e.msg] = Fresh
    BY <2>0, ChangeList
  <2>2. /\ DOMAIN WithChange(u, e) = IF e.what = "post" THEN DOMAIN u \cup {e.msg} ELSE DOMAIN u
        /\ e.msg \in DOMAIN u =>
              WithChange(u, e)[e.msg] =
                CASE e.what = "post"   -> u[e.msg]
                  [] e.what = "edit"   -> [u[e.msg] EXCEPT !.edited = TRUE]
                  [] e.what = "delete" -> [u[e.msg] EXCEPT !.gone = TRUE]
                  [] e.what = "like"   -> [u[e.msg] EXCEPT !.liked = e.liked]
        /\ e.msg \notin DOMAIN u /\ e.what = "post" => WithChange(u, e)[e.msg] = Fresh
    BY <2>0, ChangeList
  <2>3. m \in DOMAIN WithChange(u, e) <=> m \in DOMAIN WithChange(v, e) BY <1>1, <2>1, <2>2
  <2>4. m \in DOMAIN WithChange(u, e) => WithChange(u, e)[m] = WithChange(v, e)[m]
    <3>1. CASE m \in DOMAIN v
      <4>1. u[m] = v[m] /\ e.msg \in DOMAIN u /\ e.msg \in DOMAIN v BY <1>1, <3>1
      <4>2. u[e.msg] = v[e.msg] BY <1>1, <4>1
      <4>3. WithChange(u, e)[e.msg] = WithChange(v, e)[e.msg] BY <2>1, <2>2, <4>1, <4>2
      <4>. QED BY <1>1, <4>3
    <3>2. CASE m \notin DOMAIN v BY <1>1, <2>1, <2>2, <3>2
    <3>. QED BY <3>1, <3>2
  <2>. QED BY <2>0, <2>3, <2>4 DEF Follows
<1>2. (\A e \in due \cup air : e.msg # m) => Follows(u, m) BY DEF ThreadSettled, Follows
<1>. QED BY <1>1, <1>2 DEF ThreadSettled

\* A change applied to a list that settles its message: the list follows it.
LEMMA Applied ==
  ASSUME ThreadTypeOK, NEW v \in Lists, NEW e \in Events, NEW m, ThreadSettled(v, m),
         e.msg = m => Tells(e) /\ \A f \in due \cup air : f.msg = m => f = e
  PROVE  /\ ThreadSettled(WithChange(v, e), m)
         /\ e.msg = m => Follows(WithChange(v, e), m)
<1>0. row \in Lists BY DEF ThreadTypeOK
<1>1. PICK u : u = WithChange(v, e) OBVIOUS
<1>2. /\ u \in Lists
      /\ DOMAIN u = IF e.what = "post" THEN DOMAIN v \cup {e.msg} ELSE DOMAIN v
      /\ \A n \in DOMAIN v \ {e.msg} : u[n] = v[n]
  BY <1>1, ChangeList
<1>3. CASE e.msg # m
  <2>1. /\ m \in DOMAIN u <=> m \in DOMAIN v
        /\ m \in DOMAIN v => u[m] = v[m]
    BY <1>2, <1>3
  <2>2. ThreadSettled(u, m) BY <1>2, <2>1, SameAt
  <2>. QED BY <1>1, <1>3, <2>2
<1>4. CASE e.msg = m
  <2>1. Tells(e) /\ \A f \in due \cup air : f.msg = m => f = e BY <1>4
  <2>2. Follows(WithChange(v, e), m)
    <3>1. CASE \A f \in due \cup air : f.msg # m
      <4>1. Follows(v, e.msg) BY <1>4, <3>1 DEF ThreadSettled
      <4>2. Follows(WithChange(v, e), e.msg) BY <1>0, <2>1, <4>1, HeardAgain
      <4>. QED BY <1>4, <4>2
    <3>2. CASE ~\A f \in due \cup air : f.msg # m BY <2>1, <3>2 DEF ThreadSettled
    <3>. QED BY <3>1, <3>2
  <2>3. CastTells(m) BY <2>1 DEF CastTells
  <2>4. Follows(u, m) BY <1>1, <2>2
  <2>5. ThreadSettled(u, m) BY <1>2, <2>3, <2>4, FollowsSettles
  <2>. QED BY <1>1, <2>2, <2>5
<1>. QED BY <1>3, <1>4

\* The answer to a change, applied to a list.
LEMMA AnswerApplied ==
  ASSUME Base, NEW m, MessageOK(m), NEW r \in Runs, work[r] \in ChangeRuns, work[r].pc = "answer",
         NEW v \in Lists, ThreadSettled(v, m)
  PROVE  ThreadSettled(WithChange(v, Event(work[r])), m)
<1>1. PICK e : e = Event(work[r]) OBVIOUS
<1>2. e \in Events /\ e.msg = work[r].msg BY <1>1 DEF Event, Events, ChangeRuns
<1>3. e.msg = m => Tells(e) /\ \A f \in due \cup air : f.msg = m => f = e
  BY <1>1, <1>2 DEF MessageOK, CallTells, Touches
<1>4. ThreadTypeOK BY DEF Base
<1>5. ThreadSettled(WithChange(v, e), m) BY <1>2, <1>3, <1>4, Applied
<1>. QED BY <1>1, <1>5

\* A broadcast heard.
LEMMA HeardApplied ==
  ASSUME Base, NEW m, MessageOK(m), NEW e \in air, NEW v \in Lists, ThreadSettled(v, m),
         row' = row, due' = due, air' = air \ {e}
  PROVE  ThreadSettled(WithChange(v, e), m)'
<1>0. ThreadTypeOK /\ e \in Events BY DEF Base, ThreadTypeOK
<1>1. e.msg = m => Tells(e) /\ \A f \in due \cup air : f.msg = m => f = e
  BY DEF MessageOK, CastTells, OneCast
<1>2. ThreadSettled(WithChange(v, e), m) /\ (e.msg = m => Follows(WithChange(v, e), m))
  BY <1>0, <1>1, Applied
<1>3. PICK u : u = WithChange(v, e) OBVIOUS
<1>4. ThreadSettled(u, m) /\ (e.msg = m => Follows(u, m)) BY <1>2, <1>3
<1>5. \A w : Follows(w, m)' <=> Follows(w, m) BY DEF Follows, Live
<1>6. \A f : f \in due' \cup air' => f \in due \cup air OBVIOUS
<1>7. \A f : f \in due \cup air /\ f # e => f \in due' \cup air' OBVIOUS
<1>8. ThreadSettled(u, m)'
  <2>1. CASE e.msg = m BY <1>4, <1>5, <1>6, <2>1 DEF ThreadSettled
  <2>2. CASE e.msg # m BY <1>4, <1>5, <1>6, <1>7, <2>2 DEF ThreadSettled
  <2>. QED BY <2>1, <2>2
<1>9. WithChange(v, e)' = u BY <1>3 DEF WithChange, Over, Just
<1>. QED BY <1>8, <1>9

\* A list that was read is shown.
LEMMA ShownSettles ==
  ASSUME ThreadInv, ~strayed, row' = row, due' = due, air' = air,
         NEW r \in Runs, NEW m \in Messages \ loose', ChatOf[m] \in Hosted,
         Shows(work[r], m), loose' = Unsettled(work[r].got), NEW v, v = work[r].got
  PROVE  ThreadSettled(v, m)'
<1>0. Base /\ ThreadTypeOK BY DEF ThreadInv, Base
<1>1. v \in Lists BY DEF Shows, ReadRuns
<1>2. CASE m \notin loose
  <2>1. MessageOK(m) BY <1>2 DEF ThreadInv
  <2>2. Follows(v, m) /\ CastTells(m) BY <2>1 DEF MessageOK, ListTells
  <2>3. ThreadSettled(v, m) BY <1>0, <1>1, <2>2, FollowsSettles
  <2>. QED BY <2>3, SameEvents
<1>3. CASE m \in loose
  <2>1. Follows(v, m) /\ ~Moving(m) BY <1>3 DEF Unsettled
  <2>2. CastTells(m) BY <2>1 DEF CastTells, Moving
  <2>3. ThreadSettled(v, m) BY <1>0, <1>1, <2>1, <2>2, FollowsSettles
  <2>. QED BY <2>3, SameEvents
<1>. QED BY <1>2, <1>3

-----------------------------------------------------------------------------
(* The browser.                                                             *)

ViewSettled == \A m \in In(picked) \ loose : ThreadSettled(view, m)

PageInv ==
  /\ ThreadInv /\ ~strayed
  /\ link # "none" => picked \in Hosted
  /\ \A r \in Runs : work[r] \in ReadRuns \/ (work[r] \in ChangeRuns /\ work[r].own) => work[r].chat = picked
  /\ link # "none" => ViewSettled \/ \E r \in Runs : work[r] \in ReadRuns /\ work[r].op = "open"

LEMMA ThreadStart ==
  ASSUME WorkInit, ThreadInit
  PROVE  /\ ThreadInv /\ ~strayed /\ link = "none"
         /\ \A r \in Runs : work[r] = Free
<1>1. /\ row = Nothing /\ due = {} /\ air = {} /\ loose = {} /\ strayed = FALSE
      /\ picked = Nobody /\ link = "none" /\ view = Nothing
      /\ work = [r \in Runs |-> Free]
  BY DEF WorkInit, ThreadInit
<1>2. ThreadTypeOK BY <1>1, NothingList, FreeTask DEF ThreadTypeOK
<1>3. Base BY <1>1, <1>2, NothingList, FreeTask DEF Base, TaskOK, PostsApart, KnownList
<1>4. AtHome BY <1>1, FreeTask DEF AtHome
<1>5. ASSUME NEW m PROVE MessageOK(m)
  BY <1>1, FreeTask DEF MessageOK, OneCall, OneCast, CastTells, CallTells, ListTells, Touches, Shows
<1>. QED BY <1>1, <1>3, <1>4, <1>5 DEF ThreadInv

LEMMA PageInit ==
  ASSUME WorkInit, ThreadInit
  PROVE  PageInv
BY ThreadStart, FreeTask DEF PageInv

\* Whatever leaves the view and the events alone leaves it settled.
LEMMA StaysSettled ==
  ASSUME Base, ~strayed, picked \in Hosted, Carried, view' = view, picked' = picked,
         loose \subseteq loose', ViewSettled
  PROVE  ViewSettled'
<1>1. view \in Lists /\ KnownList(view) BY DEF Base, ThreadTypeOK
<1>2. ASSUME NEW m \in In(picked) \ loose' PROVE ThreadSettled(view, m)'
  <2>1. m \in Messages /\ ChatOf[m] \in Hosted /\ ThreadSettled(view, m) BY <1>2 DEF In, ViewSettled
  <2>2. PICK v : v = view OBVIOUS
  <2>3. ThreadSettled(v, m)' BY <1>1, <1>2, <2>1, <2>2 DEF Carried
  <2>4. v = view' BY <2>2
  <2>. QED BY <2>3, <2>4 DEF ThreadSettled
<1>. QED BY <1>2 DEF ViewSettled, In

LEMMA PageRelay ==
  ASSUME PageInv, ThreadStep
  PROVE  PageInv'
<1>0. ThreadInv /\ Base /\ ~strayed BY DEF PageInv, ThreadInv
<1>1. ThreadInv' /\ Common BY <1>0, RelayStep
<1>2. ~strayed' /\ (link' # "none" => picked' \in Hosted) BY <1>1 DEF PageInv, Common
<1>3. (\A r \in Runs : work[r] \in ReadRuns \/ (work[r] \in ChangeRuns /\ work[r].own) => work[r].chat = picked)'
  BY <1>1 DEF PageInv, Common, CallsKept
<1>4. ASSUME link' # "none"
      PROVE  ViewSettled' \/ \E r \in Runs : work'[r] \in ReadRuns /\ work'[r].op = "open"
  <2>1. link # "none" BY <1>1, <1>4 DEF Common
  <2>2. CASE ViewSettled
    BY <1>0, <1>1, <2>1, <2>2, StaysSettled DEF PageInv, Common
  <2>3. CASE \E r \in Runs : work[r] \in ReadRuns /\ work[r].op = "open"
    <3>1. PICK r \in Runs : work[r] \in ReadRuns /\ work[r].op = "open" BY <2>3
    <3>2. work'[r] \in ReadRuns /\ work'[r].op = "open" BY <1>1, <3>1 DEF Common, CallsKept
    <3>. QED BY <3>2
  <2>. QED BY <2>1, <2>2, <2>3 DEF PageInv
<1>. QED BY <1>1, <1>2, <1>3, <1>4 DEF PageInv

\* A load begins: its list is empty.
LEMMA ReadBegins ==
  ASSUME ThreadTypeOK, NEW r \in Runs, NEW op \in LoadOps, NEW pc \in {"cache", "asked"}, NEW c \in Chats,
         Turn(r, Task(op, pc, c, Nobody, TRUE))
  PROVE  /\ work' \in [Runs -> Tasks] /\ \A q \in Runs : GoesOn(q)
         /\ work'[r] \in ReadRuns /\ work'[r].op = op /\ work'[r].pc = pc /\ work'[r].chat = c
         /\ work'[r].got = Nothing /\ work'[r].current = TRUE
         /\ \A q \in Runs \ {r} : work'[q] = work[q]
<1>1. PICK w : w = Task(op, pc, c, Nobody, TRUE) OBVIOUS
<1>2. /\ w \in ReadRuns /\ w \in Tasks /\ w.op = op /\ w.pc = pc /\ w.chat = c
      /\ w.got = Nothing /\ w.current = TRUE
  <2>1. /\ w \in ReadRuns /\ w.op = op /\ w.pc = pc /\ w.chat = c
        /\ w.got = Nothing /\ w.current = TRUE
    BY <1>1, NothingList DEF Task, ReadRuns
  <2>. QED BY <2>1 DEF Tasks
<1>3. /\ work' \in [Runs -> Tasks] /\ work'[r] = w
      /\ \A q \in Runs \ {r} : work'[q] = work[q]
  BY <1>1, <1>2, Turned
<1>4. Loading(r) BY <1>2, <1>3, NothingList DEF Loading, KnownList, Shows
<1>. QED BY <1>2, <1>3, <1>4 DEF GoesOn

LEMMA PageOpens ==
  ASSUME PageInv, NEW r \in Runs, NEW c \in Chats, OpenPage(r, c)
  PROVE  PageInv'
<1>0. ThreadInv /\ Base /\ ThreadTypeOK /\ ~strayed BY DEF PageInv, ThreadInv, Base
<1>1. /\ picked = Nobody /\ c \in Hosted /\ work[r].pc = "free"
      /\ Turn(r, Task("open", "asked", c, Nobody, TRUE))
      /\ picked' = c /\ link' = "connecting" /\ UNCHANGED <<row, due, air, view, loose, strayed>>
  BY DEF OpenPage, Doing
<1>2. /\ work' \in [Runs -> Tasks] /\ \A q \in Runs : GoesOn(q)
      /\ work'[r] \in ReadRuns /\ work'[r].op = "open" /\ work'[r].chat = c
      /\ \A q \in Runs \ {r} : work'[q] = work[q]
  <2>1. "open" \in LoadOps /\ "asked" \in {"cache", "asked"} BY DEF LoadOps
  <2>. QED BY <1>0, <1>1, <2>1, ReadBegins
<1>3. Quiet BY <1>0, <1>1, <1>2 DEF Quiet, SettledOnly, Base, ThreadTypeOK
<1>4. ThreadInv' BY <1>0, <1>3, QuietStep
<1>5. \A q \in Runs : work[q] \notin ReadRuns /\ ~(work[q] \in ChangeRuns /\ work[q].own)
  <2>1. \A w \in ReadRuns \cup ChangeRuns : w.chat # Nobody BY ThreadAssumption DEF ReadRuns, ChangeRuns
  <2>. QED BY <1>1, <2>1 DEF PageInv
<1>6. (\A q \in Runs : work[q] \in ReadRuns \/ (work[q] \in ChangeRuns /\ work[q].own) => work[q].chat = picked)'
  BY <1>1, <1>2, <1>5
<1>. QED BY <1>0, <1>1, <1>2, <1>4, <1>6 DEF PageInv

LEMMA PageAsks ==
  ASSUME PageInv, NEW r \in Runs, NEW op \in ThreadOps, NEW m \in Messages, ActOnPage(r, op, m)
  PROVE  PageInv'
<1>0. ThreadInv /\ Base /\ ThreadTypeOK /\ ~strayed BY DEF PageInv, ThreadInv, Base
<1>1. picked = ChatOf[m] /\ Ask(r, op, m, TRUE) /\ UNCHANGED <<row, due, air, picked, link, view, strayed>>
  BY DEF ActOnPage
<1>2. TRUE \in BOOLEAN /\ picked \in Chats /\ strayed' \in BOOLEAN
  BY <1>0, <1>1, ThreadAssumption DEF ThreadTypeOK
<1>3. ThreadInv' BY <1>0, <1>1, <1>2, AskStep
<1>4. /\ work[r] = Free /\ work'[r] \in ChangeRuns /\ work'[r].chat = picked
      /\ \A q \in Runs \ {r} : work'[q] = work[q]
      /\ loose' = IF Moving(m) THEN loose \cup {m} ELSE loose
  BY <1>0, <1>1, <1>2, AskEffect
<1>5. Carried BY <1>1, NothingMoves
<1>6. (\A q \in Runs : work[q] \in ReadRuns \/ (work[q] \in ChangeRuns /\ work[q].own) => work[q].chat = picked)'
  BY <1>1, <1>4 DEF PageInv
<1>7. ASSUME link # "none"
      PROVE  ViewSettled' \/ \E q \in Runs : work'[q] \in ReadRuns /\ work'[q].op = "open"
  <2>1. CASE ViewSettled
    <3>1. picked \in Hosted BY <1>7 DEF PageInv
    <3>2. loose \subseteq loose' BY <1>4
    <3>. QED BY <1>0, <1>1, <1>5, <2>1, <3>1, <3>2, StaysSettled
  <2>2. CASE \E q \in Runs : work[q] \in ReadRuns /\ work[q].op = "open"
    BY <1>4, <2>2, FreeTask
  <2>. QED BY <1>7, <2>1, <2>2 DEF PageInv
<1>. QED BY <1>0, <1>1, <1>3, <1>6, <1>7 DEF PageInv

LEMMA PageShows ==
  ASSUME PageInv, NEW r \in Runs, ShowList(r)
  PROVE  PageInv'
<1>0. ThreadInv /\ Base /\ ThreadTypeOK /\ ~strayed BY DEF PageInv, ThreadInv, Base
<1>1. PICK v : v = work[r].got OBVIOUS
<1>2. /\ work[r].pc = "listed" /\ Turn(r, Free) /\ view' = v /\ loose' = Unsettled(v)
      /\ UNCHANGED <<row, due, air, picked, link, strayed>>
  BY <1>1 DEF ShowList, Doing, Quit, Unsettled
<1>3. work[r] \in ReadRuns /\ work[r] # Free /\ TaskOK(work[r])
  BY <1>0, <1>2, TaskSets, FreeTask DEF ThreadTypeOK, Base
<1>4. v \in Lists /\ KnownList(v) BY <1>1, <1>3 DEF ReadRuns, TaskOK
<1>5. /\ work' \in [Runs -> Tasks] /\ work'[r] = Free
      /\ \A q \in Runs \ {r} : work'[q] = work[q]
  BY <1>0, <1>2, FreeTask, Turned
<1>6. \A q \in Runs : GoesOn(q) BY <1>5 DEF GoesOn
<1>7. SettledOnly BY <1>2 DEF SettledOnly, Unsettled
<1>8. loose' \subseteq Messages BY <1>0, <1>2 DEF Unsettled, ThreadTypeOK
<1>9. Quiet BY <1>0, <1>2, <1>4, <1>5, <1>6, <1>7, <1>8 DEF Quiet, ThreadTypeOK
<1>10. ThreadInv' BY <1>0, <1>9, QuietStep
<1>11. ASSUME link # "none" PROVE ViewSettled'
  <2>1. picked \in Hosted /\ work[r].chat = picked BY <1>3, <1>11 DEF PageInv
  <2>2. ASSUME NEW m \in In(picked) \ loose' PROVE ThreadSettled(view, m)'
    <3>1. m \in Messages \ loose' /\ ChatOf[m] = picked BY <2>2 DEF In
    <3>2. Shows(work[r], m) BY <1>2, <1>3, <2>1, <3>1 DEF Shows
    <3>3. loose' = Unsettled(work[r].got) BY <1>1, <1>2
    <3>4. ThreadSettled(v, m)' BY <1>0, <1>1, <1>2, <2>1, <3>1, <3>2, <3>3, ShownSettles
    <3>. QED BY <1>2, <3>4 DEF ThreadSettled
  <2>. QED BY <1>2, <2>2 DEF ViewSettled, In
<1>12. (\A q \in Runs : work[q] \in ReadRuns \/ (work[q] \in ChangeRuns /\ work[q].own) => work[q].chat = picked)'
  BY <1>2, <1>5, FreeTask DEF PageInv
<1>. QED BY <1>0, <1>2, <1>10, <1>11, <1>12 DEF PageInv

LEMMA PageFails ==
  ASSUME PageInv, NEW r \in Runs, FailList(r)
  PROVE  PageInv'
<1>0. ThreadInv /\ Base /\ ThreadTypeOK /\ ~strayed BY DEF PageInv, ThreadInv, Base
<1>1. /\ work[r].op \in {"open", "reload"} /\ Turn(r, Free)
      /\ loose' = (IF work[r].op = "open" THEN Messages ELSE loose)
      /\ UNCHANGED <<row, due, air, picked, link, view, strayed>>
  BY DEF FailList, Doing, Quit
<1>2. /\ work' \in [Runs -> Tasks] /\ work'[r] = Free
      /\ \A q \in Runs \ {r} : work'[q] = work[q]
  BY <1>0, <1>1, FreeTask, Turned
<1>3. \A q \in Runs : GoesOn(q) BY <1>2 DEF GoesOn
<1>4. loose \subseteq loose' /\ loose' \subseteq Messages BY <1>0, <1>1 DEF ThreadTypeOK
<1>5. Quiet BY <1>0, <1>1, <1>2, <1>3, <1>4, QuietFrame DEF ThreadTypeOK
<1>6. ThreadInv' BY <1>0, <1>5, QuietStep
<1>7. Carried BY <1>1, NothingMoves
<1>8. (\A q \in Runs : work[q] \in ReadRuns \/ (work[q] \in ChangeRuns /\ work[q].own) => work[q].chat = picked)'
  BY <1>1, <1>2, FreeTask DEF PageInv
<1>9. ASSUME link # "none"
      PROVE  ViewSettled' \/ \E q \in Runs : work'[q] \in ReadRuns /\ work'[q].op = "open"
  <2>1. CASE ViewSettled
    <3>1. picked \in Hosted BY <1>9 DEF PageInv
    <3>. QED BY <1>0, <1>1, <1>4, <1>7, <2>1, <3>1, StaysSettled
  <2>2. CASE \E q \in Runs : work[q] \in ReadRuns /\ work[q].op = "open"
    <3>1. PICK q \in Runs : work[q] \in ReadRuns /\ work[q].op = "open" BY <2>2
    <3>2. CASE q = r
      <4>1. loose' = Messages BY <1>1, <3>1, <3>2
      <4>. QED BY <4>1 DEF ViewSettled, In
    <3>3. CASE q # r BY <1>2, <3>1, <3>3
    <3>. QED BY <3>2, <3>3
  <2>. QED BY <1>9, <2>1, <2>2 DEF PageInv
<1>. QED BY <1>0, <1>1, <1>6, <1>8, <1>9 DEF PageInv

LEMMA PageAnswered ==
  ASSUME PageInv, NEW r \in Runs, TakeOnPage(r)
  PROVE  PageInv'
<1>0. ThreadInv /\ Base /\ ThreadTypeOK /\ ~strayed BY DEF PageInv, ThreadInv, Base
<1>1. PICK w : w = work[r] OBVIOUS
<1>2. PICK e : e = Event(work[r]) OBVIOUS
<1>3. /\ w.pc = "answer" /\ w.own
      /\ Turn(r, IF w.op \in Reloads THEN Task("reload", "asked", w.chat, Nobody, TRUE) ELSE Free)
      /\ view' = IF w.op \in Reloads THEN view ELSE WithChange(view, e)
      /\ UNCHANGED <<row, due, air, picked, link, loose, strayed>>
  BY <1>1, <1>2 DEF TakeOnPage, Answered
<1>4. w \in ChangeRuns BY <1>0, <1>1, <1>3, TaskSets DEF ThreadTypeOK
<1>5. w.chat = picked /\ w.chat \in Chats /\ e \in Events /\ e.what = w.op
  BY <1>1, <1>2, <1>3, <1>4 DEF PageInv, ChangeRuns, Event, Events
<1>6. /\ work' \in [Runs -> Tasks] /\ \A q \in Runs : GoesOn(q)
      /\ work'[r] = Free \/ (work'[r] \in ReadRuns /\ work'[r].chat = picked)
      /\ \A q \in Runs \ {r} : work'[q] = work[q]
  <2>1. CASE w.op \in Reloads
    <3>1. "reload" \in LoadOps /\ "asked" \in {"cache", "asked"} BY DEF LoadOps
    <3>2. Turn(r, Task("reload", "asked", w.chat, Nobody, TRUE)) BY <1>3, <2>1
    <3>. QED BY <1>0, <1>5, <3>1, <3>2, ReadBegins
  <2>2. CASE w.op \notin Reloads
    <3>1. Turn(r, Free) BY <1>3, <2>2
    <3>. QED BY <1>0, <3>1, FreeTask, Turned DEF GoesOn
  <2>. QED BY <2>1, <2>2
<1>7. PICK v : v = WithChange(view, e) OBVIOUS
<1>8. view \in Lists /\ KnownList(view) BY <1>0 DEF Base, ThreadTypeOK
<1>9. v \in Lists /\ (w.op \notin Reloads => DOMAIN v = DOMAIN view)
  BY <1>5, <1>7, <1>8, ChangeList DEF Reloads
<1>10. view' \in Lists /\ KnownList(view') BY <1>3, <1>7, <1>8, <1>9 DEF KnownList
<1>11. Quiet BY <1>0, <1>3, <1>6, <1>10 DEF Quiet, SettledOnly, ThreadTypeOK
<1>12. ThreadInv' BY <1>0, <1>11, QuietStep
<1>13. (\A q \in Runs : work[q] \in ReadRuns \/ (work[q] \in ChangeRuns /\ work[q].own) => work[q].chat = picked)'
  BY <1>3, <1>6, FreeTask, Disjoint DEF PageInv
<1>14. ASSUME link # "none"
      PROVE  ViewSettled' \/ \E q \in Runs : work'[q] \in ReadRuns /\ work'[q].op = "open"
  <2>1. CASE ViewSettled
    <3>1. ASSUME NEW m \in In(picked) \ loose PROVE ThreadSettled(view, m)'
      <4>1. m \in Messages \ loose /\ ChatOf[m] \in Hosted /\ ThreadSettled(view, m)
        BY <1>14, <2>1, <3>1 DEF In, ViewSettled, PageInv
      <4>2. MessageOK(m) BY <1>0, <4>1 DEF ThreadInv
      <4>3. ThreadSettled(v, m) BY <1>0, <1>1, <1>2, <1>3, <1>4, <1>7, <1>8, <4>1, <4>2, AnswerApplied
      <4>4. PICK u : u = view' OBVIOUS
      <4>5. ThreadSettled(u, m) BY <1>3, <1>7, <4>1, <4>3, <4>4
      <4>6. ThreadSettled(u, m)' BY <1>3, <4>5, SameEvents
      <4>. QED BY <4>4, <4>6 DEF ThreadSettled
    <3>. QED BY <1>3, <3>1 DEF ViewSettled, In
  <2>2. CASE \E q \in Runs : work[q] \in ReadRuns /\ work[q].op = "open"
    BY <1>1, <1>4, <1>6, <2>2, Disjoint
  <2>. QED BY <1>14, <2>1, <2>2 DEF PageInv
<1>. QED BY <1>0, <1>3, <1>12, <1>13, <1>14 DEF PageInv

\* What hearing a broadcast does to a list that settles its messages.
LEMMA HearEffect ==
  ASSUME Base, NEW e, Hear(e)
  PROVE  /\ e \in air /\ e \in Events /\ link = "open" /\ air' = air \ {e} /\ view' = WithChange(view, e)
         /\ view' \in Lists /\ KnownList(view')
         /\ UNCHANGED <<work, row, due, picked, link, strayed>>
<1>1. /\ e \in air /\ link = "open" /\ air' = air \ {e} /\ view' = WithChange(view, e)
      /\ UNCHANGED <<work, row, due, picked, link, strayed>>
  BY DEF Hear
<1>2. e \in Events /\ view \in Lists /\ KnownList(view) /\ e.msg \in DOMAIN row
  BY <1>1 DEF Base, ThreadTypeOK
<1>3. PICK v : v = WithChange(view, e) OBVIOUS
<1>4. v \in Lists /\ DOMAIN v \subseteq DOMAIN view \cup {e.msg} BY <1>2, <1>3, ChangeList
<1>5. KnownList(v) BY <1>2, <1>4 DEF KnownList
<1>. QED BY <1>1, <1>2, <1>3, <1>4, <1>5

LEMMA PageHears ==
  ASSUME PageInv, NEW e, Hear(e), loose' = loose
  PROVE  PageInv'
<1>0. ThreadInv /\ Base /\ ThreadTypeOK /\ ~strayed BY DEF PageInv, ThreadInv, Base
<1>1. /\ e \in air /\ e \in Events /\ link = "open" /\ air' = air \ {e} /\ view' = WithChange(view, e)
      /\ view' \in Lists /\ KnownList(view')
      /\ UNCHANGED <<work, row, due, picked, link, strayed>>
  BY <1>0, HearEffect
<1>2. Quiet BY <1>0, <1>1 DEF Quiet, SettledOnly, ThreadTypeOK, GoesOn
<1>3. ThreadInv' BY <1>0, <1>2, QuietStep
<1>4. ASSUME ViewSettled PROVE ViewSettled'
  <2>1. ASSUME NEW m \in In(picked) \ loose PROVE ThreadSettled(view, m)'
    <3>1. m \in Messages \ loose /\ ChatOf[m] \in Hosted /\ ThreadSettled(view, m)
      BY <1>1, <1>4, <2>1 DEF In, ViewSettled, PageInv
    <3>2. MessageOK(m) BY <1>0, <3>1 DEF ThreadInv
    <3>3. PICK v : v = view OBVIOUS
    <3>4. v \in Lists /\ ThreadSettled(v, m) BY <1>0, <3>1, <3>3 DEF ThreadTypeOK
    <3>5. ThreadSettled(WithChange(v, e), m)' BY <1>0, <1>1, <3>2, <3>4, HeardApplied
    <3>6. PICK u : u = WithChange(v, e) OBVIOUS
    <3>7. u = WithChange(v, e)' BY <3>6 DEF WithChange, Over, Just
    <3>8. ThreadSettled(u, m)' BY <3>5, <3>7 DEF ThreadSettled
    <3>9. view' = u BY <1>1, <3>3, <3>6
    <3>. QED BY <3>8, <3>9 DEF ThreadSettled
  <2>. QED BY <1>1, <2>1 DEF ViewSettled, In
<1>5. link # "none" => ViewSettled \/ \E r \in Runs : work[r] \in ReadRuns /\ work[r].op = "open" BY DEF PageInv
<1>6. (link # "none" => ViewSettled \/ \E r \in Runs : work[r] \in ReadRuns /\ work[r].op = "open")'
  BY <1>1, <1>4, <1>5
<1>. QED BY <1>0, <1>1, <1>3, <1>6 DEF PageInv

LEMMA PageStep ==
  ASSUME PageInv, [WebThreadNext]_webThreadVars
  PROVE  PageInv'
<1>1. CASE UNCHANGED webThreadVars
  <2>1. UNCHANGED <<work, row, due, air, picked, link, view, loose, strayed>>
    BY <1>1 DEF webThreadVars, threadVars
  <2>2. Base /\ ThreadTypeOK BY DEF PageInv, ThreadInv, Base
  <2>3. Quiet BY <2>1, <2>2 DEF Quiet, GoesOn, SettledOnly, Base, ThreadTypeOK
  <2>4. ThreadInv' BY <2>3, QuietStep DEF PageInv
  <2>5. Carried BY <2>1, NothingMoves
  <2>6. ViewSettled /\ picked \in Hosted => ViewSettled' BY <2>1, <2>2, <2>5, StaysSettled DEF PageInv
  <2>. QED BY <2>1, <2>4, <2>6 DEF PageInv
<1>2. CASE WebThreadNext
  BY <1>2, PageRelay, PageOpens, PageAsks, PageShows, PageFails, PageAnswered, PageHears DEF WebThreadNext
<1>. QED BY <1>1, <1>2

LEMMA PageAgrees ==
  ASSUME PageInv
  PROVE  ThreadsAgree
<1>1. SUFFICES ASSUME ~strayed, link = "open", due = {}, air = {}, Pending = {},
                      NEW m \in In(picked) \ loose
               PROVE  Follows(view, m)
  BY DEF ThreadsAgree
<1>2. ThreadTypeOK BY DEF PageInv, ThreadInv, Base
<1>3. \A r \in Runs : work[r] \notin ReadRuns BY <1>1, <1>2, PendingSets
<1>4. ViewSettled BY <1>1, <1>3 DEF PageInv
<1>. QED BY <1>1, <1>4 DEF ViewSettled, ThreadSettled

\* With its socket open and nothing under way the page of a chat shows the messages of
\* the chat as the relay has them, but for those a race has left to be loaded again.
THEOREM PageFollows == WebThreadSpec => []ThreadsAgree
<1>1. WorkInit /\ ThreadInit => PageInv BY PageInit
<1>2. PageInv /\ [WebThreadNext]_webThreadVars => PageInv' BY PageStep
<1>3. PageInv => ThreadsAgree BY PageAgrees
<1>. QED BY <1>1, <1>2, <1>3, PTL DEF WebThreadSpec

-----------------------------------------------------------------------------
(* The phone.                                                               *)

CopiesKnown == \A c \in Chats : KnownList(cached[c])

ReadApart(w) ==
  w \in ReadRuns =>
    /\ w.op \in {"visit", "poll", "refresh"} /\ DOMAIN w.got \subseteq In(w.chat)
    /\ w.pc = "cache" => w.op = "visit"
    /\ w.op = "refresh" => w.current
    /\ w.current => w.chat = picked
    /\ w.op = "visit" /\ w.current => link = "none"
CallApart(w) ==
  w \in ChangeRuns /\ w.own => w.chat = picked /\ ~ShowsOther /\ DOMAIN w.got \subseteq In(picked)
Visiting(w) == w \in ReadRuns /\ w.op = "visit" /\ w.current

\* The copies, the lists and the changes of a chat are its own.
PhoneApart ==
  /\ \A c \in Chats : DOMAIN cached[c] \subseteq In(c)
  /\ \E c \in Chats \cup {Nobody} : DOMAIN view \subseteq In(c)
  /\ link # "none" \/ polling => ~ShowsOther
  /\ link # "none" => picked \in Hosted
  /\ \A e \in air : link = "open" /\ ChatOf[e.msg] = picked
  /\ \A r \in Runs : ReadApart(work[r]) /\ CallApart(work[r])
  /\ \A r, q \in Runs : Visiting(work[r]) /\ Visiting(work[q]) => r = q

\* The thread that a text began with is put back with the text.
PostSettled ==
  \A r \in Runs : work[r] \in ChangeRuns /\ work[r].op = "post" /\ work[r].own =>
    \A m \in In(picked) \ loose : m # work[r].msg => ThreadSettled(work[r].got, m)

PhoneThreadInv ==
  /\ ThreadInv /\ CopyTypeOK /\ CopiesKnown
  /\ ~strayed => PhoneApart
  /\ ~strayed /\ link # "none" => ViewSettled /\ PostSettled

LEMMA PhoneThreadStarts ==
  ASSUME WorkInit, PhoneThreadInit
  PROVE  PhoneThreadInv
<1>1. ThreadInit /\ cached = [c \in Chats |-> Nothing] /\ polling = FALSE BY DEF PhoneThreadInit
<1>2. /\ ThreadInv /\ ~strayed /\ link = "none"
      /\ \A r \in Runs : work[r] = Free
  BY <1>1, ThreadStart
<1>3. air = {} /\ view = Nothing BY <1>1 DEF ThreadInit
<1>4. PhoneApart BY <1>1, <1>2, <1>3, NothingList, FreeTask DEF PhoneApart, ReadApart, CallApart, Visiting
<1>5. CopyTypeOK /\ CopiesKnown BY <1>1, NothingList DEF CopyTypeOK, CopiesKnown, KnownList
<1>. QED BY <1>2, <1>4, <1>5 DEF PhoneThreadInv

\* Nothing of the lists is lost while the rows and the events stay.
LEMMA StaysPosted ==
  ASSUME Base, ~strayed, picked \in Hosted, Carried, picked' = picked, loose \subseteq loose',
         \A q \in Runs : work'[q] \in ChangeRuns /\ work'[q].own /\ work'[q].op = "post" =>
           /\ work[q] \in ChangeRuns /\ work[q].own /\ work[q].op = "post"
           /\ work'[q].msg = work[q].msg /\ work'[q].got = work[q].got,
         PostSettled
  PROVE  PostSettled'
<1>1. ASSUME NEW q \in Runs, work'[q] \in ChangeRuns, work'[q].own, work'[q].op = "post",
             NEW m \in In(picked) \ loose', m # work'[q].msg
      PROVE  ThreadSettled(work[q].got, m)'
  <2>1. /\ work[q] \in ChangeRuns /\ work[q].own /\ work[q].op = "post"
        /\ work'[q].msg = work[q].msg /\ work'[q].got = work[q].got
    BY <1>1
  <2>2. m \in Messages \ loose' /\ ChatOf[m] \in Hosted /\ ThreadSettled(work[q].got, m)
    BY <1>1, <2>1 DEF In, PostSettled
  <2>3. PICK v : v = work[q].got OBVIOUS
  <2>4. v \in Lists BY <2>1, <2>3 DEF ChangeRuns
  <2>5. KnownList(v) BY <2>1, <2>3, FreeTask DEF Base, TaskOK
  <2>6. ThreadSettled(v, m)' BY <2>2, <2>3, <2>4, <2>5 DEF Carried
  <2>7. v = work'[q].got BY <2>1, <2>3
  <2>. QED BY <2>6, <2>7 DEF ThreadSettled
<1>. QED BY <1>1 DEF PostSettled, In

LEMMA PhoneRelay ==
  ASSUME PhoneThreadInv, ThreadStep, UNCHANGED copyVars
  PROVE  PhoneThreadInv'
<1>0. ThreadInv /\ Base BY DEF PhoneThreadInv, ThreadInv
<1>1. ThreadInv' /\ Common BY <1>0, RelayStep
<1>2. cached' = cached /\ polling' = polling /\ picked' = picked /\ view' = view /\ strayed' = strayed
  BY <1>1 DEF copyVars, Common
<1>3. CopyTypeOK' BY <1>2 DEF PhoneThreadInv, CopyTypeOK
<1>4. CopiesKnown' BY <1>1, <1>2 DEF PhoneThreadInv, CopiesKnown, KnownList, Common
<1>5. ASSUME ~strayed PROVE PhoneApart'
  <2>1. PhoneApart BY <1>5 DEF PhoneThreadInv
  <2>2. ShowsOther' = ShowsOther BY <1>2 DEF ShowsOther, In
  <2>3. \A c : In(c)' = In(c) BY DEF In
  <2>4. ASSUME NEW r \in Runs PROVE ReadApart(work[r])' /\ CallApart(work[r])'
    <3>1. ReadApart(work[r]) /\ CallApart(work[r]) BY <2>1 DEF PhoneApart
    <3>2. ReadApart(work[r])' BY <1>1, <1>2, <3>1 DEF ReadApart, Common, CallsKept, In
    <3>3. CallApart(work[r])' BY <1>1, <1>2, <2>2, <3>1 DEF CallApart, Common, CallsKept, In
    <3>. QED BY <3>2, <3>3
  <2>5. (\A r, q \in Runs : Visiting(work[r]) /\ Visiting(work[q]) => r = q)'
    BY <1>1, <2>1 DEF PhoneApart, Visiting, Common, CallsKept
  <2>6. (\A e \in air : link = "open" /\ ChatOf[e.msg] = picked)'
    BY <1>1, <1>2, <2>1 DEF PhoneApart, Common
  <2>7. link' # "none" <=> link # "none" BY <1>1 DEF Common
  <2>. QED BY <1>2, <2>1, <2>2, <2>4, <2>5, <2>6, <2>7 DEF PhoneApart, In
<1>6. ASSUME ~strayed, link' # "none" PROVE ViewSettled' /\ PostSettled'
  <2>1. link # "none" /\ Carried /\ loose \subseteq loose' BY <1>1, <1>6 DEF Common
  <2>2. ViewSettled /\ PostSettled /\ picked \in Hosted BY <1>6, <2>1 DEF PhoneThreadInv, PhoneApart
  <2>3. ViewSettled' BY <1>0, <1>2, <1>6, <2>1, <2>2, StaysSettled
  <2>4. \A q \in Runs : work'[q] \in ChangeRuns /\ work'[q].own /\ work'[q].op = "post" =>
           /\ work[q] \in ChangeRuns /\ work[q].own /\ work[q].op = "post"
           /\ work'[q].msg = work[q].msg /\ work'[q].got = work[q].got
    BY <1>1 DEF Common, CallsKept
  <2>5. PostSettled' BY <1>0, <1>2, <1>6, <2>1, <2>2, <2>4, StaysPosted
  <2>. QED BY <2>3, <2>5
<1>. QED BY <1>1, <1>2, <1>3, <1>4, <1>5, <1>6 DEF PhoneThreadInv

\* Steps that leave the view and the chat that is shown alone.
PhoneStays ==
  /\ UNCHANGED <<row, due, air, view, picked, link, polling>>
  /\ loose \subseteq loose' /\ (strayed => strayed')
  /\ CopyTypeOK' /\ CopiesKnown'
  /\ ~strayed' => \A c \in Chats : DOMAIN cached'[c] \subseteq In(c)
  /\ ~strayed' => \A q \in Runs : ReadApart(work'[q]) /\ CallApart(work'[q])
  /\ \A q \in Runs : Visiting(work'[q]) => Visiting(work[q])

LEMMA PhoneFrame ==
  ASSUME PhoneThreadInv, ThreadInv', PhoneStays,
         ~strayed' /\ link # "none" /\ PostSettled => PostSettled'
  PROVE  PhoneThreadInv'
<1>0. ThreadInv /\ Base /\ ThreadTypeOK BY DEF PhoneThreadInv, ThreadInv, Base
<1>1. /\ UNCHANGED <<row, due, air, view, picked, link, polling>>
      /\ loose \subseteq loose' /\ (~strayed' => ~strayed) /\ CopyTypeOK' /\ CopiesKnown'
  BY DEF PhoneStays
<1>2. ASSUME ~strayed' PROVE PhoneApart'
  <2>1. PhoneApart BY <1>1, <1>2 DEF PhoneThreadInv
  <2>2. ShowsOther' = ShowsOther /\ \A c : In(c)' = In(c) BY <1>1 DEF ShowsOther, In
  <2>3. ASSUME NEW q \in Runs PROVE ReadApart(work[q])' /\ CallApart(work[q])'
    <3>1. ReadApart(work'[q]) /\ CallApart(work'[q]) BY <1>2 DEF PhoneStays
    <3>2. ReadApart(work[q])' BY <1>1, <3>1 DEF ReadApart, In
    <3>3. CallApart(work[q])' BY <1>1, <2>2, <3>1 DEF CallApart, In
    <3>. QED BY <3>2, <3>3
  <2>4. (\A r, q \in Runs : Visiting(work[r]) /\ Visiting(work[q]) => r = q)'
    <3>1. \A q \in Runs : Visiting(work'[q]) => Visiting(work[q]) BY DEF PhoneStays
    <3>. QED BY <2>1, <3>1 DEF PhoneApart, Visiting
  <2>5. \A c \in Chats : DOMAIN cached'[c] \subseteq In(c) BY <1>2 DEF PhoneStays
  <2>. QED BY <1>1, <2>1, <2>2, <2>3, <2>4, <2>5 DEF PhoneApart, In
<1>3. ASSUME ~strayed', link' # "none" PROVE ViewSettled' /\ PostSettled'
  <2>1. ~strayed /\ link # "none" BY <1>1, <1>3
  <2>2. ViewSettled /\ PostSettled /\ picked \in Hosted BY <2>1 DEF PhoneThreadInv, PhoneApart
  <2>3. Carried BY <1>1, NothingMoves
  <2>4. ViewSettled' BY <1>0, <1>1, <2>1, <2>2, <2>3, StaysSettled
  <2>. QED BY <1>3, <2>1, <2>2, <2>4
<1>. QED BY <1>1, <1>2, <1>3 DEF PhoneThreadInv

\* One load of the phone goes on by itself.
LEMMA PhoneReads ==
  ASSUME PhoneThreadInv, NEW r \in Runs, NEW w \in Tasks, Turn(r, w), w \in ReadRuns \/ w = Free,
         work[r] \notin ChangeRuns,
         w \in ReadRuns => KnownList(w.got),
         ~strayed' => \A m \in Messages \ loose' : ChatOf[m] \in Hosted /\ Shows(w, m) => Follows(w.got, m),
         ~strayed' => ReadApart(w), Visiting(w) => Visiting(work[r]),
         UNCHANGED threadVars, polling' = polling, CopyTypeOK', CopiesKnown',
         ~strayed' => \A c \in Chats : DOMAIN cached'[c] \subseteq In(c)
  PROVE  PhoneThreadInv'
<1>0. ThreadInv /\ Base /\ ThreadTypeOK BY DEF PhoneThreadInv, ThreadInv, Base
<1>1. UNCHANGED <<row, due, air, picked, link, view, loose, strayed>> BY DEF threadVars
<1>2. /\ work' \in [Runs -> Tasks] /\ work'[r] = w
      /\ \A q \in Runs \ {r} : work'[q] = work[q]
  BY <1>0, Turned
<1>3. \A q \in Runs : GoesOn(q) BY <1>2 DEF GoesOn, Loading
<1>4. Quiet BY <1>0, <1>1, <1>2, <1>3, QuietFrame DEF ThreadTypeOK
<1>5. ThreadInv' BY <1>0, <1>4, QuietStep
<1>6. w \notin ChangeRuns BY FreeTask, Disjoint
<1>7. \A q \in Runs : Visiting(work'[q]) => Visiting(work[q]) BY <1>2
<1>8. ASSUME ~strayed' PROVE \A q \in Runs : ReadApart(work'[q]) /\ CallApart(work'[q])
  <2>1. PhoneApart BY <1>1, <1>8 DEF PhoneThreadInv
  <2>2. CallApart(w) BY <1>6 DEF CallApart
  <2>. QED BY <1>2, <1>8, <2>1, <2>2 DEF PhoneApart
<1>9. PhoneStays BY <1>1, <1>7, <1>8 DEF PhoneStays
<1>10. ASSUME ~strayed', link # "none", PostSettled PROVE PostSettled'
  <2>1. ~strayed BY <1>1, <1>10
  <2>2. picked \in Hosted BY <1>10, <2>1 DEF PhoneThreadInv, PhoneApart
  <2>3. Carried BY <1>1, NothingMoves
  <2>4. \A q \in Runs : work'[q] \in ChangeRuns /\ work'[q].own /\ work'[q].op = "post" =>
           /\ work[q] \in ChangeRuns /\ work[q].own /\ work[q].op = "post"
           /\ work'[q].msg = work[q].msg /\ work'[q].got = work[q].got
    BY <1>2, <1>6
  <2>. QED BY <1>0, <1>1, <1>10, <2>1, <2>2, <2>3, <2>4, StaysPosted
<1>. QED BY <1>5, <1>9, <1>10, PhoneFrame

LEMMA PhoneLoads ==
  ASSUME PhoneThreadInv, NEW r \in Runs, NEW op \in {"poll", "refresh"}, LoadAgain(r, op)
  PROVE  PhoneThreadInv'
<1>0. ThreadInv /\ Base /\ ThreadTypeOK BY DEF PhoneThreadInv, ThreadInv, Base
<1>1. /\ work[r].pc = "free" /\ picked # Nobody /\ Turn(r, Task(op, "asked", picked, Nobody, TRUE))
      /\ UNCHANGED threadVars /\ UNCHANGED copyVars
  BY DEF LoadAgain, Doing
<1>2. PICK w : w = Task(op, "asked", picked, Nobody, TRUE) OBVIOUS
<1>3. picked \in Chats BY <1>0, <1>1 DEF ThreadTypeOK
<1>4. /\ w \in ReadRuns /\ w.op = op /\ w.pc = "asked" /\ w.chat = picked
      /\ w.got = Nothing /\ w.current = TRUE
  BY <1>2, <1>3, NothingList DEF Task, ReadRuns, LoadOps
<1>5. work[r] \notin ChangeRuns BY <1>1 DEF ChangeRuns
<1>6. ReadApart(w) BY <1>4, NothingList DEF ReadApart
<1>7. KnownList(w.got) BY <1>4, NothingList DEF KnownList
<1>8. ~Visiting(w) /\ \A m : ~Shows(w, m) BY <1>4 DEF Visiting, Shows
<1>9. w \in Tasks /\ Turn(r, w) BY <1>1, <1>2, <1>4 DEF Tasks
<1>10. cached' = cached /\ polling' = polling BY <1>1 DEF copyVars
<1>11. CopyTypeOK' BY <1>10 DEF PhoneThreadInv, CopyTypeOK
<1>12. row' = row /\ strayed' = strayed BY <1>1 DEF threadVars
<1>13. CopiesKnown' BY <1>10, <1>12 DEF PhoneThreadInv, CopiesKnown, KnownList
<1>14. ~strayed' => \A c \in Chats : DOMAIN cached'[c] \subseteq In(c) BY <1>10, <1>12 DEF PhoneThreadInv, PhoneApart
<1>. QED BY <1>1, <1>4, <1>5, <1>6, <1>7, <1>8, <1>9, <1>10, <1>11, <1>13, <1>14, PhoneReads

\* What is saved of a chat.
LEMMA SavedCopies ==
  ASSUME PhoneThreadInv, NEW c, NEW v \in Lists, KnownList(v), Saved(c, v), row' = row,
         ~strayed => DOMAIN v \subseteq In(c)
  PROVE  /\ CopiesKnown'
         /\ cached' \in [Chats -> Lists]
         /\ ~strayed => \A d \in Chats : DOMAIN cached'[d] \subseteq In(d)
<1>1. cached \in [Chats -> Lists] /\ CopiesKnown BY DEF PhoneThreadInv, CopyTypeOK
<1>2. cached' = [cached EXCEPT ![c] = Over(v, cached[c])] BY DEF Saved
<1>3. CASE c \notin Chats
  <2>1. cached' = cached BY <1>1, <1>2, <1>3
  <2>. QED BY <1>1, <2>1 DEF PhoneThreadInv, PhoneApart, CopiesKnown, KnownList
<1>4. CASE c \in Chats
  <2>1. PICK u : u = Over(v, cached[c]) OBVIOUS
  <2>2. cached[c] \in Lists /\ KnownList(cached[c]) BY <1>1, <1>4 DEF CopiesKnown
  <2>3. u \in Lists /\ DOMAIN u = DOMAIN v \cup DOMAIN cached[c] BY <2>1, <2>2, OverList
  <2>4. cached' \in [Chats -> Lists] /\ cached'[c] = u /\ \A d \in Chats \ {c} : cached'[d] = cached[d]
    BY <1>1, <1>2, <1>4, <2>1, <2>3
  <2>5. KnownList(u) BY <2>2, <2>3 DEF KnownList
  <2>6. CopiesKnown'
    <3>1. ASSUME NEW d \in Chats PROVE KnownList(cached'[d])
      BY <1>1, <2>4, <2>5 DEF CopiesKnown
    <3>. QED BY <3>1 DEF CopiesKnown, KnownList
  <2>7. ASSUME ~strayed PROVE \A d \in Chats : DOMAIN cached'[d] \subseteq In(d)
    <3>1. \A d \in Chats : DOMAIN cached[d] \subseteq In(d) BY <2>7 DEF PhoneThreadInv, PhoneApart
    <3>. QED BY <1>4, <2>3, <2>4, <2>7, <3>1
  <2>. QED BY <2>4, <2>6, <2>7
<1>. QED BY <1>3, <1>4

LEMMA PhoneSaves ==
  ASSUME PhoneThreadInv, NEW r \in Runs, SaveList(r)
  PROVE  PhoneThreadInv'
<1>0. ThreadInv /\ Base /\ ThreadTypeOK BY DEF PhoneThreadInv, ThreadInv, Base
<1>1. PICK w : w = work[r] OBVIOUS
<1>2. PICK x : x = [w EXCEPT !.pc = "show"] OBVIOUS
<1>3. /\ w.pc = "listed" /\ Turn(r, x) /\ Saved(w.chat, w.got)
      /\ UNCHANGED threadVars /\ polling' = polling
  BY <1>1, <1>2 DEF SaveList, Step, Doing
<1>4. w \in ReadRuns BY <1>0, <1>1, <1>3, TaskSets DEF ThreadTypeOK
<1>5. /\ x \in ReadRuns /\ x.op = w.op /\ x.pc = "show" /\ x.chat = w.chat
      /\ x.got = w.got /\ x.current = w.current /\ w.got \in Lists
  BY <1>2, <1>4 DEF ReadRuns
<1>6. KnownList(w.got) BY <1>0, <1>1, <1>4, FreeTask DEF Base, TaskOK
<1>7. row' = row /\ strayed' = strayed /\ loose' = loose BY <1>3 DEF threadVars
<1>8. ASSUME ~strayed PROVE ReadApart(w)
  BY <1>1, <1>8 DEF PhoneThreadInv, PhoneApart
<1>9. ~strayed => DOMAIN w.got \subseteq In(w.chat) BY <1>4, <1>8 DEF ReadApart
<1>10. /\ CopiesKnown' /\ cached' \in [Chats -> Lists]
       /\ ~strayed => \A d \in Chats : DOMAIN cached'[d] \subseteq In(d)
  BY <1>3, <1>5, <1>6, <1>7, <1>9, SavedCopies
<1>11. CopyTypeOK' BY <1>3, <1>10 DEF PhoneThreadInv, CopyTypeOK
<1>12. ~strayed' => ReadApart(x) BY <1>4, <1>5, <1>7, <1>8 DEF ReadApart
<1>13. Visiting(x) => Visiting(work[r]) BY <1>1, <1>4, <1>5 DEF Visiting
<1>14. ASSUME ~strayed', NEW m \in Messages \ loose', ChatOf[m] \in Hosted, Shows(x, m)
       PROVE  Follows(x.got, m)
  <2>1. Shows(w, m) BY <1>3, <1>4, <1>5, <1>14 DEF Shows
  <2>2. ListTells(m) BY <1>0, <1>7, <1>14 DEF ThreadInv, MessageOK
  <2>. QED BY <1>1, <1>5, <2>1, <2>2 DEF ListTells
<1>15. work[r] \notin ChangeRuns BY <1>1, <1>4, Disjoint
<1>16. x \in Tasks BY <1>5 DEF Tasks
<1>. QED BY <1>3, <1>5, <1>6, <1>7, <1>10, <1>11, <1>12, <1>13, <1>14, <1>15, <1>16, PhoneReads

LEMMA PhoneCached ==
  ASSUME PhoneThreadInv, NEW r \in Runs, LoadCached(r)
  PROVE  PhoneThreadInv'
<1>0. ThreadInv /\ Base /\ ThreadTypeOK BY DEF PhoneThreadInv, ThreadInv, Base
<1>1. PICK w : w = work[r] OBVIOUS
<1>2. PICK v : v = cached[w.chat] OBVIOUS
<1>3. PICK x : x = [w EXCEPT !.pc = "show", !.got = v] OBVIOUS
<1>4. /\ w.pc = "asked" /\ w.op \notin ThreadOps /\ w.chat \notin Hosted /\ Turn(r, x)
      /\ UNCHANGED threadVars /\ cached' = cached /\ polling' = polling
  BY <1>1, <1>2, <1>3 DEF LoadCached, Doing, copyVars
<1>5. w \in ReadRuns
  <2>1. w \in Tasks BY <1>0, <1>1 DEF ThreadTypeOK
  <2>. QED BY <1>4, <2>1, TaskSets
<1>6. w.chat \in Chats BY <1>5 DEF ReadRuns
<1>7. v \in Lists /\ KnownList(v) BY <1>2, <1>6 DEF PhoneThreadInv, CopyTypeOK, CopiesKnown
<1>8. /\ x \in ReadRuns /\ x.op = w.op /\ x.pc = "show" /\ x.chat = w.chat
      /\ x.got = v /\ x.current = w.current
  BY <1>3, <1>5, <1>7 DEF ReadRuns
<1>9. row' = row /\ strayed' = strayed BY <1>4 DEF threadVars
<1>10. ASSUME ~strayed PROVE ReadApart(x) /\ \A c \in Chats : DOMAIN cached'[c] \subseteq In(c)
  <2>1. ReadApart(w) /\ \A c \in Chats : DOMAIN cached[c] \subseteq In(c)
    BY <1>1, <1>10 DEF PhoneThreadInv, PhoneApart
  <2>. QED BY <1>2, <1>4, <1>5, <1>6, <1>8, <2>1 DEF ReadApart
<1>11. Visiting(x) => Visiting(work[r]) BY <1>1, <1>5, <1>8 DEF Visiting
<1>12. \A m : ChatOf[m] \in Hosted => ~Shows(x, m) BY <1>4, <1>8 DEF Shows
<1>13. CopyTypeOK' BY <1>4 DEF PhoneThreadInv, CopyTypeOK
<1>14. CopiesKnown' BY <1>4, <1>9 DEF PhoneThreadInv, CopiesKnown, KnownList
<1>15. work[r] \notin ChangeRuns BY <1>1, <1>5, Disjoint
<1>16. x \in Tasks BY <1>8 DEF Tasks
<1>. QED BY <1>4, <1>7, <1>8, <1>9, <1>10, <1>11, <1>12, <1>13, <1>14, <1>15, <1>16, PhoneReads

LEMMA PhoneFails ==
  ASSUME PhoneThreadInv, NEW r \in Runs, FailLoad(r)
  PROVE  PhoneThreadInv'
<1>0. ThreadInv /\ Base /\ ThreadTypeOK BY DEF PhoneThreadInv, ThreadInv, Base
<1>1. /\ work[r].op \in Visits \cup {"refresh"} /\ Turn(r, Free)
      /\ UNCHANGED threadVars /\ cached' = cached /\ polling' = polling
  BY DEF FailLoad, Quit, copyVars
<1>2. work[r] \notin ChangeRuns BY <1>1 DEF ChangeRuns, Visits, ThreadOps
<1>3. row' = row /\ strayed' = strayed BY <1>1 DEF threadVars
<1>4. ReadApart(Free) /\ ~Visiting(Free) /\ \A m : ~Shows(Free, m) BY FreeTask DEF ReadApart, Visiting, Shows
<1>5. CopyTypeOK' BY <1>1 DEF PhoneThreadInv, CopyTypeOK
<1>6. CopiesKnown' BY <1>1, <1>3 DEF PhoneThreadInv, CopiesKnown, KnownList
<1>7. ~strayed' => \A c \in Chats : DOMAIN cached'[c] \subseteq In(c) BY <1>1, <1>3 DEF PhoneThreadInv, PhoneApart
<1>. QED BY <1>1, <1>2, <1>4, <1>5, <1>6, <1>7, FreeTask, PhoneReads

\* A text of an encrypted chat has left for the other devices.
LEMMA PhoneSent ==
  ASSUME PhoneThreadInv, NEW r \in Runs, Sent(r)
  PROVE  PhoneThreadInv'
<1>0. ThreadInv /\ Base /\ ThreadTypeOK BY DEF PhoneThreadInv, ThreadInv, Base
<1>1. PICK w : w = work[r] OBVIOUS
<1>2. PICK x : x = [w EXCEPT !.pc = "answer"] OBVIOUS
<1>3. /\ w.op \in ThreadOps /\ w.chat \notin Hosted /\ w.pc = "asked" /\ Turn(r, x)
      /\ UNCHANGED <<row, due, air, picked, link, view, loose, strayed, cached, polling>>
  BY <1>1, <1>2 DEF Sent, Step, Doing, threadVars, copyVars
<1>4. w \in ChangeRuns /\ TaskOK(w) BY <1>0, <1>1, <1>3, TaskSets DEF ThreadTypeOK, Base
<1>5. /\ x \in ChangeRuns /\ x.op = w.op /\ x.pc = "answer" /\ x.chat = w.chat /\ x.msg = w.msg
      /\ x.got = w.got /\ x.own = w.own
  BY <1>2, <1>4 DEF ChangeRuns
<1>6. /\ work' \in [Runs -> Tasks] /\ work'[r] = x
      /\ \A q \in Runs \ {r} : work'[q] = work[q]
  BY <1>0, <1>3, <1>5, Turned DEF Tasks
<1>7. TaskOK(x) BY <1>3, <1>4, <1>5, FreeTask DEF TaskOK
<1>8. ThreadChanging(r) BY <1>1, <1>3, <1>4, <1>5, <1>6, <1>7 DEF ThreadChanging
<1>9. \A q \in Runs : GoesOn(q) BY <1>6, <1>8 DEF GoesOn
<1>10. Quiet BY <1>0, <1>3, <1>6, <1>9, QuietFrame DEF ThreadTypeOK
<1>11. ThreadInv' BY <1>0, <1>10, QuietStep
<1>12. x \notin ReadRuns BY <1>5, Disjoint
<1>13. \A q \in Runs : Visiting(work'[q]) => Visiting(work[q]) BY <1>6, <1>12 DEF Visiting
<1>14. ASSUME ~strayed PROVE \A q \in Runs : ReadApart(work'[q]) /\ CallApart(work'[q])
  <2>1. \A q \in Runs : ReadApart(work[q]) /\ CallApart(work[q]) BY <1>14 DEF PhoneThreadInv, PhoneApart
  <2>2. ReadApart(x) BY <1>12 DEF ReadApart
  <2>3. CallApart(x) BY <1>1, <1>4, <1>5, <2>1 DEF CallApart
  <2>. QED BY <1>6, <2>1, <2>2, <2>3
<1>15. CopyTypeOK' /\ CopiesKnown' BY <1>3 DEF PhoneThreadInv, CopyTypeOK, CopiesKnown, KnownList
<1>16. ~strayed => \A c \in Chats : DOMAIN cached'[c] \subseteq In(c) BY <1>3 DEF PhoneThreadInv, PhoneApart
<1>17. PhoneStays BY <1>3, <1>13, <1>14, <1>15, <1>16 DEF PhoneStays
<1>18. ASSUME ~strayed', link # "none", PostSettled PROVE PostSettled'
  <2>1. ~strayed BY <1>3, <1>18
  <2>2. picked \in Hosted BY <1>18, <2>1 DEF PhoneThreadInv, PhoneApart
  <2>3. Carried BY <1>3, NothingMoves
  <2>4. \A q \in Runs : work'[q] \in ChangeRuns /\ work'[q].own /\ work'[q].op = "post" =>
           /\ work[q] \in ChangeRuns /\ work[q].own /\ work[q].op = "post"
           /\ work'[q].msg = work[q].msg /\ work'[q].got = work[q].got
    BY <1>1, <1>4, <1>5, <1>6
  <2>. QED BY <1>0, <1>3, <1>18, <2>1, <2>2, <2>3, <2>4, StaysPosted
<1>. QED BY <1>11, <1>17, <1>18, PhoneFrame

LEMMA PhoneStores ==
  ASSUME PhoneThreadInv, NEW m \in Messages, StoreSynced(m)
  PROVE  PhoneThreadInv'
<1>0. ThreadInv /\ Base /\ ThreadTypeOK BY DEF PhoneThreadInv, ThreadInv, Base
<1>1. /\ ChatOf[m] \notin Hosted /\ Saved(ChatOf[m], Just(m))
      /\ UNCHANGED <<work, row, due, air, picked, link, view, loose, strayed, polling>>
  BY DEF StoreSynced, threadVars
<1>2. PICK v : v = Just(m) OBVIOUS
<1>3. v \in Lists /\ DOMAIN v = {m} BY <1>2, JustList
<1>4. KnownList(v) /\ DOMAIN v \subseteq In(ChatOf[m]) BY <1>1, <1>3 DEF KnownList, In
<1>5. Saved(ChatOf[m], v) BY <1>1, <1>2
<1>6. /\ CopiesKnown' /\ cached' \in [Chats -> Lists]
      /\ ~strayed => \A d \in Chats : DOMAIN cached'[d] \subseteq In(d)
  BY <1>1, <1>3, <1>4, <1>5, SavedCopies
<1>7. CopyTypeOK' BY <1>1, <1>6 DEF PhoneThreadInv, CopyTypeOK
<1>8. Quiet BY <1>0, <1>1 DEF Quiet, SettledOnly, GoesOn, Base, ThreadTypeOK
<1>9. ThreadInv' BY <1>0, <1>8, QuietStep
<1>10. PhoneStays BY <1>1, <1>6, <1>7 DEF PhoneStays, PhoneThreadInv, PhoneApart
<1>11. ASSUME ~strayed', link # "none", PostSettled PROVE PostSettled'
  <2>1. ~strayed BY <1>1, <1>11
  <2>2. picked \in Hosted BY <1>11, <2>1 DEF PhoneThreadInv, PhoneApart
  <2>3. Carried BY <1>1, NothingMoves
  <2>. QED BY <1>0, <1>1, <1>11, <2>1, <2>2, <2>3, StaysPosted
<1>. QED BY <1>9, <1>10, <1>11, PhoneFrame

LEMMA PhoneAsks ==
  ASSUME PhoneThreadInv, NEW r \in Runs, NEW op \in ThreadOps, NEW m \in Messages, Act(r, op, m)
  PROVE  PhoneThreadInv'
<1>0. ThreadInv /\ Base /\ ThreadTypeOK BY DEF PhoneThreadInv, ThreadInv, Base
<1>1. /\ picked # Nobody /\ Ask(r, op, m, TRUE)
      /\ op = "post" => ChatOf[m] = picked
      /\ op # "post" => m \in DOMAIN view
      /\ strayed' = (strayed \/ ShowsOther)
      /\ UNCHANGED <<row, due, air, picked, link, view, cached, polling>>
  BY DEF Act
<1>2. TRUE \in BOOLEAN /\ picked \in Chats BY <1>0, <1>1 DEF ThreadTypeOK
<1>3. strayed' \in BOOLEAN /\ (strayed => strayed') BY <1>0, <1>1 DEF ThreadTypeOK
<1>4. ~strayed' => ChatOf[m] = picked BY <1>1 DEF ShowsOther, In
<1>5. ThreadInv' BY <1>0, <1>1, <1>2, <1>3, <1>4, AskStep
<1>6. /\ work' \in [Runs -> Tasks] /\ work'[r] \in ChangeRuns
      /\ work'[r].op = op /\ work'[r].msg = m /\ work'[r].chat = picked
      /\ work'[r].got = (IF op = "post" THEN view ELSE Nothing)
      /\ \A q \in Runs \ {r} : work'[q] = work[q]
      /\ loose' = IF Moving(m) THEN loose \cup {m} ELSE loose
  <2>1. work'[r] \in ChangeRuns /\ work'[r].chat = picked
    BY <1>0, <1>1, <1>2, AskEffect
  <2>2. work' \in [Runs -> Tasks] /\ work'[r].op = op /\ work'[r].msg = m
    BY <1>0, <1>1, <1>2, AskEffect
  <2>3. /\ \A q \in Runs \ {r} : work'[q] = work[q]
        /\ loose' = IF Moving(m) THEN loose \cup {m} ELSE loose
    BY <1>0, <1>1, <1>2, AskEffect
  <2>4. ASSUME op = "post" PROVE work'[r].got = view
    BY <1>0, <1>1, <1>2, <2>4, AskEffect
  <2>5. ASSUME op # "post" PROVE work'[r].got = Nothing
    BY <1>0, <1>1, <1>2, <2>5, AskEffect
  <2>. QED BY <2>1, <2>2, <2>3, <2>4, <2>5
<1>7. loose \subseteq loose' BY <1>6
<1>8. work'[r] \notin ReadRuns BY <1>6, Disjoint
<1>9. \A q \in Runs : Visiting(work'[q]) => Visiting(work[q]) BY <1>6, <1>8 DEF Visiting
<1>10. ASSUME ~strayed' PROVE \A q \in Runs : ReadApart(work'[q]) /\ CallApart(work'[q])
  <2>1. \A q \in Runs : ReadApart(work[q]) /\ CallApart(work[q]) BY <1>3, <1>10 DEF PhoneThreadInv, PhoneApart
  <2>2. ~ShowsOther BY <1>1, <1>10
  <2>3. DOMAIN work'[r].got \subseteq In(picked) BY <1>6, <2>2, NothingList DEF ShowsOther
  <2>4. ReadApart(work'[r]) /\ CallApart(work'[r]) BY <1>6, <1>8, <2>2, <2>3 DEF ReadApart, CallApart
  <2>. QED BY <1>6, <2>1, <2>4
<1>11. CopyTypeOK' /\ CopiesKnown' BY <1>1 DEF PhoneThreadInv, CopyTypeOK, CopiesKnown, KnownList
<1>12. ~strayed' => \A c \in Chats : DOMAIN cached'[c] \subseteq In(c) BY <1>1, <1>3 DEF PhoneThreadInv, PhoneApart
<1>13. PhoneStays BY <1>1, <1>3, <1>7, <1>9, <1>10, <1>11, <1>12 DEF PhoneStays
<1>14. ASSUME ~strayed', link # "none", PostSettled PROVE PostSettled'
  <2>1. ~strayed BY <1>3, <1>14
  <2>2. picked \in Hosted /\ ViewSettled BY <1>14, <2>1 DEF PhoneThreadInv, PhoneApart
  <2>3. Carried BY <1>1, NothingMoves
  <2>4. ViewSettled' BY <1>0, <1>1, <1>7, <2>1, <2>2, <2>3, StaysSettled
  <2>5. ASSUME NEW q \in Runs, work'[q] \in ChangeRuns, work'[q].own, work'[q].op = "post",
               NEW n \in In(picked) \ loose', n # work'[q].msg
        PROVE  ThreadSettled(work[q].got, n)'
    <3>1. CASE q = r
      <4>1. work'[q].got = view' BY <1>1, <1>6, <2>5, <3>1
      <4>2. ThreadSettled(view, n)' BY <1>1, <2>4, <2>5 DEF ViewSettled, In
      <4>. QED BY <4>1, <4>2 DEF ThreadSettled
    <3>2. CASE q # r
      <4>1. work'[q] = work[q] BY <1>6, <3>2
      <4>2. n \in In(picked) \ loose BY <1>7, <2>5
      <4>3. ThreadSettled(work[q].got, n) BY <1>14, <2>5, <4>1, <4>2 DEF PostSettled
      <4>4. PICK v : v = work[q].got OBVIOUS
      <4>5. ThreadSettled(v, n)' BY <1>1, <4>3, <4>4, SameEvents
      <4>6. v = work'[q].got BY <4>1, <4>4
      <4>. QED BY <4>5, <4>6 DEF ThreadSettled
    <3>. QED BY <3>1, <3>2
  <2>. QED BY <1>1, <2>5 DEF PostSettled, In
<1>. QED BY <1>5, <1>13, <1>14, PhoneFrame

\* The view is replaced by a list of the chat that is shown, if by any: what must
\* hold of the link, the interval and the calls for the chats to stay apart.
LEMMA PhoneShown ==
  ASSUME PhoneThreadInv, NEW r \in Runs, work[r] \in ReadRuns, ~strayed,
         work' \in [Runs -> Tasks], \A q \in Runs \ {r} : work'[q] = work[q],
         work'[r] = Free \/ (work'[r] \in ReadRuns /\ work'[r].op = work[r].op /\ work'[r].chat = work[r].chat
                            /\ work'[r].current = work[r].current /\ work'[r].got = work[r].got
                            /\ work'[r].pc = "asked"),
         UNCHANGED <<row, due, air, picked, cached, strayed>>,
         view' = view \/ (DOMAIN view' \subseteq In(picked) /\ picked \in Chats),
         link' = link \/ (link' = "connecting" /\ picked \in Hosted /\ Visiting(work[r]) /\ work'[r] = Free
                         /\ DOMAIN view' \subseteq In(picked)),
         polling' = polling \/ DOMAIN view' \subseteq In(picked)
  PROVE  PhoneApart'
<1>1. PhoneApart BY DEF PhoneThreadInv
<1>2. \A c : In(c)' = In(c) BY DEF In
<1>3. ~ShowsOther => ~ShowsOther' BY <1>2 DEF ShowsOther
<1>4. DOMAIN view' \subseteq In(picked) => ~ShowsOther' BY <1>2 DEF ShowsOther
<1>5. (\E c \in Chats \cup {Nobody} : DOMAIN view \subseteq In(c))' BY <1>1, <1>2 DEF PhoneApart
<1>6. (link # "none" \/ polling => ~ShowsOther)' BY <1>1, <1>3, <1>4 DEF PhoneApart
<1>7. \A q \in Runs : work'[q] \in ChangeRuns => work'[q] = work[q] BY FreeTask, Disjoint
<1>9. ASSUME NEW q \in Runs, Visiting(work'[q]) PROVE Visiting(work[q]) /\ link' = link
  <2>1. Visiting(work[q]) BY <1>9, FreeTask DEF Visiting
  <2>2. ASSUME Visiting(work[r]), work'[r] = Free PROVE FALSE
    <3>1. q = r BY <1>1, <2>1, <2>2 DEF PhoneApart
    <3>. QED BY <1>9, <2>2, <3>1, FreeTask DEF Visiting
  <2>. QED BY <2>1, <2>2
<1>10. ASSUME NEW q \in Runs PROVE ReadApart(work[q])'
  <2>1. ReadApart(work[q]) BY <1>1 DEF PhoneApart
  <2>2. CASE work'[q] \notin ReadRuns BY <2>2 DEF ReadApart
  <2>3. CASE work'[q] \in ReadRuns
    <3>1. /\ work[q] \in ReadRuns /\ work'[q].op = work[q].op /\ work'[q].chat = work[q].chat
          /\ work'[q].current = work[q].current /\ work'[q].got = work[q].got
          /\ work'[q].pc = "cache" => work[q].pc = "cache"
      BY <2>3, FreeTask
    <3>2. work'[q].op = "visit" /\ work'[q].current => link' = link BY <1>9, <2>3 DEF Visiting
    <3>. QED BY <2>1, <3>1, <3>2 DEF ReadApart, In
  <2>. QED BY <2>2, <2>3
<1>11. ASSUME NEW q \in Runs PROVE CallApart(work[q])'
  <2>1. CallApart(work[q]) BY <1>1 DEF PhoneApart
  <2>. QED BY <1>3, <1>7, <2>1 DEF CallApart, In
<1>12. (\A p, q \in Runs : Visiting(work[p]) /\ Visiting(work[q]) => p = q)'
  BY <1>1, <1>9 DEF PhoneApart, Visiting
<1>13. (\A e \in air : link = "open" /\ ChatOf[e.msg] = picked)'
  <2>1. ASSUME Visiting(work[r]) PROVE link = "none"
    BY <1>1, <2>1 DEF PhoneApart, ReadApart, Visiting
  <2>. QED BY <1>1, <2>1 DEF PhoneApart
<1>14. (link # "none" => picked \in Hosted)' BY <1>1 DEF PhoneApart
<1>15. (\A c \in Chats : DOMAIN cached[c] \subseteq In(c))' BY <1>1, <1>2 DEF PhoneApart
<1>. QED BY <1>5, <1>6, <1>10, <1>11, <1>12, <1>13, <1>14, <1>15 DEF PhoneApart

\* The messages that a list makes settled again are those that nothing moves.
LEMMA ReplaceSettles ==
  ASSUME ThreadTypeOK, NEW v, Replace(v)
  PROVE  SettledOnly /\ loose' \subseteq Messages /\ view' = v
BY DEF Replace, Unsettled, SettledOnly, ThreadTypeOK

\* Nothing is shown: the lists stay settled.
LEMMA PhoneUnseen ==
  ASSUME PhoneThreadInv, ~strayed, link # "none",
         UNCHANGED <<row, due, air, picked, view, loose>>,
         \A q \in Runs : work'[q] \in ChangeRuns => work'[q] = work[q]
  PROVE  ViewSettled' /\ PostSettled'
<1>0. Base /\ picked \in Hosted /\ ViewSettled /\ PostSettled BY DEF PhoneThreadInv, ThreadInv, PhoneApart
<1>1. Carried BY NothingMoves
<1>2. ViewSettled' BY <1>0, <1>1, StaysSettled
<1>3. PostSettled' BY <1>0, <1>1, StaysPosted
<1>. QED BY <1>2, <1>3

LEMMA PhoneReadsCache ==
  ASSUME PhoneThreadInv, NEW r \in Runs, ReadCache(r)
  PROVE  PhoneThreadInv'
<1>0. ThreadInv /\ Base /\ ThreadTypeOK BY DEF PhoneThreadInv, ThreadInv, Base
<1>1. PICK w : w = work[r] OBVIOUS
<1>2. PICK x : x = [w EXCEPT !.pc = "asked"] OBVIOUS
<1>3. PICK v : v = cached[w.chat] OBVIOUS
<1>4. /\ w.pc = "cache" /\ Turn(r, x)
      /\ UNCHANGED <<row, due, air, picked, link, strayed, cached, polling>>
      /\ (w.current /\ Replace(v)) \/ (view' = view /\ loose' = loose)
  BY <1>1, <1>2, <1>3 DEF ReadCache, Step, Doing, copyVars
<1>5. w \in ReadRuns BY <1>0, <1>1, <1>4, TaskSets DEF ThreadTypeOK
<1>6. /\ x \in ReadRuns /\ x.op = w.op /\ x.pc = "asked" /\ x.chat = w.chat
      /\ x.got = w.got /\ x.current = w.current /\ w.chat \in Chats
  BY <1>2, <1>5 DEF ReadRuns
<1>7. /\ work' \in [Runs -> Tasks] /\ work'[r] = x
      /\ \A q \in Runs \ {r} : work'[q] = work[q]
  BY <1>0, <1>4, <1>6, Turned DEF Tasks
<1>8. v \in Lists /\ KnownList(v) BY <1>3, <1>6 DEF PhoneThreadInv, CopyTypeOK, CopiesKnown
<1>9. KnownList(x.got) BY <1>0, <1>1, <1>5, <1>6, FreeTask DEF Base, TaskOK
<1>10. Loading(r) BY <1>6, <1>7, <1>9 DEF Loading, Shows
<1>11. \A q \in Runs : GoesOn(q) BY <1>7, <1>10 DEF GoesOn
<1>12. /\ view' \in Lists /\ KnownList(view') /\ loose' \subseteq Messages /\ SettledOnly
       /\ view' = view \/ (w.current /\ view' = v)
  <2>1. CASE w.current /\ Replace(v) BY <1>0, <1>8, <2>1, ReplaceSettles
  <2>2. CASE view' = view /\ loose' = loose BY <1>0, <2>2 DEF Base, ThreadTypeOK, SettledOnly
  <2>. QED BY <1>4, <2>1, <2>2
<1>13. Quiet BY <1>0, <1>4, <1>7, <1>11, <1>12 DEF Quiet, ThreadTypeOK
<1>14. ThreadInv' BY <1>0, <1>13, QuietStep
<1>15. CopyTypeOK' /\ CopiesKnown' BY <1>4 DEF PhoneThreadInv, CopyTypeOK, CopiesKnown, KnownList
<1>16. ASSUME ~strayed'
       PROVE  PhoneApart' /\ (link' # "none" => ViewSettled' /\ PostSettled')
  <2>1. ~strayed /\ PhoneApart BY <1>4, <1>16 DEF PhoneThreadInv
  <2>2. ReadApart(w) /\ DOMAIN v \subseteq In(w.chat) BY <1>1, <1>3, <1>6, <2>1 DEF PhoneApart
  <2>3. w.current => w.chat = picked /\ link = "none"
    BY <1>4, <1>5, <2>2 DEF ReadApart
  <2>4. view' = view \/ (DOMAIN view' \subseteq In(picked) /\ picked \in Chats)
    BY <1>6, <1>12, <2>2, <2>3
  <2>5. PhoneApart' BY <1>1, <1>4, <1>5, <1>6, <1>7, <2>1, <2>4, PhoneShown
  <2>6. ASSUME link' # "none" PROVE ViewSettled' /\ PostSettled'
    <3>1. link # "none" /\ view' = view /\ loose' = loose BY <1>4, <2>3, <2>6
    <3>2. x \notin ChangeRuns BY <1>6, Disjoint
    <3>. QED BY <1>4, <1>7, <2>1, <3>1, <3>2, PhoneUnseen
  <2>. QED BY <2>5, <2>6
<1>. QED BY <1>14, <1>15, <1>16 DEF PhoneThreadInv

LEMMA PhoneShows ==
  ASSUME PhoneThreadInv, NEW r \in Runs, ShowThread(r)
  PROVE  PhoneThreadInv'
<1>0. ThreadInv /\ Base /\ ThreadTypeOK BY DEF PhoneThreadInv, ThreadInv, Base
<1>1. PICK w : w = work[r] OBVIOUS
<1>2. PICK v : v = w.got OBVIOUS
<1>3. PICK first : first = (w.op = "visit" /\ MayShow(w)) OBVIOUS
<1>4. /\ w.pc = "show" /\ Turn(r, Free)
      /\ IF MayShow(w) THEN Replace(v) ELSE view' = view /\ loose' = loose
      /\ link' = (IF first /\ w.chat \in Hosted THEN "connecting" ELSE link)
      /\ polling' = (polling \/ (first /\ w.chat \notin Hosted))
      /\ UNCHANGED <<row, due, air, picked, cached, strayed>>
  BY <1>1, <1>2, <1>3 DEF ShowThread, Doing, Quit
<1>5. w \in ReadRuns BY <1>0, <1>1, <1>4, TaskSets DEF ThreadTypeOK
<1>6. v \in Lists /\ w.chat \in Chats /\ w.current \in BOOLEAN BY <1>2, <1>5 DEF ReadRuns
<1>7. KnownList(v) BY <1>0, <1>1, <1>2, <1>5, FreeTask DEF Base, TaskOK
<1>8. /\ work' \in [Runs -> Tasks] /\ work'[r] = Free
      /\ \A q \in Runs \ {r} : work'[q] = work[q]
  BY <1>0, <1>4, FreeTask, Turned
<1>9. \A q \in Runs : GoesOn(q) BY <1>8 DEF GoesOn
<1>10. /\ view' \in Lists /\ KnownList(view') /\ loose' \subseteq Messages /\ SettledOnly
       /\ IF MayShow(w) THEN view' = v ELSE view' = view
  <2>1. CASE MayShow(w) BY <1>0, <1>4, <1>6, <1>7, <2>1, ReplaceSettles
  <2>2. CASE ~MayShow(w) BY <1>0, <1>4, <2>2 DEF Base, ThreadTypeOK, SettledOnly
  <2>. QED BY <2>1, <2>2
<1>11. link' \in {"none", "connecting", "open"} /\ polling' \in BOOLEAN
  <2>1. polling \in BOOLEAN /\ first \in BOOLEAN BY <1>3 DEF PhoneThreadInv, CopyTypeOK
  <2>. QED BY <1>0, <1>4, <2>1 DEF ThreadTypeOK
<1>12. Quiet BY <1>0, <1>4, <1>8, <1>9, <1>10, <1>11 DEF Quiet, ThreadTypeOK
<1>13. ThreadInv' BY <1>0, <1>12, QuietStep
<1>14. CopyTypeOK' /\ CopiesKnown' BY <1>4, <1>11 DEF PhoneThreadInv, CopyTypeOK, CopiesKnown, KnownList
<1>15. ASSUME ~strayed'
       PROVE  PhoneApart' /\ (link' # "none" => ViewSettled' /\ PostSettled')
  <2>1. ~strayed /\ PhoneApart BY <1>4, <1>15 DEF PhoneThreadInv
  <2>2. ReadApart(w) BY <1>1, <2>1 DEF PhoneApart
  <2>3. /\ w.op \in {"visit", "poll", "refresh"} /\ DOMAIN v \subseteq In(w.chat)
        /\ w.op = "refresh" => w.current
        /\ w.current => w.chat = picked
    BY <1>2, <1>5, <2>2 DEF ReadApart
  <2>4. MayShow(w) => w.current BY <2>3 DEF MayShow, Visits
  <2>5. first => MayShow(w) /\ Visiting(work[r]) BY <1>1, <1>3, <1>5, <2>4 DEF Visiting
  <2>6. view' = view \/ (DOMAIN view' \subseteq In(picked) /\ picked \in Chats)
    BY <1>6, <1>10, <2>3, <2>4
  <2>7. first => DOMAIN view' \subseteq In(picked) /\ w.chat = picked BY <1>10, <2>3, <2>4, <2>5
  <2>8. /\ link' = link \/ (link' = "connecting" /\ picked \in Hosted /\ Visiting(work[r])
                             /\ work'[r] = Free /\ DOMAIN view' \subseteq In(picked))
        /\ polling' = polling \/ DOMAIN view' \subseteq In(picked)
    <3>1. CASE first BY <1>4, <1>8, <2>5, <2>7, <3>1
    <3>2. CASE ~first
      <4>1. polling \in BOOLEAN BY DEF PhoneThreadInv, CopyTypeOK
      <4>. QED BY <1>4, <3>2, <4>1
    <3>. QED BY <3>1, <3>2
  <2>9. PhoneApart' BY <1>1, <1>4, <1>5, <1>8, <2>1, <2>6, <2>8, PhoneShown
  <2>10. ASSUME link' # "none", ~MayShow(w) PROVE ViewSettled' /\ PostSettled'
    <3>1. link # "none" /\ view' = view /\ loose' = loose BY <1>4, <2>5, <2>10
    <3>2. \A q \in Runs : work'[q] \in ChangeRuns => work'[q] = work[q] BY <1>8, FreeTask
    <3>. QED BY <1>4, <2>1, <3>1, <3>2, PhoneUnseen
  <2>11. ASSUME link' # "none", MayShow(w) PROVE ViewSettled' /\ PostSettled'
    <3>1. picked \in Hosted BY <1>4, <2>1, <2>9, <2>11 DEF PhoneApart
    <3>2. w.chat = picked BY <2>3, <2>4, <2>11
    <3>3. view' = v /\ loose' = IF Sending # {} THEN Messages ELSE Unsettled(v)
      BY <1>4, <2>11 DEF Replace, Unsettled
    <3>4. CASE Sending # {} BY <3>3, <3>4 DEF ViewSettled, PostSettled, In
    <3>5. CASE Sending = {}
      <4>1. ASSUME NEW m \in In(picked) \ loose' PROVE ThreadSettled(view, m)'
        <5>1. m \in Messages \ loose' /\ ChatOf[m] = picked BY <4>1 DEF In
        <5>2. Shows(work[r], m) BY <1>1, <1>4, <1>5, <3>2, <5>1 DEF Shows
        <5>3. loose' = Unsettled(work[r].got) BY <1>1, <1>2, <3>3, <3>5 DEF Unsettled
        <5>4. v = work[r].got BY <1>1, <1>2
        <5>5. ThreadSettled(v, m)' BY <1>0, <1>4, <2>1, <3>1, <5>1, <5>2, <5>3, <5>4, ShownSettles
        <5>. QED BY <3>3, <5>5 DEF ThreadSettled
      <4>2. ViewSettled' BY <1>4, <4>1 DEF ViewSettled, In
      <4>3. \A q \in Runs : ~(work'[q] \in ChangeRuns /\ work'[q].op = "post" /\ work'[q].own)
        <5>1. \A q \in Runs : ~(work[q] \in ChangeRuns /\ work[q].op = "post" /\ work[q].own)
          BY <1>0, <3>5, PendingSets
        <5>. QED BY <1>8, <5>1, FreeTask
      <4>4. PostSettled' BY <4>3 DEF PostSettled
      <4>. QED BY <4>2, <4>4
    <3>. QED BY <3>4, <3>5
  <2>. QED BY <2>9, <2>10, <2>11
<1>. QED BY <1>13, <1>14, <1>15 DEF PhoneThreadInv

LEMMA PhonePicks ==
  ASSUME PhoneThreadInv, NEW r \in Runs, NEW c \in Chats, Pick(r, c)
  PROVE  PhoneThreadInv'
<1>0. ThreadInv /\ Base /\ ThreadTypeOK BY DEF PhoneThreadInv, ThreadInv, Base
<1>1. PICK x : x = Task("visit", "cache", c, Nobody, TRUE) OBVIOUS
<1>2. /\ x \in ReadRuns /\ x.op = "visit" /\ x.pc = "cache" /\ x.chat = c
      /\ x.got = Nothing /\ x.current = TRUE
  BY <1>1, NothingList DEF Task, ReadRuns, LoadOps
<1>3. /\ work[r].pc = "free" /\ picked' = c /\ link' = "none" /\ polling' = FALSE
      /\ air' = {} /\ loose' = loose \cup {e.msg : e \in air}
      /\ view' = view \/ view' = Nothing
      /\ strayed' = (strayed \/ (c # picked /\ Unguarded # {}))
      /\ UNCHANGED <<row, due, cached>>
      /\ work' = [q \in Runs |-> IF q = r THEN x
                     ELSE IF q \in Pending /\ work[q].op \in Visits
                          THEN [work[q] EXCEPT !.current = FALSE] ELSE work[q]]
  BY <1>1 DEF Pick, Doing, CutOff
<1>4. work'[r] = x BY <1>3
<1>5. ASSUME NEW q \in Runs, q # r
      PROVE  \/ work'[q] = work[q] /\ ~(work[q] \in ReadRuns /\ work[q].op \in Visits)
             \/ /\ work[q] \in ReadRuns /\ work'[q] \in ReadRuns /\ work[q].op \in Visits
                /\ work'[q].op = work[q].op /\ work'[q].pc = work[q].pc /\ work'[q].chat = work[q].chat
                /\ work'[q].got = work[q].got /\ ~work'[q].current
  <2>1. CASE q \in Pending /\ work[q].op \in Visits
    <3>1. work[q] \in ReadRuns BY <1>0, <2>1, TaskSets DEF ThreadTypeOK, Visits, LoadOps
    <3>2. PICK y : y = work[q] OBVIOUS
    <3>3. PICK z : z = [y EXCEPT !.current = FALSE] OBVIOUS
    <3>4. /\ z \in ReadRuns /\ z.op = y.op /\ z.pc = y.pc /\ z.chat = y.chat
          /\ z.got = y.got /\ ~z.current
      BY <3>1, <3>2, <3>3 DEF ReadRuns
    <3>5. work'[q] = z BY <1>3, <1>5, <2>1, <3>2, <3>3
    <3>. QED BY <2>1, <3>1, <3>2, <3>4, <3>5
  <2>2. CASE ~(q \in Pending /\ work[q].op \in Visits)
    <3>1. work'[q] = work[q] BY <1>3, <1>5, <2>2
    <3>2. work[q] \in ReadRuns => q \in Pending BY <1>0, PendingSets
    <3>. QED BY <2>2, <3>1, <3>2
  <2>. QED BY <2>1, <2>2
<1>6. work' \in [Runs -> Tasks]
  <2>1. \A q \in Runs : work'[q] \in Tasks BY <1>0, <1>2, <1>4, <1>5 DEF ThreadTypeOK, Tasks
  <2>. QED BY <1>3, <2>1
<1>7. loose \subseteq loose' /\ loose' \subseteq Messages
  <2>1. \A e \in air : e.msg \in Messages BY <1>0 DEF ThreadTypeOK, Events
  <2>. QED BY <1>0, <1>3, <2>1 DEF ThreadTypeOK
<1>8. strayed' \in BOOLEAN /\ (strayed => strayed')
  BY <1>0, <1>3 DEF ThreadTypeOK
<1>9. view' \in Lists /\ KnownList(view') BY <1>0, <1>3, NothingList DEF Base, ThreadTypeOK, KnownList
<1>10. ASSUME NEW q \in Runs PROVE GoesOn(q)
  <2>1. CASE q = r
    <3>1. Loading(r) BY <1>2, <1>4, NothingList DEF Loading, KnownList, Shows
    <3>. QED BY <2>1, <3>1 DEF GoesOn
  <2>2. CASE q # r /\ work'[q] # work[q]
    <3>1. /\ work[q] \in ReadRuns /\ work'[q] \in ReadRuns
          /\ work'[q].pc = work[q].pc /\ work'[q].chat = work[q].chat /\ work'[q].got = work[q].got
      BY <1>5, <2>2
    <3>2. KnownList(work'[q].got) BY <1>0, <3>1, FreeTask DEF Base, TaskOK
    <3>3. ASSUME ~strayed', NEW m \in Messages \ loose', ChatOf[m] \in Hosted, Shows(work'[q], m)
          PROVE  Follows(work'[q].got, m)
      <4>1. ListTells(m) BY <1>0, <1>7, <1>8, <3>3 DEF ThreadInv, MessageOK
      <4>2. Shows(work[q], m) BY <3>1, <3>3 DEF Shows
      <4>. QED BY <3>1, <4>1, <4>2 DEF ListTells
    <3>4. Loading(q) BY <3>1, <3>2, <3>3 DEF Loading
    <3>. QED BY <3>4 DEF GoesOn
  <2>. QED BY <2>1, <2>2 DEF GoesOn
<1>11. Quiet BY <1>0, <1>3, <1>6, <1>7, <1>8, <1>9, <1>10 DEF Quiet, SettledOnly, ThreadTypeOK
<1>12. ThreadInv' BY <1>0, <1>11, QuietStep
<1>13. CopyTypeOK' /\ CopiesKnown' BY <1>3 DEF PhoneThreadInv, CopyTypeOK, CopiesKnown, KnownList
<1>14. ASSUME ~strayed' PROVE PhoneApart'
  <2>1. ~strayed /\ PhoneApart BY <1>8, <1>14 DEF PhoneThreadInv
  <2>2. c # picked => Unguarded = {} BY <1>3, <1>14
  <2>3. \A d : In(d)' = In(d) BY DEF In
  <2>4. c = picked /\ ~ShowsOther => ~ShowsOther' BY <1>3, <2>3, NothingList DEF ShowsOther
  <2>5. (\E d \in Chats \cup {Nobody} : DOMAIN view \subseteq In(d))'
    BY <1>3, <2>1, <2>3, NothingList DEF PhoneApart
  <2>6. ASSUME NEW q \in Runs PROVE ReadApart(work[q])' /\ CallApart(work[q])'
    <3>1. ReadApart(work[q]) /\ CallApart(work[q]) BY <2>1 DEF PhoneApart
    <3>2. CASE q = r
      <4>1. work'[r] \notin ChangeRuns BY <1>2, <1>4, Disjoint
      <4>. QED BY <1>2, <1>3, <1>4, <3>2, <4>1, NothingList DEF ReadApart, CallApart
    <3>3. CASE q # r /\ work[q] \in ReadRuns /\ work[q].op \in Visits
      <4>1. /\ work[q] \in ReadRuns /\ work'[q] \in ReadRuns /\ work[q].op \in {"visit", "poll"}
            /\ work'[q].op = work[q].op /\ work'[q].pc = work[q].pc /\ work'[q].chat = work[q].chat
            /\ work'[q].got = work[q].got /\ ~work'[q].current
        BY <1>5, <3>3 DEF Visits
      <4>2. work'[q] \notin ChangeRuns BY <4>1, Disjoint
      <4>. QED BY <3>1, <4>1, <4>2 DEF ReadApart, CallApart, In
    <3>4. CASE q # r /\ ~(work[q] \in ReadRuns /\ work[q].op \in Visits)
      <4>1. work'[q] = work[q] BY <1>5, <3>4
      <4>2. ASSUME work[q] \in ReadRuns PROVE q \in Unguarded /\ work[q].op = "refresh"
        <5>1. work[q].op = "refresh" BY <3>1, <3>4, <4>2 DEF ReadApart, Visits
        <5>2. q \in Pending BY <1>0, <4>2, PendingSets
        <5>. QED BY <5>1, <5>2 DEF Unguarded
      <4>3. ASSUME work[q] \in ChangeRuns, work[q].own PROVE q \in Unguarded
        <5>1. work[q].op \in ThreadOps BY <4>3 DEF ChangeRuns
        <5>2. q \in Pending BY <1>0, <4>3, PendingSets
        <5>. QED BY <4>3, <5>1, <5>2 DEF Unguarded
      <4>4. work[q] \in ReadRuns => c = picked BY <2>2, <4>2
      <4>5. work[q] \in ChangeRuns /\ work[q].own => c = picked BY <2>2, <4>3
      <4>6. ReadApart(work[q])' BY <1>3, <3>1, <4>1, <4>2, <4>4 DEF ReadApart, In
      <4>7. CallApart(work[q])' BY <1>3, <2>4, <3>1, <4>1, <4>5 DEF CallApart, In
      <4>. QED BY <4>6, <4>7
    <3>. QED BY <3>2, <3>3, <3>4
  <2>7. ASSUME NEW q \in Runs, Visiting(work'[q]) PROVE q = r
    BY <1>5, <2>7 DEF Visiting, Visits
  <2>8. (\A p, q \in Runs : Visiting(work[p]) /\ Visiting(work[q]) => p = q)'
    BY <2>7 DEF Visiting
  <2>9. (\A d \in Chats : DOMAIN cached[d] \subseteq In(d))' BY <1>3, <2>1, <2>3 DEF PhoneApart
  <2>. QED BY <1>3, <2>5, <2>6, <2>8, <2>9 DEF PhoneApart
<1>. QED BY <1>3, <1>12, <1>13, <1>14 DEF PhoneThreadInv

\* What the answer to a change makes of the view.
LEMMA MergedList ==
  ASSUME PhoneThreadInv, NEW r \in Runs, work[r] \in ChangeRuns, work[r].pc = "answer", NEW v, v = Merged(work[r])
  PROVE  /\ v \in Lists /\ KnownList(v)
         /\ work[r].op = "post" =>
              /\ DOMAIN v = DOMAIN work[r].got \cup {work[r].msg} /\ v[work[r].msg] = Fresh
              /\ \A n \in DOMAIN work[r].got \ {work[r].msg} : v[n] = work[r].got[n]
         /\ work[r].op # "post" => DOMAIN v = DOMAIN view
<1>0. Base /\ ThreadTypeOK /\ TaskOK(work[r]) BY DEF PhoneThreadInv, ThreadInv, Base
<1>1. PICK w : w = work[r] OBVIOUS
<1>2. PICK g : g = w.got OBVIOUS
<1>3. /\ w.msg \in Messages /\ g \in Lists /\ w.liked \in BOOLEAN /\ w.op \in ThreadOps
  BY <1>1, <1>2 DEF ChangeRuns
<1>4. KnownList(g) /\ KnownList(view) /\ view \in Lists
  BY <1>0, <1>1, <1>2, FreeTask DEF TaskOK, Base, ThreadTypeOK
<1>5. CASE w.op = "post"
  <2>1. v = Over(Just(w.msg), g) BY <1>1, <1>2, <1>5 DEF Merged
  <2>2. /\ v \in Lists /\ DOMAIN v = DOMAIN g \cup {w.msg} /\ v[w.msg] = Fresh
        /\ \A n \in DOMAIN g \ {w.msg} : v[n] = g[n]
    BY <1>3, <2>1, PutList
  <2>3. ChatOf[w.msg] \in Hosted => w.msg \in DOMAIN row BY <1>0, <1>1, <1>5 DEF TaskOK
  <2>4. KnownList(v) BY <1>4, <2>2, <2>3 DEF KnownList
  <2>. QED BY <1>1, <1>2, <1>5, <2>2, <2>4
<1>6. CASE w.op # "post"
  <2>1. PICK b : b = (w.msg \in DOMAIN view /\ ~view[w.msg].liked) OBVIOUS
  <2>2. PICK e : e = Outcome(w) OBVIOUS
  <2>3. b \in BOOLEAN BY <2>1
  <2>4. e = [Event(w) EXCEPT !.liked = IF w.chat \in Hosted THEN w.liked ELSE b]
    BY <2>1, <2>2 DEF Outcome, Event
  <2>5. e \in Events /\ e.what = w.op BY <1>3, <2>3, <2>4 DEF Event, Events
  <2>6. v = WithChange(view, e) BY <1>1, <1>6, <2>2 DEF Merged
  <2>7. v \in Lists /\ DOMAIN v = DOMAIN view BY <1>4, <1>6, <2>5, <2>6, ChangeList
  <2>8. KnownList(v) BY <1>4, <2>7 DEF KnownList
  <2>. QED BY <1>1, <1>6, <2>7, <2>8
<1>. QED BY <1>5, <1>6

\* The view and the copy of one chat change together; the calls end or stay.
PhoneChanges ==
  /\ UNCHANGED <<row, due, picked, link, polling, strayed>>
  /\ air' \subseteq air /\ loose \subseteq loose' /\ loose' \subseteq Messages
  /\ work' \in [Runs -> Tasks] /\ \A q \in Runs : work'[q] = work[q] \/ work'[q] = Free
  /\ view' \in Lists /\ KnownList(view')
  /\ cached' \in [Chats -> Lists] /\ CopiesKnown'
  /\ ~strayed => \A c \in Chats : DOMAIN cached'[c] \subseteq In(c)
  /\ ~strayed => DOMAIN view' \subseteq DOMAIN view \/ (picked \in Chats /\ DOMAIN view' \subseteq In(picked))

LEMMA PhoneChanged ==
  ASSUME PhoneThreadInv, PhoneChanges,
         ~strayed /\ link # "none" /\ ViewSettled /\ PostSettled => ViewSettled' /\ PostSettled'
  PROVE  PhoneThreadInv'
<1>0. ThreadInv /\ Base /\ ThreadTypeOK BY DEF PhoneThreadInv, ThreadInv, Base
<1>1. \A q \in Runs : GoesOn(q) BY DEF PhoneChanges, GoesOn
<1>2. Quiet BY <1>0, <1>1 DEF PhoneChanges, Quiet, SettledOnly, ThreadTypeOK
<1>3. ThreadInv' BY <1>0, <1>2, QuietStep
<1>4. CopyTypeOK' /\ CopiesKnown' BY DEF PhoneChanges, PhoneThreadInv, CopyTypeOK
<1>5. ASSUME ~strayed PROVE PhoneApart'
  <2>1. PhoneApart BY <1>5 DEF PhoneThreadInv
  <2>2. \A c : In(c)' = In(c) BY DEF In
  <2>3. DOMAIN view' \subseteq DOMAIN view \/ (picked \in Chats /\ DOMAIN view' \subseteq In(picked))
    BY <1>5 DEF PhoneChanges
  <2>4. ~ShowsOther => ~ShowsOther' BY <2>2, <2>3 DEF ShowsOther, PhoneChanges
  <2>5. (\E c \in Chats \cup {Nobody} : DOMAIN view \subseteq In(c))' BY <2>1, <2>2, <2>3 DEF PhoneApart
  <2>6. ASSUME NEW q \in Runs PROVE ReadApart(work[q])' /\ CallApart(work[q])'
    <3>1. ReadApart(work[q]) /\ CallApart(work[q]) BY <2>1 DEF PhoneApart
    <3>2. work'[q] = work[q] \/ work'[q] = Free BY DEF PhoneChanges
    <3>3. picked' = picked /\ link' = link BY DEF PhoneChanges
    <3>4. ReadApart(work[q])' BY <3>1, <3>2, <3>3, FreeTask DEF ReadApart, In
    <3>5. CallApart(work[q])' BY <2>4, <3>1, <3>2, <3>3, FreeTask DEF CallApart, In
    <3>. QED BY <3>4, <3>5
  <2>7. (\A p, q \in Runs : Visiting(work[p]) /\ Visiting(work[q]) => p = q)'
    <3>1. \A q \in Runs : Visiting(work'[q]) => Visiting(work[q]) BY FreeTask DEF PhoneChanges, Visiting
    <3>. QED BY <2>1, <3>1 DEF PhoneApart, Visiting
  <2>8. (\A c \in Chats : DOMAIN cached[c] \subseteq In(c))' BY <1>5, <2>2 DEF PhoneChanges
  <2>. QED BY <2>1, <2>4, <2>5, <2>6, <2>7, <2>8 DEF PhoneApart, PhoneChanges
<1>6. ~strayed' /\ link' # "none" => ViewSettled' /\ PostSettled' BY DEF PhoneChanges, PhoneThreadInv
<1>. QED BY <1>3, <1>4, <1>5, <1>6 DEF PhoneThreadInv, PhoneChanges

LEMMA PhoneAnswered ==
  ASSUME PhoneThreadInv, NEW r \in Runs, TakeAnswer(r)
  PROVE  PhoneThreadInv'
<1>0. ThreadInv /\ Base /\ ThreadTypeOK BY DEF PhoneThreadInv, ThreadInv, Base
<1>1. PICK w : w = work[r] OBVIOUS
<1>2. PICK v : v = Merged(work[r]) OBVIOUS
<1>3. /\ w.pc = "answer" /\ w.own /\ Turn(r, Free) /\ view' = v
      /\ IF w.op = "edit" THEN cached' = cached ELSE Saved(w.chat, v)
      /\ UNCHANGED <<row, due, air, picked, link, loose, polling, strayed>>
  BY <1>1, <1>2 DEF TakeAnswer, Answered, Quit
<1>4. w \in ChangeRuns BY <1>0, <1>1, <1>3, TaskSets DEF ThreadTypeOK
<1>5. /\ v \in Lists /\ KnownList(v)
      /\ w.op = "post" =>
           /\ DOMAIN v = DOMAIN w.got \cup {w.msg} /\ v[w.msg] = Fresh
           /\ \A n \in DOMAIN w.got \ {w.msg} : v[n] = w.got[n]
      /\ w.op # "post" => DOMAIN v = DOMAIN view
  BY <1>1, <1>2, <1>3, <1>4, MergedList
<1>6. /\ work' \in [Runs -> Tasks] /\ work'[r] = Free
      /\ \A q \in Runs \ {r} : work'[q] = work[q]
  BY <1>0, <1>3, FreeTask, Turned
<1>7. w.chat \in Chats /\ w.msg \in Messages /\ w.got \in Lists BY <1>4 DEF ChangeRuns
<1>8. ASSUME ~strayed
      PROVE  w.chat = picked /\ DOMAIN view \subseteq In(picked) /\ DOMAIN v \subseteq In(picked)
  <2>1. CallApart(w) BY <1>1, <1>8 DEF PhoneThreadInv, PhoneApart
  <2>2. w.chat = picked /\ DOMAIN view \subseteq In(picked) /\ DOMAIN w.got \subseteq In(picked)
    BY <1>3, <1>4, <2>1 DEF CallApart, ShowsOther
  <2>3. w.op = "post" => ChatOf[w.msg] = picked BY <1>0, <1>1, <1>4, <2>2 DEF Base, TaskOK
  <2>4. w.op = "post" => w.msg \in In(picked) BY <1>7, <2>3 DEF In
  <2>. QED BY <1>5, <2>2, <2>4
<1>9. /\ CopiesKnown' /\ cached' \in [Chats -> Lists]
      /\ ~strayed => \A d \in Chats : DOMAIN cached'[d] \subseteq In(d)
  <2>1. CASE w.op = "edit"
    <3>1. cached' = cached /\ row' = row BY <1>3, <2>1
    <3>. QED BY <3>1 DEF PhoneThreadInv, PhoneApart, CopyTypeOK, CopiesKnown, KnownList
  <2>2. CASE w.op # "edit"
    <3>1. Saved(w.chat, v) /\ row' = row BY <1>3, <2>2
    <3>. QED BY <1>5, <1>8, <3>1, SavedCopies
  <2>. QED BY <2>1, <2>2
<1>10. \A q \in Runs : work'[q] = work[q] \/ work'[q] = Free BY <1>6
<1>11. view' \in Lists /\ KnownList(view') BY <1>3, <1>5
<1>12. PhoneChanges
  BY <1>0, <1>3, <1>6, <1>7, <1>8, <1>9, <1>10, <1>11 DEF PhoneChanges, ThreadTypeOK
<1>13. ASSUME ~strayed, link # "none", ViewSettled, PostSettled PROVE ViewSettled' /\ PostSettled'
  <2>1. picked \in Hosted BY <1>13 DEF PhoneThreadInv, PhoneApart
  <2>2. ASSUME NEW m \in In(picked) \ loose PROVE ThreadSettled(v, m)
    <3>1. m \in Messages \ loose /\ ChatOf[m] \in Hosted BY <2>1, <2>2 DEF In
    <3>2. MessageOK(m) BY <1>0, <1>13, <3>1 DEF ThreadInv
    <3>3. CASE w.op = "post" /\ m = w.msg
      <4>1. Tells(Event(w)) BY <1>1, <1>3, <1>4, <3>2, <3>3 DEF MessageOK, CallTells, Touches
      <4>2. m \in DOMAIN row /\ row[m] = Fresh BY <3>3, <4>1 DEF Tells, Event
      <4>3. m \in DOMAIN v /\ v[m] = Fresh BY <1>5, <3>3
      <4>4. Follows(v, m) BY <4>2, <4>3, FreshMarks DEF Follows, Live
      <4>5. CastTells(m) BY <3>2 DEF MessageOK
      <4>. QED BY <1>0, <1>5, <4>4, <4>5, FollowsSettles
    <3>4. CASE w.op = "post" /\ m # w.msg
      <4>1. ThreadSettled(w.got, m) BY <1>1, <1>3, <1>4, <1>13, <2>2, <3>4 DEF PostSettled
      <4>2. PICK g : g = w.got OBVIOUS
      <4>3. g \in Lists /\ ThreadSettled(g, m) BY <1>7, <4>1, <4>2
      <4>4. /\ m \in DOMAIN v <=> m \in DOMAIN g
            /\ m \in DOMAIN g => v[m] = g[m]
        BY <1>5, <3>4, <4>2
      <4>. QED BY <1>0, <1>5, <4>3, <4>4, SameAt
    <3>5. CASE w.op # "post"
      <4>1. w.chat \in Hosted BY <1>8, <1>13, <2>1
      <4>2. Outcome(w) = Event(w) BY <4>1 DEF Outcome, Event
      <4>3. v = WithChange(view, Event(work[r])) BY <1>1, <1>2, <3>5, <4>2 DEF Merged
      <4>4. PICK u : u = view OBVIOUS
      <4>5. u \in Lists /\ ThreadSettled(u, m) BY <1>0, <1>13, <2>2, <4>4 DEF ThreadTypeOK, ViewSettled
      <4>6. ThreadSettled(WithChange(u, Event(work[r])), m)
        BY <1>0, <1>1, <1>3, <1>4, <3>2, <4>5, AnswerApplied
      <4>. QED BY <4>3, <4>4, <4>6
    <3>. QED BY <3>3, <3>4, <3>5
  <2>3. ASSUME NEW m \in In(picked) \ loose' PROVE ThreadSettled(view, m)'
    <3>1. ThreadSettled(v, m) BY <1>3, <2>2, <2>3
    <3>2. ThreadSettled(v, m)' BY <1>3, <3>1, SameEvents
    <3>. QED BY <1>3, <3>2 DEF ThreadSettled
  <2>4. ViewSettled' BY <1>3, <2>3 DEF ViewSettled, In
  <2>5. Carried BY <1>3, NothingMoves
  <2>6. \A q \in Runs : work'[q] \in ChangeRuns => work'[q] = work[q] BY <1>6, FreeTask
  <2>7. PostSettled' BY <1>0, <1>3, <1>13, <2>1, <2>5, <2>6, StaysPosted
  <2>. QED BY <2>4, <2>7
<1>. QED BY <1>12, <1>13, PhoneChanged

LEMMA PhoneRemoves ==
  ASSUME PhoneThreadInv, NEW m \in Messages, RemoveHere(m)
  PROVE  PhoneThreadInv'
<1>0. ThreadInv /\ Base /\ ThreadTypeOK BY DEF PhoneThreadInv, ThreadInv, Base
<1>1. PICK v : v = Without(view, m) OBVIOUS
<1>2. /\ m \in DOMAIN view /\ view' = v /\ Saved(ChatOf[m], v) /\ loose' = loose \cup {m}
      /\ UNCHANGED <<work, row, due, air, picked, link, polling, strayed>>
  BY <1>1 DEF RemoveHere
<1>3. view \in Lists /\ KnownList(view) BY <1>0 DEF Base, ThreadTypeOK
<1>4. DOMAIN view \subseteq Messages /\ view \in [DOMAIN view -> Marks] BY <1>3, ListIff
<1>5. /\ DOMAIN v = DOMAIN view \ {m} /\ v \in [DOMAIN view \ {m} -> Marks]
      /\ \A n \in DOMAIN v : v[n] = view[n]
  BY <1>1, <1>4 DEF Without
<1>6. v \in Lists BY <1>4, <1>5, ListIff
<1>7. KnownList(v) BY <1>3, <1>5 DEF KnownList
<1>8. ASSUME ~strayed PROVE DOMAIN v \subseteq In(ChatOf[m])
  <2>1. PICK c \in Chats \cup {Nobody} : DOMAIN view \subseteq In(c) BY <1>8 DEF PhoneThreadInv, PhoneApart
  <2>2. c = ChatOf[m] BY <1>2, <2>1 DEF In
  <2>. QED BY <1>5, <2>1, <2>2
<1>9. /\ CopiesKnown' /\ cached' \in [Chats -> Lists]
      /\ ~strayed => \A d \in Chats : DOMAIN cached'[d] \subseteq In(d)
  BY <1>2, <1>6, <1>7, <1>8, SavedCopies
<1>10. PhoneChanges BY <1>0, <1>2, <1>5, <1>6, <1>7, <1>9 DEF PhoneChanges, ThreadTypeOK, KnownList
<1>11. ASSUME ~strayed, link # "none", ViewSettled, PostSettled PROVE ViewSettled' /\ PostSettled'
  <2>1. picked \in Hosted BY <1>11 DEF PhoneThreadInv, PhoneApart
  <2>2. ASSUME NEW n \in In(picked) \ loose' PROVE ThreadSettled(view, n)'
    <3>1. n # m /\ ThreadSettled(view, n) BY <1>2, <1>11, <2>2 DEF ViewSettled
    <3>2. PICK u : u = view OBVIOUS
    <3>3. u \in Lists /\ ThreadSettled(u, n) BY <1>3, <3>1, <3>2
    <3>4. (n \in DOMAIN v <=> n \in DOMAIN u) /\ (n \in DOMAIN u => v[n] = u[n])
      BY <1>5, <3>1, <3>2
    <3>5. ThreadSettled(v, n) BY <1>0, <1>6, <3>3, <3>4, SameAt
    <3>6. ThreadSettled(v, n)' BY <1>2, <3>5, SameEvents
    <3>. QED BY <1>2, <3>6 DEF ThreadSettled
  <2>3. ViewSettled' BY <1>2, <2>2 DEF ViewSettled, In
  <2>4. Carried BY <1>2, NothingMoves
  <2>5. PostSettled' BY <1>0, <1>2, <1>11, <2>1, <2>4, StaysPosted
  <2>. QED BY <2>3, <2>5
<1>. QED BY <1>10, <1>11, PhoneChanged

LEMMA PhoneHears ==
  ASSUME PhoneThreadInv, NEW e, HearOnPhone(e)
  PROVE  PhoneThreadInv'
<1>0. ThreadInv /\ Base /\ ThreadTypeOK BY DEF PhoneThreadInv, ThreadInv, Base
<1>1. /\ Hear(e) /\ polling' = polling
      /\ loose' = loose \cup (IF \E r \in Sending : work[r].msg # e.msg THEN {e.msg} ELSE {})
      /\ cached' = cached \/ Saved(picked, view')
  BY DEF HearOnPhone
<1>2. /\ e \in air /\ e \in Events /\ link = "open" /\ air' = air \ {e} /\ view' = WithChange(view, e)
      /\ view' \in Lists /\ KnownList(view')
      /\ UNCHANGED <<work, row, due, picked, link, strayed>>
  BY <1>0, <1>1, HearEffect
<1>3. e.msg \in Messages /\ ChatOf[e.msg] \in Chats BY <1>2, ThreadAssumption DEF Events
<1>4. PICK v : v = view' OBVIOUS
<1>5. v \in Lists /\ KnownList(v) /\ DOMAIN v \subseteq DOMAIN view \cup {e.msg}
  <2>1. view \in Lists BY <1>0 DEF ThreadTypeOK
  <2>2. DOMAIN WithChange(view, e) = IF e.what = "post" THEN DOMAIN view \cup {e.msg} ELSE DOMAIN view
    BY <1>2, <2>1, ChangeList
  <2>. QED BY <1>2, <1>4, <2>2
<1>6. ASSUME ~strayed PROVE picked \in Chats /\ DOMAIN v \subseteq In(picked)
  <2>1. ChatOf[e.msg] = picked /\ DOMAIN view \subseteq In(picked)
    BY <1>2, <1>6 DEF PhoneThreadInv, PhoneApart, ShowsOther
  <2>2. e.msg \in In(picked) BY <1>3, <2>1 DEF In
  <2>. QED BY <1>3, <1>5, <2>1, <2>2
<1>7. /\ CopiesKnown' /\ cached' \in [Chats -> Lists]
      /\ ~strayed => \A d \in Chats : DOMAIN cached'[d] \subseteq In(d)
  <2>1. CASE cached' = cached
    BY <1>2, <2>1 DEF PhoneThreadInv, PhoneApart, CopyTypeOK, CopiesKnown, KnownList
  <2>2. CASE Saved(picked, view')
    <3>1. Saved(picked, v) /\ row' = row BY <1>2, <1>4, <2>2
    <3>. QED BY <1>5, <1>6, <3>1, SavedCopies
  <2>. QED BY <1>1, <2>1, <2>2
<1>8. loose \subseteq loose' /\ loose' \subseteq Messages BY <1>0, <1>1, <1>3 DEF ThreadTypeOK
<1>9. PhoneChanges
  <2>1. work' \in [Runs -> Tasks] /\ (\A q \in Runs : work'[q] = work[q]) /\ air' \subseteq air
    BY <1>0, <1>2 DEF ThreadTypeOK
  <2>. QED BY <1>1, <1>2, <1>4, <1>6, <1>7, <1>8, <2>1 DEF PhoneChanges
<1>10. ASSUME ~strayed, link # "none", ViewSettled, PostSettled PROVE ViewSettled' /\ PostSettled'
  <2>1. picked \in Hosted BY <1>10 DEF PhoneThreadInv, PhoneApart
  <2>2. ASSUME NEW m \in In(picked) \ loose' PROVE ThreadSettled(view, m)'
    <3>1. m \in Messages \ loose /\ ChatOf[m] \in Hosted /\ ThreadSettled(view, m)
      BY <1>8, <1>10, <2>1, <2>2 DEF In, ViewSettled
    <3>2. MessageOK(m) BY <1>0, <1>10, <3>1 DEF ThreadInv
    <3>3. PICK u : u = view OBVIOUS
    <3>4. u \in Lists /\ ThreadSettled(u, m) BY <1>0, <3>1, <3>3 DEF ThreadTypeOK
    <3>5. ThreadSettled(WithChange(u, e), m)' BY <1>0, <1>2, <3>2, <3>4, HeardApplied
    <3>6. PICK x : x = WithChange(u, e) OBVIOUS
    <3>7. x = WithChange(u, e)' BY <3>6 DEF WithChange, Over, Just
    <3>8. ThreadSettled(x, m)' BY <3>5, <3>7 DEF ThreadSettled
    <3>9. view' = x BY <1>2, <3>3, <3>6
    <3>. QED BY <3>8, <3>9 DEF ThreadSettled
  <2>3. ViewSettled' BY <1>2, <2>2 DEF ViewSettled, In
  <2>4. ASSUME NEW q \in Runs, work[q] \in ChangeRuns, work[q].op = "post", work[q].own,
               NEW m \in In(picked) \ loose', m # work[q].msg
        PROVE  ThreadSettled(work[q].got, m)'
    <3>1. ThreadSettled(work[q].got, m) BY <1>8, <1>10, <2>4 DEF PostSettled
    <3>2. q \in Sending BY <1>0, <2>4, PendingSets
    <3>3. e.msg # m
      <4>1. ASSUME e.msg = m PROVE FALSE
        <5>1. e.msg \in loose' BY <1>1, <2>4, <3>2, <4>1
        <5>. QED BY <2>4, <4>1, <5>1
      <4>. QED BY <4>1
    <3>4. \A f : f.msg = m => (f \in due' \cup air' <=> f \in due \cup air) BY <1>2, <3>3
    <3>5. PICK g : g = work[q].got OBVIOUS
    <3>6. ThreadSettled(g, m)' BY <1>2, <3>1, <3>4, <3>5, SameEvents
    <3>7. g = work'[q].got BY <1>2, <3>5
    <3>. QED BY <3>5, <3>6, <3>7 DEF ThreadSettled
  <2>5. PostSettled' BY <1>2, <2>4 DEF PostSettled, In
  <2>. QED BY <2>3, <2>5
<1>. QED BY <1>9, <1>10, PhoneChanged

LEMMA PhoneThreadStep ==
  ASSUME PhoneThreadInv, [PhoneThreadNext]_phoneThreadVars
  PROVE  PhoneThreadInv'
<1>1. CASE UNCHANGED phoneThreadVars
  <2>1. UNCHANGED <<work, row, due, air, picked, link, view, loose, strayed, cached, polling>>
    BY <1>1 DEF phoneThreadVars, threadVars, copyVars
  <2>2. Base /\ ThreadTypeOK BY DEF PhoneThreadInv, ThreadInv, Base
  <2>3. Quiet BY <2>1, <2>2 DEF Quiet, GoesOn, SettledOnly, Base, ThreadTypeOK
  <2>4. ThreadInv' BY <2>3, QuietStep DEF PhoneThreadInv
  <2>5. PhoneStays
    BY <2>1 DEF PhoneStays, PhoneThreadInv, PhoneApart, CopyTypeOK, CopiesKnown, KnownList
  <2>6. ~strayed' /\ link # "none" /\ PostSettled => PostSettled'
    BY <2>1, PhoneUnseen DEF PhoneThreadInv
  <2>. QED BY <2>4, <2>5, <2>6, PhoneFrame
<1>2. CASE PhoneThreadNext
  BY <1>2, PhoneRelay, PhonePicks, PhoneLoads, PhoneAsks, PhoneReadsCache, PhoneSaves, PhoneCached,
     PhoneShows, PhoneFails, PhoneSent, PhoneAnswered, PhoneStores, PhoneRemoves, PhoneHears
  DEF PhoneThreadNext
<1>. QED BY <1>1, <1>2

LEMMA PhoneAgrees ==
  ASSUME PhoneThreadInv
  PROVE  ThreadsAgree
BY DEF PhoneThreadInv, ThreadsAgree, ViewSettled, ThreadSettled

\* With its socket open and nothing under way the phone shows the messages of a hosted
\* chat as the relay has them, but for those a race has left to be loaded again.
THEOREM PhoneFollows == PhoneThreadSpec => []ThreadsAgree
<1>1. WorkInit /\ PhoneThreadInit => PhoneThreadInv BY PhoneThreadStarts
<1>2. PhoneThreadInv /\ [PhoneThreadNext]_phoneThreadVars => PhoneThreadInv' BY PhoneThreadStep
<1>3. PhoneThreadInv => ThreadsAgree BY PhoneAgrees
<1>. QED BY <1>1, <1>2, <1>3, PTL DEF PhoneThreadSpec

\* What the phone keeps and shows of a chat are messages of that chat, unless the chat
\* was left while a call was under way that does not look.
THEOREM ChatsApart == PhoneThreadSpec => []ThreadsApart
<1>1. WorkInit /\ PhoneThreadInit => PhoneThreadInv BY PhoneThreadStarts
<1>2. PhoneThreadInv /\ [PhoneThreadNext]_phoneThreadVars => PhoneThreadInv' BY PhoneThreadStep
<1>3. PhoneThreadInv => ThreadsApart BY DEF PhoneThreadInv, PhoneApart, ThreadsApart
<1>. QED BY <1>1, <1>2, <1>3, PTL DEF PhoneThreadSpec
=============================================================================
