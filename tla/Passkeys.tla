------------------------------ MODULE Passkeys ------------------------------
(***************************************************************************)
(* Passkeys (apps/relay/src/handlers/passkeys.ts).  What an authenticator   *)
(* signs and what the WebAuthn library accepts is outside src/: a response  *)
(* names its credential and its challenge and carries the next value of the *)
(* authenticator's counter, or 0 from one that does not count.              *)
(***************************************************************************)
EXTENDS Sessions, Sequences

CONSTANTS Credentials,    \* what authenticators hold
          FirstKeys,      \* those registered at the start |-> account
          Counting,       \* those whose authenticator counts
          Challenges,     \* rows of passkey_challenges
          MaxVerifies     \* bound of the model: sign-ins with one credential at once

ASSUME PasskeysAssumption ==
  /\ DOMAIN FirstKeys \subseteq Credentials /\ DOMAIN FirstKeys \cap Requests = {}
  /\ FirstKeys \in [DOMAIN FirstKeys -> Founders]
  /\ IsFiniteSet(Challenges) /\ Counting \subseteq Credentials
  /\ MaxVerifies \in Nat \ {0}

VARIABLES passkey,    \* passkeys: credential |-> the row, its account and counter
          ticket,     \* challenges that were issued: kind, account, and whether
                      \* the row is there and has not expired
          order,      \* the register challenges, as they were created
          response,   \* what authenticators have signed
          retired,    \* credentials deleted while no sign-in with them was
                      \* running, and not registered again (history)
          raced       \* credentials with which two sign-ins overlapped (history)

keyVars == <<passkey, ticket, order, response, retired, raced>>

KeysInit ==
  /\ passkey = [k \in DOMAIN FirstKeys |-> [row |-> k, account |-> FirstKeys[k], counter |-> 0]]
  /\ ticket = [t \in {} |-> Nothing]
  /\ order = <<>>
  /\ response = {} /\ retired = {} /\ raced = {}

Registered(k) == k \in DOMAIN passkey
Waiting(t) == t \in DOMAIN ticket /\ ticket[t].open
Lapse(t) == ticket' = [ticket EXCEPT ![t].open = FALSE]
SignInsWith(k) == {r \in Running("verify") : run[r].on.key = k}

-----------------------------------------------------------------------------
(* The authenticator, and time.                                             *)

LastCount(k) ==
  LET counts == {x.count : x \in {y \in response : y.key = k}} \cup {0}
  IN  CHOOSE n \in counts : \A m \in counts : m <= n

\* One that was restored from a copy repeats its last count.
Sign(k, t) ==
  /\ Waiting(t)
  /\ \A x \in response : x.challenge # t
  /\ \E n \in IF k \in Counting THEN {LastCount(k), LastCount(k) + 1} \ {0} ELSE {0} :
       response' = response \cup {[key |-> k, challenge |-> t, count |-> n]}
  /\ UNCHANGED <<passkey, ticket, order, retired, raced, sessionVars>>

\* expires_at passes.
TicketLapses(t) ==
  /\ Waiting(t) /\ Lapse(t)
  /\ UNCHANGED <<passkey, order, response, retired, raced, sessionVars>>

-----------------------------------------------------------------------------
(* POST /v1/passkeys/register/options and /v1/passkeys/auth/options         *)

Issue(t, kind, account) ==
  /\ t \notin DOMAIN ticket
  /\ ticket' = [u \in DOMAIN ticket \cup {t} |->
                  IF u = t THEN [kind |-> kind, account |-> account, open |-> TRUE]
                  ELSE ticket[u]]

\* The session is read before; the verification reads it again.
IssueRegister(t, s) ==
  /\ Usable(s) /\ Issue(t, "register", session[s].account)
  /\ order' = Append(order, t)
  /\ UNCHANGED <<passkey, response, retired, raced, sessionVars>>

IssueAuthenticate(t) ==
  /\ Issue(t, "authenticate", Nothing)
  /\ UNCHANGED <<passkey, order, response, retired, raced, sessionVars>>

-----------------------------------------------------------------------------
(* POST /v1/passkeys/register/verify                                        *)

BeginEnrol(r, s, x) ==
  /\ Usable(s)
  /\ Begin(r, "enrol", "challenge", s, x, session[s].account, Nothing)
  /\ UNCHANGED <<keyVars, session, suspended, lost, out>>

\* t is the account's newest challenge that waits.
Newest(a, t) ==
  \E i \in DOMAIN order :
    /\ order[i] = t /\ Waiting(t) /\ ticket[t].account = a
    /\ \A j \in (i + 1)..Len(order) : ~(Waiting(order[j]) /\ ticket[order[j]].account = a)

FindTicket(r) ==
  /\ At(r, "enrol", "challenge")
  /\ IF Newest(run[r].account, run[r].on.challenge)
     THEN Advance(r, "enrol", "challenge", "duplicate") ELSE Finish(r, "enrol", "challenge")
  /\ UNCHANGED <<keyVars, session, suspended, lost, out>>

FindDuplicate(r) ==
  /\ At(r, "enrol", "duplicate")
  /\ IF Registered(run[r].on.key)
     THEN Finish(r, "enrol", "duplicate") ELSE Advance(r, "enrol", "duplicate", "insert")
  /\ UNCHANGED <<keyVars, session, suspended, lost, out>>

NewKey(r) == [row |-> r, account |-> run[r].account, counter |-> run[r].on.count]

\* passkeys.credential_id is UNIQUE.
InsertKey(r) ==
  LET x == run[r].on IN
  /\ At(r, "enrol", "insert") /\ ~Registered(x.key)
  /\ Advance(r, "enrol", "insert", "ticket")
  /\ passkey' = [k \in DOMAIN passkey \cup {x.key} |->
                  IF k = x.key THEN NewKey(r) ELSE passkey[k]]
  /\ retired' = retired \ {x.key}
  /\ UNCHANGED <<ticket, order, response, raced, session, suspended, lost, out>>

\* The INSERT fails and the request with it.
KeyTaken(r) ==
  /\ At(r, "enrol", "insert") /\ Registered(run[r].on.key)
  /\ Finish(r, "enrol", "insert")
  /\ UNCHANGED <<keyVars, session, suspended, lost, out>>

DropTicket(r) ==
  /\ \/ Advance(r, "enrol", "ticket", "done")
     \/ Advance(r, "verify", "ticket", "session")
  /\ Lapse(run[r].on.challenge)
  /\ UNCHANGED <<passkey, order, response, retired, raced, session, suspended, lost, out>>

-----------------------------------------------------------------------------
(* POST /v1/passkeys/auth/verify                                            *)

Answerable(t) == Waiting(t)

BeginVerify(r, x) ==
  /\ ticket[x.challenge].kind = "authenticate" /\ Answerable(x.challenge)
  /\ Cardinality(SignInsWith(x.key)) < MaxVerifies
  /\ Begin(r, "verify", "key", Nothing, x, Nothing, Nothing)
  /\ raced' = IF SignInsWith(x.key) = {} THEN raced ELSE raced \cup {x.key}
  /\ UNCHANGED <<passkey, ticket, order, response, retired, session, suspended, lost, out>>

\* verifyAuthenticationResponse
CountAccepted(x) ==
  \/ x.count > passkey[x.key].counter
  \/ x.count = 0 /\ passkey[x.key].counter = 0

\* seen: the row that was read.
ReadKey(r) ==
  /\ At(r, "verify", "key")
  /\ LET x == run[r].on
         accepted == Registered(x.key) /\ CountAccepted(x) IN
     run' = [run EXCEPT ![r] =
       IF accepted THEN [@ EXCEPT !.pc = "count", !.seen = passkey[x.key].row,
                                  !.account = passkey[x.key].account]
       ELSE NotStarted]
  /\ UNCHANGED <<keyVars, session, suspended, lost, out>>

WriteCount(r) ==
  LET x == run[r].on IN
  /\ Advance(r, "verify", "count", "ticket")
  /\ passkey' = IF Registered(x.key) /\ passkey[x.key].row = run[r].seen
                THEN [passkey EXCEPT ![x.key].counter = x.count] ELSE passkey
  /\ UNCHANGED <<ticket, order, response, retired, raced, session, suspended, lost, out>>

OpenWithKey(r) ==
  /\ Advance(r, "verify", "session", "done")
  /\ CreateSession(r, run[r].account)
  /\ UNCHANGED <<keyVars, suspended, lost, out>>

-----------------------------------------------------------------------------
(* DELETE /v1/me/passkeys/:credential                                       *)

BeginDelete(r, s, k) ==
  /\ Usable(s)
  /\ Begin(r, "delete", "find", s, k, session[s].account, Nothing)
  /\ UNCHANGED <<keyVars, session, suspended, lost, out>>

FindKey(r) ==
  LET k == run[r].on
      found == Registered(k) /\ passkey[k].account = run[r].account IN
  /\ At(r, "delete", "find")
  /\ run' = [run EXCEPT ![r] =
       IF found THEN [@ EXCEPT !.pc = "delete", !.seen = passkey[k].row] ELSE NotStarted]
  /\ UNCHANGED <<keyVars, session, suspended, lost, out>>

WithoutKey(r) == {k \in DOMAIN passkey : passkey[k].row # run[r].seen}

DeleteKey(r) ==
  LET k == run[r].on IN
  /\ Finish(r, "delete", "delete")
  /\ passkey' = Restrict(passkey, WithoutKey(r))
  /\ retired' = IF SignInsWith(k) = {} /\ Registered(k) /\ passkey[k].row = run[r].seen
                THEN retired \cup {k} ELSE retired
  /\ UNCHANGED <<ticket, order, response, raced, session, suspended, lost, out>>

KeyStep(r) ==
  \/ \E x \in response : BeginVerify(r, x) \/ \E s \in SessionIds : BeginEnrol(r, s, x)
  \/ \E k \in Credentials, s \in SessionIds : BeginDelete(r, s, k)
  \/ FindTicket(r) \/ FindDuplicate(r) \/ InsertKey(r) \/ KeyTaken(r)
  \/ DropTicket(r)
  \/ ReadKey(r) \/ WriteCount(r) \/ OpenWithKey(r) \/ FindKey(r) \/ DeleteKey(r)

KeyNext ==
  \/ \E r \in Requests : KeyStep(r) \/ (LoseRun(r) /\ UNCHANGED keyVars)
  \/ \E t \in Challenges : \/ \E k \in Credentials : Sign(k, t)
                           \/ \E s \in SessionIds : IssueRegister(t, s)
                           \/ IssueAuthenticate(t) \/ TicketLapses(t)

-----------------------------------------------------------------------------
(* Properties.                                                              *)

SignedIn == {r \in DOMAIN session \cap Requests : run[r].op = "verify"}

\* A challenge is deleted before the session is opened: it opens as many sessions
\* as sign-ins with it overlap.
PasskeyOpens ==
  \A t \in DOMAIN ticket :
    Cardinality({r \in SignedIn : run[r].on.challenge = t}) <= MaxVerifies

\* The count of an authenticator that counts is taken once: a restored copy that
\* repeats it is refused, unless sign-ins with the credential overlapped (each
\* then compares with the counter that all of them read).
CountsDistinct ==
  \A q, r \in SignedIn :
    \/ q = r \/ run[q].seen # run[r].seen
    \/ run[r].on.key \in raced \/ run[r].on.key \notin Counting
    \/ run[q].on.count # run[r].on.count

\* A step by which a sign-in with credential k opens a session.
Opens(k) ==
  \E r \in DOMAIN session' \ DOMAIN session : run[r].op = "verify" /\ run[r].on.key = k
=============================================================================
