----------------------------- MODULE MagicLinks -----------------------------
(***************************************************************************)
(* Sign-in by magic link (apps/relay/src/handlers/auth.ts) and the links    *)
(* that operators mint (operator.ts, admin.ts).  A link is asked for by a   *)
(* run of its own, which gives it its id; completing it is a run of         *)
(* Requests.  Joining a circle is one step here; GroupMembership has its    *)
(* statements.                                                              *)
(***************************************************************************)
EXTENDS Sessions

CONSTANTS Links,          \* rows of auth_challenges
          Emails,         \* blind indices of addresses
          ReviewEmail,    \* the address of review-session
          FirstOwner,     \* emails that have an account at the start |-> account
          InviteUses,     \* beta_invites.max_uses of the invite that circulates
          CircleUses,     \* the same of the invite of a circle (group)
          MaxPending,     \* bound of the model: links vouched by the beta invite at once
          MaxCompletes    \* bound of the model: completions of one link at once

ASSUME MagicLinksAssumption ==
  /\ IsFiniteSet(Links) /\ ReviewEmail \in Emails /\ DOMAIN FirstOwner \subseteq Emails
  /\ FirstOwner \in [DOMAIN FirstOwner -> Founders]
  /\ InviteUses \in Nat \ {0} /\ CircleUses \in Nat
  /\ MaxPending \in Nat \ {0} /\ MaxCompletes \in Nat \ {0}

VARIABLES challenge,   \* auth_challenges, and the handler that writes a row:
                       \* link |-> its email, what vouches for it, its state
          owner,       \* account_emails: email |-> account
          invite,      \* the beta invite: uses, and whether it is open
          circle       \* the invite of a circle and who joined

linkVars == <<challenge, owner, invite, circle>>

NoLink == [email |-> Nothing, via |-> "none", state |-> "idle"]
NewInvite == [uses |-> 0, open |-> TRUE]

LinkInit ==
  /\ challenge = [l \in Links |-> NoLink]
  /\ owner = FirstOwner
  /\ invite = NewInvite
  /\ circle = [uses |-> 0, open |-> TRUE, joined |-> {}]

Known(e) == e \in DOMAIN owner
Set(l, state) == challenge' = [challenge EXCEPT ![l].state = state]

-----------------------------------------------------------------------------
(* POST /v1/auth/start, POST /v1/auth/resend-magic-link                     *)

AnyoneAsks(e, via) == e \in Emails                                   \* faulty
\* isExistingAccount; a known email needs no invite, an unknown one without
\* an invite is refused (start) or passed over in silence (resend).
MayAsk(e, via) == Known(e) \/ via # "none"

AskLink(l, e, via) ==
  /\ challenge[l].state = "idle"
  /\ MayAsk(e, via)
  /\ challenge' = [challenge EXCEPT ![l] =
       IF Known(e) THEN [email |-> e, via |-> "none", state |-> "insert"]
       ELSE [email |-> e, via |-> via, state |-> "check"]]
  /\ UNCHANGED <<owner, invite, circle, sessionVars>>

InviteValid == invite.open /\ invite.uses < InviteUses
CircleValid == circle.open /\ circle.uses < CircleUses
VouchedOffByOne(l) ==                                                \* faulty
  IF challenge[l].via = "beta" THEN invite.open /\ invite.uses <= InviteUses ELSE CircleValid
Vouched(l) == IF challenge[l].via = "beta" THEN InviteValid ELSE CircleValid

CompletionsOf(l) == {r \in Running("complete") : run[r].on = l}
Pending(l) ==
  /\ challenge[l].via = "beta"
  /\ challenge[l].state \in {"insert", "open"} \/ CompletionsOf(l) # {}

\* resolveBootstrapAccess
CheckInvite(l) ==
  /\ challenge[l].state = "check"
  /\ challenge[l].via = "beta" => Cardinality({k \in Links : Pending(k)}) < MaxPending
  /\ challenge' = [challenge EXCEPT ![l] =
       IF Vouched(l) THEN [@ EXCEPT !.state = "insert"] ELSE NoLink]
  /\ UNCHANGED <<owner, invite, circle, sessionVars>>

InsertLink(l) ==
  /\ challenge[l].state = "insert"
  /\ Set(l, "open")
  /\ UNCHANGED <<owner, invite, circle, sessionVars>>

\* expires_at passes, and the cleanup deletes the row.
LinkLapses(l) ==
  /\ challenge[l].state = "open"
  /\ Set(l, "lapsed")
  /\ UNCHANGED <<owner, invite, circle, sessionVars>>

\* POST /v1/admin/review-session: a link for the app store's reviewer.
ReviewLink(l) ==
  /\ challenge[l].state = "idle"
  /\ challenge' = [challenge EXCEPT ![l] = [email |-> ReviewEmail, via |-> "operator", state |-> "open"]]
  /\ UNCHANGED <<owner, invite, circle, sessionVars>>

\* The last statement of a recovery hand-off.
MintLink(r, l) ==
  /\ challenge[l].state = "idle"
  /\ Finish(r, "handoff", "answer")
  /\ \E e \in DOMAIN owner :
       /\ owner[e] = run[r].account
       /\ challenge' = [challenge EXCEPT ![l] = [email |-> e, via |-> "none", state |-> "open"]]
  /\ out' = out \cup EndedBy(r)
  /\ UNCHANGED <<owner, invite, circle, session, suspended, lost>>

InviteCloses ==
  /\ invite.open
  /\ invite' = [invite EXCEPT !.open = FALSE]
  /\ UNCHANGED <<challenge, owner, circle, sessionVars>>

CircleCloses ==
  /\ circle.open
  /\ circle' = [circle EXCEPT !.open = FALSE]
  /\ UNCHANGED <<challenge, owner, invite, sessionVars>>

-----------------------------------------------------------------------------
(* POST /v1/auth/complete                                                   *)

AcceptsUsed(l) == challenge[l].state \in {"open", "used"}            \* faulty
Accepts(l) == challenge[l].state = "open"

BeginComplete(r, l) ==
  /\ Accepts(l) /\ Cardinality(CompletionsOf(l)) < MaxCompletes
  /\ Begin(r, "complete", "account", Nothing, l, Nothing, Nothing)
  /\ UNCHANGED <<linkVars, session, suspended, lost, out>>

Link(r) == challenge[run[r].on]
AfterAccount(r) == IF Link(r).via = "circle" THEN "circle" ELSE "consume"

\* An unknown email gets a row of accounts, which nothing reads before the
\* email names it.
AccountFor(r) == IF Known(Link(r).email) THEN owner[Link(r).email] ELSE r

FindAccount(r) ==
  /\ At(r, "complete", "account")
  /\ run' = [run EXCEPT ![r].account = AccountFor(r),
                        ![r].pc = IF Known(Link(r).email) THEN AfterAccount(r) ELSE "email"]
  /\ UNCHANGED <<linkVars, session, suspended, lost, out>>

NeverTaken(r) == FALSE                                               \* faulty
\* account_emails.email_blind_index is UNIQUE.
Taken(r) == Known(Link(r).email)

AfterEmail(r) == IF Link(r).via = "beta" THEN "count" ELSE AfterAccount(r)

ClaimEmail(r) ==
  /\ At(r, "complete", "email") /\ ~Taken(r)
  /\ Advance(r, "complete", "email", AfterEmail(r))
  /\ owner' = [e \in DOMAIN owner \cup {Link(r).email} |->
                IF e = Link(r).email THEN run[r].account ELSE owner[e]]
  /\ UNCHANGED <<challenge, invite, circle, session, suspended, lost, out>>

\* The INSERT fails and the request with it.
EmailTaken(r) ==
  /\ At(r, "complete", "email") /\ Taken(r)
  /\ Finish(r, "complete", "email")
  /\ UNCHANGED <<linkVars, session, suspended, lost, out>>

CountUse(r) ==
  /\ Advance(r, "complete", "count", "consume")
  /\ invite' = [invite EXCEPT !.uses = @ + 1]
  /\ UNCHANGED <<challenge, owner, circle, session, suspended, lost, out>>

\* acceptConversationInviteByTokenHash throws before it looks for a membership.
Admitted(r) == CircleValid

JoinCircle(r) ==
  /\ Advance(r, "complete", "circle", IF Admitted(r) THEN "consume" ELSE "refused")
  /\ circle' = IF CircleValid /\ run[r].account \notin circle.joined
               THEN [circle EXCEPT !.uses = @ + 1, !.joined = @ \cup {run[r].account}]
               ELSE circle
  /\ UNCHANGED <<challenge, owner, invite, session, suspended, lost, out>>

\* The UPDATE of a row that the cleanup deleted changes nothing.
ConsumedState(l) == IF challenge[l].state = "open" THEN "used" ELSE challenge[l].state

Consume(r) ==
  /\ Advance(r, "complete", "consume", "session")
  /\ Set(run[r].on, ConsumedState(run[r].on))
  /\ UNCHANGED <<owner, invite, circle, session, suspended, lost, out>>

OpenSession(r) ==
  /\ Advance(r, "complete", "session", "done")
  /\ CreateSession(r, run[r].account)
  /\ UNCHANGED <<linkVars, suspended, lost, out>>

LinkStep(l) ==
  \/ ReviewLink(l)
  \/ \E e \in Emails, via \in {"beta", "circle", "none"} : AskLink(l, e, via)
  \/ CheckInvite(l) \/ InsertLink(l) \/ LinkLapses(l)

CompleteStep(r) ==
  \/ \E l \in Links : BeginComplete(r, l) \/ MintLink(r, l)
  \/ FindAccount(r) \/ ClaimEmail(r) \/ EmailTaken(r) \/ CountUse(r) \/ JoinCircle(r)
  \/ Consume(r) \/ OpenSession(r)

MagicNext ==
  \/ \E l \in Links : LinkStep(l)
  \/ \E r \in Requests : CompleteStep(r) \/ (LoseRun(r) /\ UNCHANGED linkVars)
  \/ InviteCloses \/ CircleCloses

magicVars == <<linkVars, sessionVars>>
MagicSpec == Init /\ LinkInit /\ [][MagicNext]_magicVars

-----------------------------------------------------------------------------
(* Properties.                                                              *)

LinkStates == {"idle", "check", "insert", "open", "used", "lapsed"}
Vouchers == {"none", "beta", "circle", "operator"}

CompletedBy(r) == run[r].op = "complete"
Opened(l) == {r \in DOMAIN session \cap Requests : CompletedBy(r) /\ run[r].on = l}

\* consumed_at is read first and written just before the session, without a
\* condition: a link opens as many sessions as completions of it overlap, and
\* none once one of them has been answered.
LinkOpens == \A l \in Links : Cardinality(Opened(l)) <= MaxCompletes

Newcomers == {r \in Requests : r \in Range(owner)}
Admittees == {r \in Newcomers : challenge[run[r].on].via = "beta"}

\* use_count is the number of accounts made with the invite, except for the
\* completions that have claimed an email and not come to the count: a retry of
\* theirs finds the account and counts nothing twice.
UsesCounted ==
  Cardinality(Admittees) =
    invite.uses + Cardinality({r \in Requests : CompletedBy(r) /\ run[r].pc = "count"})

\* The invite is tested when the link is asked for and counted when an account
\* is made: it admits up to one less than the links that wait at once beyond
\* its uses, and one more for each completion lost before it counted.
InviteAdmits ==
  /\ UsesCounted
  /\ Cardinality(Admittees) <= InviteUses + (MaxPending - 1) + Cardinality(lost)

\* Every account that was made had something that vouched for it when its link
\* was asked for: a link asked for with a known email never makes an account, and
\* one by a circle's invite opens sessions only for who joined the circle (the
\* completion that finds the invite used up or closed opens none).
NewcomersVouched ==
  /\ \A r \in Newcomers : challenge[run[r].on].via # "none"
  /\ \A l \in Links : \A r \in Opened(l) :
       challenge[l].via = "circle" => session[r].account \in circle.joined

\* Two completions that make an account for the same new email: the session of
\* each belongs to the account that the email names in the end.
SignedInAsOwner ==
  \A l \in Links : \A r \in Opened(l) :
    Known(challenge[l].email) /\ session[r].account = owner[challenge[l].email]
=============================================================================
