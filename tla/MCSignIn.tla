------------------------------ MODULE MCSignIn ------------------------------
(* An account with a phone, an email and a passkey, another with a tablet,  *)
(* the emails of newcomers, and one door at a time (a scene, fixed at the   *)
(* start): up to two requests run together.                                 *)
EXTENDS SignIn, TLC

CONSTANTS kim, phone, ann, tablet, old, new, other, third, l1, l2, l3,
          shown, scanned, mine, yours, yubi, cloud, t1, t2, r1, r2, r3

Holders == phone :> kim @@ tablet :> ann
Owners == old :> kim
Keys == yubi :> kim @@ cloud :> kim
Symmetry == Permutations(Requests) \cup Permutations(Links)

Doing(ops) == {r \in Requests : run[r].op \in ops}
SignOuts == {"sign-out", "suspend", "handoff", "end-all"}
Changes == SignOuts \cup {"unsuspend", "refresh"}
Asked == {l \in Links : challenge[l].state # "idle"}

NoMail == Asked = {} /\ invite.open /\ circle.open
NoCodes == DOMAIN qr = {} /\ Doing({"show", "scan"}) = {}
NoKeys == DOMAIN ticket = {} /\ Doing({"delete"}) = {}

Young == \A s \in DOMAIN session : session[s].age = "fresh"
SessionsStay == Young /\ out = {} /\ closed = {} /\ suspended = {} /\ Doing(Changes) = {}
\* One change at a time and one sign-out; only the phone gets old.
SessionsEnd ==
  /\ Cardinality(Doing(Changes)) <= 1
  /\ out = {} \/ Doing(SignOuts) = {}
  /\ \A s \in DOMAIN session : session[s].age # "fresh" => s = phone
  /\ lost = {}

\* Two links, to the account's email or to one new email; one while an invite
\* closes or a run is lost.
Mail ==
  /\ NoCodes /\ NoKeys /\ SessionsStay
  /\ Cardinality(Asked) <= 2 /\ \A l \in Asked : challenge[l].email \in {old, new}
  /\ \/ circle.open /\ invite.open /\ lost = {}
     \/ Cardinality(Asked) <= 1

\* Three newcomers with the invite; each completes a link once.
Crowd ==
  /\ NoCodes /\ NoKeys /\ SessionsStay
  /\ invite.open /\ circle.open /\ Cardinality(Asked) <= 3
  /\ \A l \in Asked : challenge[l].via = "beta" /\ challenge[l].state # "lapsed"
  /\ \A k, l \in Asked : k # l => challenge[k].email # challenge[l].email
  /\ \A q, r \in Doing({"complete"}) : q # r => run[q].on # run[r].on

\* One link to a known email while sessions end.
MailAndSignOut ==
  /\ NoCodes /\ NoKeys /\ invite.open /\ circle.open /\ SessionsEnd
  /\ Cardinality(Asked) <= 1 /\ \A l \in Asked : challenge[l].via = "none"
  /\ Cardinality(DOMAIN session) <= 3

OneCode == Cardinality(DOMAIN qr) + Cardinality(Doing({"show", "scan"})) <= 1
Code == NoMail /\ NoKeys /\ SessionsStay /\ OneCode
CodeAndSignOut ==
  /\ NoMail /\ NoKeys /\ SessionsEnd /\ OneCode /\ Young
  /\ crossed = {} /\ Doing({"suspend", "handoff", "refresh"}) = {}
  /\ \A r \in Requests : run[r].seen # yours

\* One credential: the one that counts is also deleted and registered again, the
\* other signs in, with one challenge when a run is lost.
Key ==
  /\ NoMail /\ NoCodes /\ SessionsStay
  /\ Cardinality({x.key : x \in response}) <= 1
  /\ \/ DOMAIN order = {} /\ Doing({"delete"}) = {} /\ Cardinality(DOMAIN ticket) <= 1
     \/ /\ lost = {} /\ cloud \notin {x.key : x \in response}
        /\ \A r \in Doing({"delete"}) : run[r].on = yubi

VARIABLE scene
Scenes == {"mail", "crowd", "mail and sign-out", "code", "code and sign-out", "key"}

\* The tablet only confirms device links.
Scene ==
  /\ Cardinality(Working) <= 2
  /\ session[tablet].age = "fresh" /\ ~session[tablet].revoked
  /\ \A r \in Requests :
       \/ run[r].by \in {phone, Nothing} /\ run[r].account # ann
       \/ scene = "code" /\ run[r].op = "confirm" /\ run[r].by = tablet
  /\ scene = "mail" => Mail
  /\ scene = "crowd" => Crowd
  /\ scene = "mail and sign-out" => MailAndSignOut
  /\ scene = "code" => Code
  /\ scene = "code and sign-out" => CodeAndSignOut
  /\ scene = "key" => Key

SceneInit == SignInInit /\ scene \in Scenes

MCSpec ==
  /\ SceneInit
  /\ [][SignInNext /\ scene' = scene /\ Scene']_<<vars, scene>>
=============================================================================
