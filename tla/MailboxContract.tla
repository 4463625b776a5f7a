-------------------------- MODULE MailboxContract --------------------------
(***************************************************************************)
(* What a device mailbox promises to the sender and to the device: at most *)
(* MaxBacklog envelopes are pending, each with its expiry; one leaves by   *)
(* being acknowledged or by having expired, and never comes back with      *)
(* another expiry while it is pending.                                     *)
(***************************************************************************)
EXTENDS Integers, FiniteSets

CONSTANTS Envelopes, MaxBacklog, Horizon

VARIABLES pending,   \* pending envelope |-> when it expires
          clock

Init == pending = [e \in {} |-> 0] /\ clock = 0

Expired == {e \in DOMAIN pending : pending[e] <= clock}

\* One operation of the mailbox: it drops expired envelopes, and either drops
\* envelopes the device acknowledged or takes one that is not pending.
Drop(expired, acked) ==
  /\ expired \subseteq Expired
  /\ acked \subseteq DOMAIN pending
  /\ pending' = [e \in DOMAIN pending \ (expired \cup acked) |-> pending[e]]
  /\ UNCHANGED clock

Take(expired, e, expiry) ==
  /\ expired \subseteq Expired
  /\ e \notin DOMAIN pending \ expired
  /\ Cardinality(DOMAIN pending \ expired) < MaxBacklog
  /\ expiry > clock
  /\ pending' = [d \in (DOMAIN pending \ expired) \cup {e} |->
                   IF d = e THEN expiry ELSE pending[d]]
  /\ UNCHANGED clock

Pass == clock < Horizon /\ clock' = clock + 1 /\ UNCHANGED pending

Next ==
  \/ \E expired, acked \in SUBSET DOMAIN pending : Drop(expired, acked)
  \/ \E expired \in SUBSET DOMAIN pending, e \in Envelopes, expiry \in 0..Horizon :
       Take(expired, e, expiry)
  \/ Pass

Spec == Init /\ [][Next]_<<pending, clock>>

=============================================================================
