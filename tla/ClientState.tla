---------------------------- MODULE ClientState ----------------------------
(***************************************************************************)
(* The durable state of a client (crates/core/src/lib.rs): the epochs of its *)
(* conversations, and the outbox, whose entries go stale when the epoch of    *)
(* their conversation moves past them.                                      *)
(***************************************************************************)
EXTENDS Integers

CONSTANTS Conversations,
          EnvelopeIds,
          MaxEpoch       \* bound of the model: epochs on the wire are u32

ASSUME EpochAssumption == MaxEpoch \in Nat

VARIABLES conversations,   \* id |-> epoch
          outbox           \* envelope id |-> conversation, epoch, delivered, stale

clientVars == <<conversations, outbox>>

Epochs == 0..MaxEpoch

ClientInit ==
  /\ conversations = [c \in {} |-> 1]
  /\ outbox = [e \in {} |-> [conversation |-> e, epoch |-> 1, delivered |-> FALSE, stale |-> FALSE]]

\* upsert_conversation
WithConversation(c) ==
  [d \in DOMAIN conversations \cup {c} |-> IF d \in DOMAIN conversations THEN conversations[d] ELSE 1]

EpochOf(c) == WithConversation(c)[c]

UpsertConversation(c) ==
  /\ conversations' = WithConversation(c)
  /\ UNCHANGED outbox

NeverStale(c, n) == FALSE                                               \* faulty
Behind(c, n) == n < EpochOf(c)

\* An envelope that is enqueued again replaces its entry.
Enqueue(e, c, n) ==
  /\ conversations' = WithConversation(c)
  /\ outbox' = [f \in DOMAIN outbox \cup {e} |->
       IF f = e THEN [conversation |-> c, epoch |-> n, delivered |-> FALSE, stale |-> Behind(c, n)]
       ELSE outbox[f]]

MarkDelivered(e) ==
  /\ e \in DOMAIN outbox
  /\ outbox' = [outbox EXCEPT ![e].delivered = TRUE]
  /\ UNCHANGED conversations

\* Epochs do not go back.
RotateEpoch(c, n) ==
  /\ conversations' = IF n > EpochOf(c) THEN [WithConversation(c) EXCEPT ![c] = n] ELSE WithConversation(c)
  /\ outbox' = [e \in DOMAIN outbox |->
       IF n > EpochOf(c) /\ outbox[e].conversation = c /\ outbox[e].epoch < n /\ ~outbox[e].delivered
       THEN [outbox[e] EXCEPT !.stale = TRUE] ELSE outbox[e]]

ClientNext ==
  \/ \E c \in Conversations :
       \/ UpsertConversation(c)
       \/ \E n \in Epochs :
            \/ RotateEpoch(c, n)
            \/ \E e \in EnvelopeIds : Enqueue(e, c, n)
  \/ \E e \in EnvelopeIds : MarkDelivered(e)

ClientSpec == ClientInit /\ [][ClientNext]_clientVars

-----------------------------------------------------------------------------
(* Properties.                                                              *)

\* What the outbox still has to send is marked stale exactly when it was encrypted
\* under an epoch that its conversation has left, in whatever order envelopes are
\* enqueued, delivered, enqueued again and epochs announced.
StaleIsBehind ==
  \A e \in DOMAIN outbox :
    /\ outbox[e].conversation \in DOMAIN conversations
    /\ ~outbox[e].delivered =>
         (outbox[e].stale <=> outbox[e].epoch < conversations[outbox[e].conversation])
=============================================================================
