-------------------------- MODULE MCDeviceMailbox --------------------------
(* Three envelopes, more than the mailbox holds.                            *)
EXTENDS DeviceMailbox, Sequences

CONSTANTS e1, e2, e3

\* The acks a client builds from the pages it read: no id twice.
PageAcks == {<<e1>>, <<e2>>, <<e3, e1>>}

=============================================================================
