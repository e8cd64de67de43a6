----------------------------- MODULE AtLeastOnce -----------------------------
(***************************************************************************)
(* What internal/infrastructure/broker promises of one topic and one       *)
(* consumer group: messages are handled in order, none is passed over, and *)
(* an offset is given up (settled) only after its message was handled.     *)
(***************************************************************************)
EXTENDS Naturals

VARIABLES
    sent,      \* messages written to the topic
    handled,   \* the first `handled` messages were handled at least once
    settled    \* the group never sees the first `settled` messages again

vars == <<sent, handled, settled>>

Init == sent = 0 /\ handled = 0 /\ settled = 0

Send == sent' = sent + 1 /\ UNCHANGED <<handled, settled>>

Handle == handled < sent /\ handled' = handled + 1 /\ UNCHANGED <<sent, settled>>

Settle == settled' \in settled..handled /\ UNCHANGED <<sent, handled>>

Next == Send \/ Handle \/ Settle

Spec == Init /\ [][Next]_vars

=============================================================================
