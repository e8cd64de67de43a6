---------------------------- MODULE LossyStream ----------------------------
(***************************************************************************)
(* What a subscriber of a price stream is promised: from the moment it     *)
(* joins to the moment it leaves, what it is given is a subsequence of     *)
(* what is broadcast, in the order of the broadcasts, each at most once.   *)
(* A broadcast may be lost to it; it never gets one after it has left.     *)
(***************************************************************************)
EXTENDS Naturals, Sequences

CONSTANTS Clients

VARIABLES
    aired,   \* the number of the latest broadcast
    status,  \* client -> "out", "in" or "left"
    given,   \* client -> the broadcasts accepted for it
    heard    \* client -> how many of them it has taken

vars == <<aired, status, given, heard>>

Newest(c) == IF given[c] = <<>> THEN 0 ELSE given[c][Len(given[c])]

Init ==
    /\ aired = 0
    /\ status = [c \in Clients |-> "out"]
    /\ given = [c \in Clients |-> <<>>]
    /\ heard = [c \in Clients |-> 0]

Air ==
    /\ aired' \in Nat
    /\ aired' > aired
    /\ UNCHANGED <<status, given, heard>>

Accept(c) ==
    /\ status[c] = "in"
    /\ Newest(c) < aired
    /\ given' = [given EXCEPT ![c] = Append(@, aired)]
    /\ UNCHANGED <<aired, status, heard>>

Hear(c) ==
    /\ status[c] = "in"
    /\ heard[c] < Len(given[c])
    /\ heard' = [heard EXCEPT ![c] = @ + 1]
    /\ UNCHANGED <<aired, status, given>>

Join(c) ==
    /\ status[c] = "out"
    /\ status' = [status EXCEPT ![c] = "in"]
    /\ UNCHANGED <<aired, given, heard>>

Leave(c) ==
    /\ status[c] = "in"
    /\ status' = [status EXCEPT ![c] = "left"]
    /\ UNCHANGED <<aired, given, heard>>

Next == Air \/ \E c \in Clients : Accept(c) \/ Hear(c) \/ Join(c) \/ Leave(c)

Spec == Init /\ [][Next]_vars
=============================================================================
