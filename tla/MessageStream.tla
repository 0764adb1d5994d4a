---------------------------- MODULE MessageStream ----------------------------
(***************************************************************************)
(* What a connection promises its users: the messages written to it are    *)
(* handed to the other side once each, in order and in full, until it      *)
(* breaks.  It breaks when a write is abandoned half-way, or when the      *)
(* network or one side ends it; from then on nothing is promised.  A       *)
(* connection that is broken from the start promises nothing.              *)
(***************************************************************************)
EXTENDS Naturals, Sequences

CONSTANT Items      \* the messages

VARIABLES
    sent,       \* messages written, in order
    handed,     \* messages handed to the receiver
    broken      \* the promise has ended

streamVars == <<sent, handed, broken>>

Init == sent = <<>> /\ handed = <<>> /\ broken \in BOOLEAN

Send(m) ==
    /\ sent' = Append(sent, m)
    /\ UNCHANGED <<handed, broken>>

Deliver ==
    /\ ~broken
    /\ Len(handed) < Len(sent)
    /\ handed' = Append(handed, sent[Len(handed) + 1])
    /\ UNCHANGED <<sent, broken>>

Break == broken' = TRUE /\ UNCHANGED <<sent, handed>>

(* After the break: whatever the receiver makes of the rest.               *)
Garbles == broken /\ UNCHANGED <<sent, broken>>

Next == (\E m \in Items : Send(m)) \/ Deliver \/ Break \/ Garbles

(* What can be said without fairness: nothing is handed over but what the  *)
(* promise gives.                                                          *)
Keeps == Init /\ [][Next]_streamVars

Spec == Keeps /\ WF_streamVars(Deliver)
=============================================================================
