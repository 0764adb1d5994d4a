------------------------ MODULE MCServerTransaction ------------------------
(***************************************************************************)
(* ServerTransaction for TLC: one INVITE, one other request, or two        *)
(* INVITEs of one dialog over UDP, by the initial state.  Two INVITEs get  *)
(* final answers only and one event from the outside at a time; they are   *)
(* interchangeable, so the second one starts after the first.              *)
(***************************************************************************)
EXTENDS ServerTransaction, SequencesExt

CONSTANTS i1, i2, n1

VARIABLE active     \* the requests of this behaviour

Pair == {i1, i2}

MCReplies == IF active = Pair THEN Replies \ Provisional ELSE Replies

(* Bound: an event of the peer or the TU enters when both channels are     *)
(* empty.                                                                  *)
FromOutside(q) == Last(q)[1] \in {"Received", "Respond"}
Quiet == \A t \in Tx : Len(queue'[t]) > Len(queue[t]) /\ FromOutside(queue'[t])
                           => queue = [u \in Tx |-> <<>>]

Started(t) == state[t] # None \/ wire[t] # {}
InOrder    == i2 \in transactions' \ transactions => Started(i1) \/ Started(i2)

MCInit == Init /\ active \in {{i1}, {n1}, Pair} /\ (active = Pair => ~reliable)

MCNext ==
    /\ UNCHANGED active
    /\ \E t \in active : \/ EndpointStep(t) \/ Receive(t) \/ Drop(t)
                         \/ \E r \in MCReplies : TuResponds(t, r) \/ PostRespond(t, r)
    /\ active = Pair => Quiet /\ InOrder

MCSpec == MCInit /\ [][MCNext]_<<vars, active>> /\ Fairness
=============================================================================
