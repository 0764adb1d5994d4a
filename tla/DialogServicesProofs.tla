------------------------ MODULE DialogServicesProofs ------------------------
(***************************************************************************)
(* What the services around a dialog keep for any number of tasks, forks,  *)
(* ids, addresses and calls: the numbers of a dialog, the dialogs of an    *)
(* endpoint, the Contact of a registration, the tag of a publication, the  *)
(* body of an ACK.                                                         *)
(***************************************************************************)
EXTENDS DialogSequence, DialogRequests, DialogRegistry, Registration, EventDialogs, TLAPS

-----------------------------------------------------------------------------
(***************************************************************************)
(* DialogSequence.                                                         *)
(***************************************************************************)

(* A number is used once because nobody holds one that is used, and at     *)
(* most one section is between its addition and its load.                  *)
NumbersKept ==
    /\ ~twice
    /\ \A n \in used : n <= localSeq
    /\ \A s \in Senders : sender[s] = "added" =>
          localSeq \notin used /\ taking.at \notin TakingCut
    /\ taking.at = "added" => localSeq \notin used

(* The number of the dialog is the newest accepted one, and a handler that *)
(* has read it found it current and its own number no lower.               *)
OrderKept ==
    /\ ~backwards /\ remoteSeq = newest
    /\ \A a \in Asked : asked[a] = "loaded" => loaded[a] = remoteSeq /\ ~Refused(a)

(* A provisional that was answered, or is being answered, is not ahead of  *)
(* what its fork has sent.                                                 *)
Offered(p) == p.fork \in Forks /\ p.rseq <= offered[p.fork]

PracksKept ==
    /\ reliable # None => Offered(reliable)
    /\ taking.at \in TakingCut => taking.provisional \in Provisional /\ Offered(taking.provisional)
    /\ \A p \in pracked : Offered(p)
    /\ SingleForkIsPracked

SequenceInv ==
    /\ SequenceTypeOK
    /\ ~Parallel => NumbersKept /\ OrderKept
    /\ PracksKept

-----------------------------------------------------------------------------
(***************************************************************************)
(* DialogRegistry.                                                         *)
(***************************************************************************)

(* Between a look-up that found nothing and the insert the id stays free,  *)
(* because no other task of the one thread runs.                           *)
AbsentIsAlone ==
    \A t \in Tasks : task[t].at = "absent" =>
        /\ registry[task[t].id] = 0
        /\ \A u \in Tasks : task[u].at = "absent" => u = t

(* A task that looked an id up, or holds its dialog, has the id and the    *)
(* dialog.                                                                 *)
HoldersHave ==
    \A t \in Tasks : /\ task[t].at \in {"absent", "holding"} => task[t].id \in Ids
                     /\ task[t].at = "holding" => task[t].dialog # 0

RegistryInv ==
    /\ RegistryTypeOK
    /\ HoldersHave
    /\ ~Threads => AbsentIsAlone
    /\ NoneIsReplaced

-----------------------------------------------------------------------------
(***************************************************************************)
(* Registration.                                                           *)
(***************************************************************************)

(* The public address is the one reported last, a Contact nobody set stays *)
(* unset, and the REGISTER in flight carries the address the property asks *)
(* for.                                                                    *)
RegistrationInv ==
    /\ RegistrationTypeOK
    /\ reported = reg.public
    /\ ~setup.explicit => reg.contact = "none"
    /\ step = "waiting" /\ reported # "none" /\ (sent.answer # "none" \/ ~setup.explicit) =>
          sent.contact = reported

-----------------------------------------------------------------------------
(***************************************************************************)
(* DialogRequests.                                                         *)
(***************************************************************************)

(* Until its task is done a request has the body that was armed for it;    *)
(* and it was written at most once per transaction.                        *)
BodyKept == \A r \in Requests : request[r].at # "done" => request[r].body = request[r].armed

WritesOf(r) ==
    /\ request[r].at \in {"idle", "sending", "dialback"} => request[r].writes = 0
    /\ request[r].at = "resending" => request[r].authSent /\ request[r].writes <= 1
    /\ WrittenOnce(r)

RequestsInv ==
    /\ RequestTypeOK
    /\ BodyKept
    /\ \A r \in Requests : WritesOf(r)

-----------------------------------------------------------------------------
(***************************************************************************)
(* EventDialogs.                                                           *)
(***************************************************************************)

(* A PUBLISH that was accepted and whose answer has not been taken.        *)
Ahead(c) == c \in Publishes /\ call[c].at = "accepted"

TagsAreOld == etag <= given /\ \A c \in AllCalls : call[c].tag <= given

(* A first request, without a tag, is alone in flight.                     *)
FirstIsAlone ==
    \A c \in AllCalls : call[c].at = "sent" /\ call[c].tag = 0 =>
        /\ etag = 0
        /\ \A d \in AllCalls \ {c} : ~InFlight(d)

(* One PUBLISH at most is ahead of the dialog; the server holds its tag    *)
(* and no other, and nothing in flight carries that tag or none.           *)
OneIsAhead ==
    \A c \in AllCalls : Ahead(c) =>
        /\ held \subseteq {call[c].tag} /\ etag # call[c].tag
        /\ \A d \in AllCalls : /\ Ahead(d) => d = c
                               /\ call[d].at = "sent" => call[d].tag \notin {0, call[c].tag}

NoneAhead == (\A c \in AllCalls : ~Ahead(c)) => held \subseteq {etag}

(* A request of the peer that is with the application has no final         *)
(* response, and one whose wait ended has one at most.                     *)
FinalsOf(a) ==
    /\ ask[a].at \in {"handed", "writing"} => ask[a].finals = 0
    /\ ask[a].at = "expired" => ask[a].finals <= 1

EventInv ==
    /\ EventTypeOK
    /\ \A a \in Asks : FinalsOf(a)
    /\ TagsAreOld
    /\ ~astray => FirstIsAlone /\ OneIsAhead /\ NoneAhead

-----------------------------------------------------------------------------
(***************************************************************************)
(* The numbers of a dialog.                                                *)
(***************************************************************************)

(* A dialog starts with its INVITE's number and nothing else.              *)
LEMMA SequenceStart == SequenceInit => SequenceInv
<1> USE SequenceAssumption
<1> SUFFICES ASSUME SequenceInit PROVE SequenceInv
  OBVIOUS
<1>1. SequenceTypeOK
  <2>1. taking \in [provisional : Provisional \cup {None}, at : {"none", "tested", "added", "sent"}]
    BY DEF SequenceInit
  <2>2. offered \in [Forks -> 0 .. MaxRseq]
    BY DEF SequenceInit
  <2>3. sender \in [Senders -> {"idle", "added", "built"}] /\ loaded \in [Asked -> Nat]
        /\ asked \in [Asked -> {"idle", "loaded", "handled"}]
    BY DEF SequenceInit
  <2>4. reliable \in Provisional \cup {None} /\ used \subseteq Nat /\ pracked \subseteq Provisional
    BY DEF SequenceInit
  <2>5. /\ localSeq \in Nat /\ remoteSeq \in Nat /\ newest \in Nat
        /\ twice \in BOOLEAN /\ backwards \in BOOLEAN /\ ignored \in BOOLEAN /\ restored \in BOOLEAN
    BY DEF SequenceInit
  <2> QED
    BY <2>1, <2>2, <2>3, <2>4, <2>5 DEF SequenceTypeOK
<1>2. NumbersKept
  BY DEF SequenceInit, NumbersKept, TakingCut
<1>3. OrderKept
  BY DEF SequenceInit, OrderKept
<1>4. PracksKept
  BY DEF SequenceInit, PracksKept, TakingCut, SingleForkIsPracked
<1> QED
  BY <1>1, <1>2, <1>3, <1>4 DEF SequenceInv

(* What a fork sends only raises what it has sent, so a single fork was    *)
(* single before.                                                          *)
LEMMA OfferedGrows ==
    ASSUME SequenceTypeOK, NEW f \in Forks, NEW n \in 1 .. MaxRseq, n > offered[f],
           offered' = [offered EXCEPT ![f] = n]
    PROVE  /\ \A g \in Forks : offered[g] <= offered'[g]
           /\ SingleFork' => SingleFork
<1> USE SequenceAssumption
<1>1. \A g \in Forks : offered[g] \in 0 .. MaxRseq
  BY DEF SequenceTypeOK
<1>2. \A g \in Forks : offered'[g] = IF g = f THEN n ELSE offered[g]
  BY DEF SequenceTypeOK
<1>3. \A g \in Forks : offered[g] <= offered'[g]
  BY <1>1, <1>2
<1>4. \A g \in Forks : offered'[g] = 0 => offered[g] = 0
  BY <1>1, <1>3, <1>2
<1> QED
  BY <1>3, <1>4 DEF SingleFork

(* Every step of a sender, a handler, a fork, the taking task or a restore *)
(* keeps the types.                                                        *)
LEMMA SequenceTypes ==
    ASSUME SequenceTypeOK, PracksKept, SequenceNext
    PROVE  SequenceTypeOK'
<1> USE SequenceAssumption DEF SequenceTypeOK
<1>1. ASSUME NEW s \in Senders, SenderAdds(s) \/ SenderLoads(s) PROVE SequenceTypeOK'
  <2>1. CASE SenderAdds(s)
    BY <2>1 DEF SenderAdds, builds, accepts, pracks
  <2>2. CASE SenderLoads(s)
    BY <2>2 DEF SenderLoads, Builds, numbers, accepts, pracks
  <2> QED
    BY <1>1, <2>1, <2>2
<1>2. ASSUME NEW a \in Asked, AskIsOld(a) \/ AskLoads(a) \/ AskMoves(a) PROVE SequenceTypeOK'
  <2>1. CASE AskIsOld(a)
    BY <2>1 DEF AskIsOld, AskStep, builds, accepts, pracks
  <2>2. CASE AskLoads(a)
    BY <2>2 DEF AskLoads, AskStep, builds, accepts, pracks
  <2>3. CASE AskMoves(a)
    BY <2>3 DEF AskMoves, AskStep, Moved, builds, pracks
  <2> QED
    BY <1>2, <2>1, <2>2, <2>3
<1>3. ASSUME NEW f \in Forks, ForkOffers(f) PROVE SequenceTypeOK'
  BY <1>3 DEF ForkOffers, numbers, builds, accepts
<1>4. ASSUME NEW p \in Provisionals, TakesKnown(p) \/ TakesNew(p) PROVE SequenceTypeOK'
  <2>1. p \in Provisional
    BY DEF Provisionals
  <2>2. CASE TakesKnown(p)
    BY <2>1, <2>2 DEF TakesKnown, TakingStep, builds, accepts
  <2>3. CASE TakesNew(p)
    BY <2>1, <2>3 DEF TakesNew, numbers, builds, accepts, pracks
  <2> QED
    BY <1>4, <2>2, <2>3
<1>5. ASSUME PrackAdds \/ PrackReturns PROVE SequenceTypeOK'
  <2>1. CASE PrackAdds
    BY <2>1 DEF PrackAdds, PrackNumber, TakingStep, builds, accepts
  <2>2. CASE PrackReturns
    BY <2>2 DEF PrackReturns, TakingStep, builds, accepts
  <2> QED
    BY <1>5, <2>1, <2>2
<1>6. ASSUME PrackSends PROVE SequenceTypeOK'
  <2>1. taking.provisional \in Provisional
    BY <1>6 DEF PrackSends, TakingStep, TakingCut, PracksKept
  <2> QED
    BY <1>6, <2>1 DEF PrackSends, TakingStep, Builds, accepts
<1>7. ASSUME Restores PROVE SequenceTypeOK'
  BY <1>7 DEF Restores, Restored, builds, accepts, pracks
<1> QED
  BY <1>1, <1>2, <1>3, <1>4, <1>5, <1>6, <1>7 DEF SequenceNext

(* On a cooperative executor no step breaks the numbers: an addition finds *)
(* no other section cut, so the number it leads to is above all used ones  *)
(* and its holder is the only one.                                         *)
LEMMA NumbersStep ==
    ASSUME SequenceTypeOK, NumbersKept, ~Parallel, SequenceNext
    PROVE  NumbersKept'
<1> USE DEF NumbersKept, TakingCut, SequenceTypeOK
<1>1. ASSUME NEW s \in Senders, SenderAdds(s) PROVE NumbersKept'
  <2>1. \A u \in Senders : sender[u] # "added"
    BY <1>1 DEF SenderAdds, Uncut, SenderCut
  <2>2. taking.at \notin TakingCut
    BY <1>1 DEF SenderAdds, Uncut
  <2>3. localSeq + 1 \notin used
    OBVIOUS
  <2> QED
    BY <1>1, <2>1, <2>2, <2>3 DEF SenderAdds, builds
<1>2. ASSUME NEW s \in Senders, SenderLoads(s) PROVE NumbersKept'
  <2>1. \A u \in Senders : sender'[u] # "added"
    BY <1>2 DEF SenderLoads, Uncut, SenderCut
  <2>2. taking.at \notin TakingCut
    BY <1>2 DEF SenderLoads, Uncut
  <2> QED
    BY <1>2, <2>1, <2>2 DEF SenderLoads, Builds, numbers
<1>3. ASSUME NEW a \in Asked, AskIsOld(a) \/ AskLoads(a) \/ AskMoves(a) PROVE NumbersKept'
  <2>1. UNCHANGED <<localSeq, sender, taking, builds>>
    BY <1>3 DEF AskIsOld, AskLoads, AskMoves, AskStep
  <2> QED
    BY <2>1 DEF builds
<1>4. ASSUME NEW f \in Forks, ForkOffers(f) PROVE NumbersKept'
  BY <1>4 DEF ForkOffers, numbers, builds
<1>5. ASSUME NEW p \in Provisionals, TakesKnown(p) PROVE NumbersKept'
  BY <1>5 DEF TakesKnown, TakingStep, builds
<1>6. ASSUME NEW p \in Provisionals, TakesNew(p) PROVE NumbersKept'
  <2>1. \A u \in Senders : sender[u] # "added"
    BY <1>6 DEF TakesNew, Uncut, SenderCut
  <2> QED
    BY <1>6, <2>1 DEF TakesNew, numbers, builds
<1>7. ASSUME PrackAdds PROVE NumbersKept'
  <2>1. \A u \in Senders : sender[u] # "added"
    BY <1>7 DEF PrackAdds, TakingStep, Uncut, SenderCut
  <2> QED
    BY <1>7, <2>1 DEF PrackAdds, PrackNumber, TakingStep, builds
<1>8. ASSUME PrackSends PROVE NumbersKept'
  <2>1. \A u \in Senders : sender[u] # "added"
    BY <1>8 DEF PrackSends, TakingStep, Uncut, SenderCut
  <2> QED
    BY <1>8, <2>1 DEF PrackSends, TakingStep, Builds
<1>9. ASSUME PrackReturns PROVE NumbersKept'
  BY <1>9 DEF PrackReturns, TakingStep, builds
<1>10. ASSUME Restores PROVE NumbersKept'
  BY <1>10 DEF Restores, Restored, builds
<1> QED
  BY <1>1, <1>2, <1>3, <1>4, <1>5, <1>6, <1>7, <1>8, <1>9, <1>10 DEF SequenceNext

(* Nor the order: what a handler has read is current when it moves it,     *)
(* because no other handler ran in between.                                *)
LEMMA OrderStep ==
    ASSUME SequenceTypeOK, OrderKept, ~Parallel, SequenceNext
    PROVE  OrderKept'
<1> USE SequenceAssumption DEF OrderKept, Refused, SequenceTypeOK
<1> USE DEF accepts
<1>0. ASSUME UNCHANGED <<remoteSeq, loaded, asked, accepts>> PROVE OrderKept'
  BY <1>0
<1>1. ASSUME NEW s \in Senders, SenderAdds(s) \/ SenderLoads(s) PROVE OrderKept'
  <2>1. UNCHANGED <<remoteSeq, loaded, asked, accepts>>
    BY <1>1 DEF SenderAdds, SenderLoads, numbers
  <2> QED
    BY <1>0, <2>1
<1>2. ASSUME NEW a \in Asked, AskIsOld(a) PROVE OrderKept'
  BY <1>2 DEF AskIsOld, AskStep, accepts
<1>3. ASSUME NEW a \in Asked, AskLoads(a) PROVE OrderKept'
  BY <1>3 DEF AskLoads, AskStep, accepts
<1>4. ASSUME NEW a \in Asked, AskMoves(a) PROVE OrderKept'
  <2>1. \A b \in Asked : asked'[b] # "loaded"
    BY <1>4 DEF AskMoves, AskStep, Uncut, AskedCut
  <2>2. a \in Nat /\ loaded[a] = remoteSeq /\ ~Refused(a)
    BY <1>4 DEF AskMoves, AskStep
  <2>3. a >= newest
    BY <2>2
  <2> QED
    BY <1>4, <2>1, <2>2, <2>3 DEF AskMoves, Moved
<1>5. ASSUME NEW f \in Forks, ForkOffers(f) PROVE OrderKept'
  BY <1>5 DEF ForkOffers, numbers, accepts
<1>6. ASSUME NEW p \in Provisionals, TakesKnown(p) \/ TakesNew(p) PROVE OrderKept'
  <2>1. UNCHANGED <<remoteSeq, loaded, asked, accepts>>
    BY <1>6 DEF TakesKnown, TakesNew, TakingStep, numbers
  <2> QED
    BY <1>0, <2>1
<1>7. ASSUME PrackAdds \/ PrackSends \/ PrackReturns PROVE OrderKept'
  <2>1. UNCHANGED <<remoteSeq, loaded, asked, accepts>>
    BY <1>7 DEF PrackAdds, PrackSends, PrackReturns, TakingStep
  <2> QED
    BY <1>0, <2>1
<1>8. ASSUME Restores PROVE OrderKept'
  BY <1>8 DEF Restores, Restored, accepts
<1> QED
  BY <1>1, <1>2, <1>3, <1>4, <1>5, <1>6, <1>7, <1>8 DEF SequenceNext

(* Nor, on any executor, the PRACKs: of a single fork the provisional that *)
(* is compared with the stored one is that one, or has its PRACK.          *)
LEMMA PracksStep ==
    ASSUME SequenceTypeOK, PracksKept, SequenceNext
    PROVE  PracksKept'
<1> USE SequenceAssumption DEF PracksKept, TakingCut, SequenceTypeOK
<1>1. ASSUME UNCHANGED <<reliable, taking, pracks>> PROVE PracksKept'
  BY <1>1 DEF Offered, SingleForkIsPracked, SingleFork, pracks
<1>2. ASSUME NEW s \in Senders, SenderAdds(s) \/ SenderLoads(s) PROVE PracksKept'
  BY <1>1, <1>2 DEF SenderAdds, SenderLoads, numbers
<1>3. ASSUME NEW a \in Asked, AskIsOld(a) \/ AskLoads(a) \/ AskMoves(a) PROVE PracksKept'
  BY <1>1, <1>3 DEF AskIsOld, AskLoads, AskMoves, AskStep
<1>4. ASSUME NEW f \in Forks, ForkOffers(f) PROVE PracksKept'
  <2>1. PICK n \in 1 .. MaxRseq : n > offered[f] /\ offered' = [offered EXCEPT ![f] = n]
    BY <1>4 DEF ForkOffers
  <2>2. /\ \A g \in Forks : offered[g] <= offered'[g]
        /\ SingleFork' => SingleFork
    BY <2>1, OfferedGrows
  <2>3. \A g \in Forks : offered[g] \in Nat /\ offered'[g] \in Nat
    BY <2>1
  <2>4. ASSUME NEW p, p.rseq \in Nat, Offered(p) PROVE Offered(p)'
    BY <2>2, <2>3, <2>4 DEF Offered
  <2>5. UNCHANGED <<reliable, taking, pracked, ignored>>
    BY <1>4 DEF ForkOffers, numbers
  <2>6. (reliable # None => Offered(reliable))'
    BY <2>4, <2>5 DEF Provisional
  <2>7. (taking.at \in TakingCut => taking.provisional \in Provisional /\ Offered(taking.provisional))'
    BY <2>4, <2>5 DEF Provisional
  <2>8. (\A p \in pracked : Offered(p))'
    BY <2>4, <2>5 DEF Provisional
  <2> QED
    BY <2>2, <2>5, <2>6, <2>7, <2>8 DEF SingleForkIsPracked
<1>5. ASSUME NEW p \in Provisionals PROVE p \in Provisional /\ Offered(p)
  BY DEF Provisionals, Provisional, Offered
<1>6. ASSUME NEW p \in Provisionals, TakesKnown(p) PROVE PracksKept'
  <2>1. SingleFork /\ p \notin pracked => reliable = p
    <3> SUFFICES ASSUME SingleFork, p \notin pracked PROVE reliable = p
      OBVIOUS
    <3>1. PICK f \in Forks : \A g \in Forks \ {f} : offered[g] = 0
      BY DEF SingleFork
    <3>2. p \in Provisional /\ offered[p.fork] > 0 /\ p.rseq = offered[p.fork]
      BY DEF Provisionals
    <3>3. p.fork = f
      BY <3>1, <3>2 DEF Provisional
    <3>4. reliable \in Provisional /\ Offered(reliable)
      BY <1>6, <3>2 DEF TakesKnown, Known, None, Provisional
    <3>5. reliable.fork = f
      BY <3>1, <3>4 DEF Provisional, Offered
    <3>6. reliable.rseq = p.rseq
      BY <1>6, <3>2, <3>3, <3>4, <3>5 DEF TakesKnown, Known, Offered, Provisional
    <3> QED
      BY <3>2, <3>3, <3>4, <3>5, <3>6 DEF Provisional
  <2>2. SingleForkIsPracked'
    BY <1>6, <2>1 DEF TakesKnown, TakingStep, SingleForkIsPracked, SingleFork
  <2> QED
    BY <1>6, <2>2 DEF TakesKnown, TakingStep, Offered
<1>7. ASSUME NEW p \in Provisionals, TakesNew(p) PROVE PracksKept'
  BY <1>5, <1>7 DEF TakesNew, Offered, SingleForkIsPracked, SingleFork, numbers, pracks
<1>8. ASSUME PrackAdds \/ PrackReturns PROVE PracksKept'
  <2>1. /\ UNCHANGED <<reliable, pracks>>
        /\ taking'.provisional = taking.provisional
        /\ taking'.at \in TakingCut => taking.at \in TakingCut
    BY <1>8 DEF PrackAdds, PrackReturns, TakingStep, pracks
  <2> QED
    BY <2>1 DEF Offered, SingleForkIsPracked, SingleFork, pracks
<1>9. ASSUME PrackSends PROVE PracksKept'
  <2>1. taking.provisional \in Provisional /\ Offered(taking.provisional)
    BY <1>9 DEF PrackSends, TakingStep
  <2> QED
    BY <1>9, <2>1 DEF PrackSends, TakingStep, Offered, SingleForkIsPracked, SingleFork
<1>10. ASSUME Restores PROVE PracksKept'
  BY <1>10 DEF Restores, Offered, SingleForkIsPracked, SingleFork, pracks
<1> QED
  BY <1>2, <1>3, <1>4, <1>6, <1>7, <1>8, <1>9, <1>10 DEF SequenceNext

(* The invariant of the numbers holds in every state.                      *)
LEMMA SequenceInductive == SequenceSpec => []SequenceInv
<1>1. SequenceInv /\ [SequenceNext]_sequenceVars => SequenceInv'
  <2> SUFFICES ASSUME SequenceInv, [SequenceNext]_sequenceVars PROVE SequenceInv'
    OBVIOUS
  <2>1. CASE SequenceNext
    BY <2>1, SequenceTypes, NumbersStep, OrderStep, PracksStep DEF SequenceInv
  <2>2. CASE UNCHANGED sequenceVars
    <3> USE <2>2 DEF sequenceVars, numbers, builds, accepts, pracks
    <3>1. SequenceTypeOK' = SequenceTypeOK
      BY DEF SequenceTypeOK
    <3>2. NumbersKept' = NumbersKept /\ OrderKept' = OrderKept
      BY DEF NumbersKept, OrderKept, Refused
    <3>3. PracksKept' = PracksKept
      BY DEF PracksKept, Offered, SingleForkIsPracked, SingleFork
    <3> QED
      BY <3>1, <3>2, <3>3 DEF SequenceInv
  <2> QED
    BY <2>1, <2>2
<1> QED
  BY <1>1, SequenceStart, PTL DEF SequenceSpec

(* Type correctness of the dialog's numbers.                               *)
THEOREM SequenceTyping == SequenceSpec => []SequenceTypeOK
<1>1. SequenceInv => SequenceTypeOK
  BY DEF SequenceInv
<1> QED
  BY <1>1, SequenceInductive, PTL

(* On a cooperative executor increment_local_seq gives no CSeq number to   *)
(* two requests, for any number of sending tasks, PRACKs and a restore.    *)
THEOREM NumbersAreUnique == SequenceSpec => []CooperativeNumbers
<1>1. SequenceInv => CooperativeNumbers
  BY DEF SequenceInv, NumbersKept, CooperativeNumbers
<1> QED
  BY <1>1, SequenceInductive, PTL

(* On a cooperative executor handle accepts no request of the peer after a *)
(* newer one, for any set of numbers of the peer.                          *)
THEOREM OrderIsKept == SequenceSpec => []CooperativeOrder
<1>1. SequenceInv => CooperativeOrder
  BY DEF SequenceInv, OrderKept, CooperativeOrder
<1> QED
  BY <1>1, SequenceInductive, PTL

(* On any executor prepare_prack_request drops no provisional of a single  *)
(* fork before it was acknowledged.                                        *)
THEOREM Pracked == SequenceSpec => []SingleForkIsPracked
<1>1. SequenceInv => SingleForkIsPracked
  BY DEF SequenceInv, PracksKept
<1> QED
  BY <1>1, SequenceInductive, PTL

-----------------------------------------------------------------------------
(***************************************************************************)
(* The dialogs of an endpoint.                                             *)
(***************************************************************************)

Tracks == [at : {"idle", "absent", "holding", "done"}, id : Ids \cup {"none"}, dialog : Dialogs \cup {0}]

(* What a task becomes, task by task.                                      *)
LEMMA BecomesOne ==
    ASSUME RegistryTypeOK, NEW t \in Tasks, NEW at, NEW id, NEW dialog1,
           at \in {"idle", "absent", "holding", "done"}, id \in Ids, dialog1 \in Dialogs \cup {0},
           Becomes(t, at, id, dialog1)
    PROVE  /\ task' \in [Tasks -> Tracks]
           /\ \A u \in Tasks : task'[u] = IF u = t THEN [at |-> at, id |-> id, dialog |-> dialog1]
                                          ELSE task[u]
BY DEF RegistryTypeOK, Becomes, Tracks

(* A new dialog, under its id.                                             *)
LEMMA AddsOne ==
    ASSUME RegistryTypeOK, NEW i \in Ids, Adds(i)
    PROVE  /\ made + 1 \in Dialogs /\ made' \in 0 .. MaxDialogs
           /\ registry' \in [Ids -> Dialogs \cup {0}]
           /\ \A j \in Ids : registry'[j] = IF j = i THEN made + 1 ELSE registry[j]
BY RegistryAssumption DEF RegistryTypeOK, Adds, Dialogs

(* An id left: its dialog is cancelled.                                    *)
LEMMA LeavesOne ==
    ASSUME RegistryTypeOK, NEW i \in Ids, Leaves(i)
    PROVE  /\ cancelled' \subseteq Dialogs
           /\ cancelled \subseteq cancelled'
           /\ registry[i] # 0 => registry[i] \in cancelled'
           /\ registry' \in [Ids -> Dialogs \cup {0}]
           /\ \A j \in Ids : registry'[j] = IF j = i THEN 0 ELSE registry[j]
BY DEF RegistryTypeOK, Leaves

(* No step of a task replaces a dialog that another one holds: an insert   *)
(* of a look-up that found nothing meets the id as it found it, one for a  *)
(* request takes an id nobody has.                                         *)
LEMMA RegistryStep ==
    ASSUME RegistryInv, RegistryNext
    PROVE  RegistryInv'
<1> USE DEF RegistryInv, HoldersHave, AbsentIsAlone, NoneIsReplaced
<1>0. /\ task \in [Tasks -> Tracks] /\ registry \in [Ids -> Dialogs \cup {0}]
      /\ 0 \notin Dialogs /\ RegistryTypeOK
  BY DEF RegistryTypeOK, Tracks, Dialogs
<1>1. ASSUME NEW t \in Tasks, NEW i \in Ids, CreatesForRequest(t, i) PROVE RegistryInv'
  <2>1. /\ made + 1 \in Dialogs /\ made' \in 0 .. MaxDialogs
        /\ registry' \in [Ids -> Dialogs \cup {0}]
        /\ \A j \in Ids : registry'[j] = IF j = i THEN made + 1 ELSE registry[j]
    BY <1>0, <1>1, AddsOne DEF CreatesForRequest
  <2>2. /\ task' \in [Tasks -> Tracks]
        /\ \A u \in Tasks : task'[u] = IF u = t THEN [at |-> "holding", id |-> i, dialog |-> made + 1]
                                       ELSE task[u]
    BY <1>0, <1>1, <2>1, BecomesOne DEF CreatesForRequest
  <2>3. RegistryTypeOK'
    BY <1>0, <1>1, <2>1, <2>2 DEF RegistryTypeOK, Tracks, CreatesForRequest, Dialogs
  <2>4. HoldersHave'
    BY <1>0, <2>1, <2>2
  <2>5. ~Threads => \A u \in Tasks : task[u].at # "absent"
    BY <1>1 DEF CreatesForRequest, Idles
  <2>6. \A u \in Tasks : task[u].id # i
    BY <1>1 DEF CreatesForRequest
  <2>7. (~Threads => AbsentIsAlone)'
    BY <1>0, <2>2, <2>5
  <2>8. NoneIsReplaced'
    BY <1>0, <1>1, <2>1, <2>2, <2>6 DEF CreatesForRequest
  <2> QED
    BY <2>3, <2>4, <2>7, <2>8
<1>2. ASSUME NEW t \in Tasks, NEW i \in Ids, LooksUp(t, i) PROVE RegistryInv'
  <2>1. /\ task' \in [Tasks -> Tracks]
        /\ \A u \in Tasks : task'[u] =
              IF u = t THEN [at |-> IF registry[i] = 0 THEN "done" ELSE "holding",
                             id |-> i, dialog |-> registry[i]]
              ELSE task[u]
    BY <1>0, <1>2, BecomesOne DEF LooksUp
  <2>2. RegistryTypeOK'
    BY <1>0, <1>2, <2>1 DEF RegistryTypeOK, Tracks, LooksUp, Dialogs
  <2>3. UNCHANGED <<registry, cancelled>>
    BY <1>2 DEF LooksUp
  <2>4. (~Threads => AbsentIsAlone)'
    BY <1>0, <2>1, <2>3
  <2>5. HoldersHave' /\ NoneIsReplaced'
    BY <1>0, <2>1, <2>3
  <2> QED
    BY <2>2, <2>4, <2>5
<1>3. ASSUME NEW t \in Tasks, NEW i \in Ids, LooksFirst(t, i) PROVE RegistryInv'
  <2>0. UNCHANGED <<registry, made, cancelled>>
    BY <1>3 DEF LooksFirst
  <2>1. CASE registry[i] = 0
    <3>1. /\ task' \in [Tasks -> Tracks]
          /\ \A u \in Tasks : task'[u] = IF u = t THEN [at |-> "absent", id |-> i, dialog |-> 0]
                                         ELSE task[u]
      BY <1>0, <1>3, <2>1, BecomesOne DEF LooksFirst, Absent
    <3>2. RegistryTypeOK'
      BY <1>0, <2>0, <3>1 DEF RegistryTypeOK, Tracks, Dialogs
    <3>3. ~Threads => \A u \in Tasks : task[u].at # "absent"
      BY <1>3 DEF LooksFirst, Idles
    <3>4. (~Threads => AbsentIsAlone)'
      BY <1>0, <2>0, <2>1, <3>1, <3>3
    <3>5. HoldersHave' /\ NoneIsReplaced'
      BY <1>0, <2>0, <3>1
    <3> QED
      BY <3>2, <3>4, <3>5
  <2>2. CASE registry[i] # 0
    <3>1. /\ task' \in [Tasks -> Tracks]
          /\ \A u \in Tasks : task'[u] =
                IF u = t THEN [at |-> "holding", id |-> i, dialog |-> registry[i]] ELSE task[u]
      BY <1>0, <1>3, <2>2, BecomesOne DEF LooksFirst, Absent
    <3>2. RegistryTypeOK'
      BY <1>0, <2>0, <3>1 DEF RegistryTypeOK, Tracks, Dialogs
    <3>3. (~Threads => AbsentIsAlone)'
      BY <1>0, <2>0, <3>1
    <3>4. HoldersHave' /\ NoneIsReplaced'
      BY <1>0, <2>0, <2>2, <3>1
    <3> QED
      BY <3>2, <3>3, <3>4
  <2> QED
    BY <2>1, <2>2
<1>4. ASSUME NEW t \in Tasks, NEW i \in Ids, Removes(t, i) \/ Takes(t, i) PROVE RegistryInv'
  <2>1. /\ Leaves(i) /\ made' = made
        /\ ~Threads => \A u \in Tasks : task[u].at # "absent"
        /\ \E d \in Dialogs \cup {0} : Becomes(t, "done", i, d)
    BY <1>0, <1>4 DEF Removes, Takes, Idles
  <2>2. PICK d \in Dialogs \cup {0} : Becomes(t, "done", i, d)
    BY <2>1
  <2>3. /\ cancelled' \subseteq Dialogs
        /\ cancelled \subseteq cancelled'
        /\ registry[i] # 0 => registry[i] \in cancelled'
        /\ registry' \in [Ids -> Dialogs \cup {0}]
        /\ \A j \in Ids : registry'[j] = IF j = i THEN 0 ELSE registry[j]
    BY <1>0, <2>1, LeavesOne
  <2>4. /\ task' \in [Tasks -> Tracks]
        /\ \A u \in Tasks : task'[u] = IF u = t THEN [at |-> "done", id |-> i, dialog |-> d]
                                       ELSE task[u]
    BY <1>0, <2>2, BecomesOne
  <2>5. RegistryTypeOK'
    BY <1>0, <2>1, <2>3, <2>4 DEF RegistryTypeOK, Tracks, Dialogs
  <2>6. (~Threads => AbsentIsAlone)'
    BY <1>0, <2>1, <2>4
  <2>7. HoldersHave'
    BY <1>0, <2>4
  <2>8. NoneIsReplaced'
    BY <1>0, <2>3, <2>4
  <2> QED
    BY <2>5, <2>6, <2>7, <2>8
<1>5. ASSUME NEW t \in Tasks, Inserts(t) PROVE RegistryInv'
  <2> DEFINE i == task[t].id
  <2>0. task[t].at = "absent" /\ Adds(i) /\ Becomes(t, "holding", i, made + 1) /\ cancelled' = cancelled
    BY <1>5 DEF Inserts
  <2>1. i \in Ids /\ (~Threads => registry[i] = 0 /\ \A u \in Tasks : task[u].at = "absent" => u = t)
    BY <2>0
  <2>2. /\ made + 1 \in Dialogs /\ made' \in 0 .. MaxDialogs
        /\ registry' \in [Ids -> Dialogs \cup {0}]
        /\ \A j \in Ids : registry'[j] = IF j = i THEN made + 1 ELSE registry[j]
    BY <1>0, <2>0, <2>1, AddsOne
  <2>3. /\ task' \in [Tasks -> Tracks]
        /\ \A u \in Tasks : task'[u] = IF u = t THEN [at |-> "holding", id |-> i, dialog |-> made + 1]
                                       ELSE task[u]
    BY <1>0, <2>0, <2>1, <2>2, BecomesOne
  <2> HIDE DEF i
  <2>4. RegistryTypeOK'
    BY <1>0, <2>0, <2>2, <2>3 DEF RegistryTypeOK, Tracks, Dialogs
  <2>5. HoldersHave'
    BY <1>0, <2>1, <2>2, <2>3
  <2>6. (~Threads => AbsentIsAlone)'
    BY <1>0, <2>1, <2>3
  <2>7. NoneIsReplaced'
    BY <1>0, <2>0, <2>1, <2>2, <2>3
  <2> QED
    BY <2>4, <2>5, <2>6, <2>7
<1> QED
  BY <1>1, <1>2, <1>3, <1>4, <1>5 DEF RegistryNext

(* The invariant of the registry holds in every state.                     *)
LEMMA RegistryInductive == RegistrySpec => []RegistryInv
<1>1. RegistryInit => RegistryInv
  BY RegistryAssumption
     DEF RegistryInit, RegistryInv, RegistryTypeOK, HoldersHave, AbsentIsAlone, NoneIsReplaced, Dialogs
<1>2. RegistryInv /\ [RegistryNext]_registryVars => RegistryInv'
  <2> SUFFICES ASSUME RegistryInv, [RegistryNext]_registryVars PROVE RegistryInv'
    OBVIOUS
  <2>1. CASE RegistryNext
    BY <2>1, RegistryStep
  <2>2. CASE UNCHANGED registryVars
    BY <2>2 DEF registryVars, RegistryInv, RegistryTypeOK, HoldersHave, AbsentIsAlone, NoneIsReplaced
  <2> QED
    BY <2>1, <2>2
<1> QED
  BY <1>1, <1>2, PTL DEF RegistrySpec

(* On one thread get_or_create and restore_from_snapshot replace no dialog *)
(* a task holds, for any number of tasks and ids.                          *)
THEOREM NoReplacement == RegistrySpec => []NoneIsReplaced
<1>1. RegistryInv => NoneIsReplaced
  BY DEF RegistryInv
<1> QED
  BY <1>1, RegistryInductive, PTL

(* Type correctness of the registry.                                       *)
THEOREM RegistryTyping == RegistrySpec => []RegistryTypeOK
<1>1. RegistryInv => RegistryTypeOK
  BY DEF RegistryInv
<1> QED
  BY <1>1, RegistryInductive, PTL

-----------------------------------------------------------------------------
(***************************************************************************)
(* A registration.                                                         *)
(***************************************************************************)

(* Every step of register keeps the invariant, and a 200 binds the address *)
(* reported before it.                                                     *)
LEMMA RegistrationStep ==
    ASSUME RegistrationInv, RegistrationNext
    PROVE  /\ RegistrationInv'
           /\ step = "waiting" /\ step' = "ok" /\ reported # "none"
                 /\ (sent.answer # "none" \/ ~setup.explicit) => binding'.contact = reported
<1> DEFINE Binds == step = "waiting" /\ step' = "ok" /\ reported # "none"
                    /\ (sent.answer # "none" \/ ~setup.explicit) => binding'.contact = reported
<1> USE RegistrationAssumption DEF RegistrationInv, RegistrationTypeOK, Contacts, Local
<1>1. ASSUME Register PROVE RegistrationInv' /\ Binds
  <2>1. ChosenContact \in Contacts
    BY DEF ChosenContact
  <2>2. ~setup.explicit /\ reported # "none" => ChosenContact = reported
    BY DEF ChosenContact
  <2> QED
    BY <1>1, <2>1, <2>2 DEF Register
<1>2. ASSUME Challenged PROVE RegistrationInv' /\ Binds
  <2>1. PICK own \in Kinds, offered1 \in SUBSET Kinds, address \in Seen :
          /\ reported' = address
          /\ \/ /\ sent.answer # "none" \/ ~setup.credential
                /\ reg' = Learns(address)
                /\ step' = "refused" /\ UNCHANGED sent
             \/ /\ sent.answer = "none" /\ setup.credential
                /\ reg' = [Learns(address) EXCEPT !.seq = NextSeq]
                /\ IF offered1 = {}
                   THEN step' = "error" /\ UNCHANGED sent
                   ELSE /\ step' \in {"waiting", "error"}
                        /\ sent' = [seq |-> NextSeq, contact |-> RetryContact(address),
                                    answer |-> Answer(own, offered1)]
    BY <1>2 DEF Challenged
  <2>2. address \in Contacts
    BY DEF Seen
  <2>3. /\ Learns(address) \in [seq : Nat, contact : Contacts, public : Contacts]
        /\ Learns(address).public = address
        /\ reg.contact = "none" => Learns(address).contact = "none"
    BY <2>2 DEF Learns
  <2>4. NextSeq \in Nat
    BY DEF NextSeq
  <2>5. offered1 # {} => Answer(own, offered1) \in Kinds
    BY DEF Answer
  <2>6. /\ reg' \in [seq : Nat, contact : Contacts, public : Contacts]
        /\ reg'.public = address
        /\ reg.contact = "none" => reg'.contact = "none"
    BY <2>1, <2>3, <2>4
  <2>7. /\ step' \in {"waiting", "refused", "error"}
        /\ sent' \in [seq : Nat, contact : Contacts, answer : Kinds \cup {"none"}]
        /\ step' = "waiting" => sent'.contact = address
    BY <2>1, <2>2, <2>4, <2>5 DEF RetryContact
  <2>8. UNCHANGED <<setup, nat, binding, calls>> /\ reported' = address
    BY <1>2, <2>1 DEF Challenged
  <2> QED
    BY <2>2, <2>6, <2>7, <2>8
<1>3. ASSUME Accepted PROVE RegistrationInv' /\ Binds
  BY <1>3 DEF Accepted, Seen
<1>4. ASSUME NotAccepted PROVE RegistrationInv' /\ Binds
  BY <1>4 DEF NotAccepted
<1>5. ASSUME NatMoves PROVE RegistrationInv' /\ Binds
  BY <1>5 DEF NatMoves
<1> QED
  BY <1>1, <1>2, <1>3, <1>4, <1>5 DEF RegistrationNext

(* The invariant of a registration holds in every state.                   *)
LEMMA RegistrationInductive == RegistrationSpec => []RegistrationInv
<1>1. RegistrationInit => RegistrationInv
  BY RegistrationAssumption
     DEF RegistrationInit, RegistrationInv, RegistrationTypeOK, Contacts, Local
<1>2. RegistrationInv /\ [RegistrationNext]_registrationVars => RegistrationInv'
  <2>1. RegistrationInv /\ UNCHANGED registrationVars => RegistrationInv'
    BY DEF registrationVars, RegistrationInv, RegistrationTypeOK
  <2> QED
    BY <2>1, RegistrationStep
<1> QED
  BY <1>1, <1>2, PTL DEF RegistrationSpec

(* The Contact register has bound when it returns is the address the       *)
(* registrar reported last, for any addresses, lifetimes and number of     *)
(* calls.                                                                  *)
THEOREM BoundIsReported == RegistrationSpec => ReportedIsBound
<1>1. RegistrationInv /\ [RegistrationNext]_registrationVars =>
        [step = "waiting" /\ step' = "ok" /\ reported # "none"
            /\ (sent.answer # "none" \/ ~setup.explicit) =>
         binding'.contact = reported]_registrationVars
  BY RegistrationStep
<1> QED
  BY <1>1, RegistrationInductive, PTL DEF RegistrationSpec, ReportedIsBound

(* Type correctness of a registration.                                     *)
THEOREM RegistrationTyping == RegistrationSpec => []RegistrationTypeOK
<1>1. RegistrationInv => RegistrationTypeOK
  BY DEF RegistrationInv
<1> QED
  BY <1>1, RegistrationInductive, PTL

-----------------------------------------------------------------------------
(***************************************************************************)
(* The requests inside a dialog.                                           *)
(***************************************************************************)

Request == [at : {"idle", "sending", "dialback", "waiting", "resending", "done"},
            conn : {"none", "flow", "found"}, unresolved : BOOLEAN, started : BOOLEAN,
            authSent : BOOLEAN, armed : Requests \cup {"none"}, body : Requests \cup {"none"},
            acked : Requests \cup {"none", "unsent"}, writes : Nat, gaveUp : BOOLEAN]

(* A request may become new when that keeps its type, its armed body, what *)
(* it has acknowledged but with that body, and its writes.                 *)
Fits(r, new) ==
    /\ new \in Request
    /\ new.at # "done" => new.body = new.armed
    /\ new.acked # request[r].acked /\ r \in Invites => new.acked = request[r].armed
    /\ new.at \in {"idle", "sending", "dialback"} => new.writes = 0
    /\ new.at = "resending" => new.authSent /\ new.writes <= 1
    /\ new.writes <= IF new.authSent THEN 2 ELSE 1

AcksArmed ==
    \A r \in Invites : request'[r].acked # request[r].acked => request'[r].acked = request[r].armed

(* A step that makes one request what fits it keeps the invariant and the  *)
(* action property.                                                        *)
LEMMA FittingStep ==
    ASSUME RequestsInv, NEW r \in Requests, NEW new, Fits(r, new), Update(r, new),
           dialog' = dialog, flow' \in {"none", "datagram", "live", "cut"},
           dialogState' \in {"early", "confirmed", "terminated"}
    PROVE  RequestsInv' /\ AcksArmed
<1>1. request \in [Requests -> Request]
  BY DEF RequestsInv, RequestTypeOK, Request
<1>2. /\ request' \in [Requests -> Request]
      /\ \A q \in Requests : request'[q] = IF q = r THEN new ELSE request[q]
  BY <1>1 DEF Update, Fits
<1>3. RequestTypeOK'
  BY <1>2 DEF RequestsInv, RequestTypeOK, Request
<1>4. BodyKept'
  BY <1>2 DEF RequestsInv, BodyKept, Fits
<1>5. (\A q \in Requests : WritesOf(q))'
  BY <1>2 DEF RequestsInv, WritesOf, WrittenOnce, Fits
<1>6. AcksArmed
  BY <1>2, RequestsAssumption DEF AcksArmed, Fits
<1> QED
  BY <1>3, <1>4, <1>5, <1>6 DEF RequestsInv

(* Every step of a request, of the peer and of the stream is such a step,  *)
(* or leaves the requests alone.                                           *)
LEMMA RequestsStep ==
    ASSUME RequestsInv, RequestsNext
    PROVE  RequestsInv' /\ AcksArmed
<1>1. /\ request \in [Requests -> Request]
      /\ flow \in {"none", "datagram", "live", "cut"}
      /\ dialogState \in {"early", "confirmed", "terminated"}
  BY DEF RequestsInv, RequestTypeOK, Request
<1>2. ASSUME NEW r \in Requests
      PROVE  /\ request[r] \in Request
             /\ request[r].at # "done" => request[r].body = request[r].armed
             /\ WritesOf(r)
  BY <1>1 DEF RequestsInv, BodyKept
<1>3. ASSUME NEW r \in Requests, NEW new, Fits(r, new), Continues(r, new)
      PROVE  RequestsInv' /\ AcksArmed
  BY <1>1, <1>3, FittingStep DEF Continues
<1>4. ASSUME NEW r \in Requests, NEW new, NEW failed \in BOOLEAN,
             Fits(r, [new EXCEPT !.at = "done"]), Returns(r, new, failed)
      PROVE  RequestsInv' /\ AcksArmed
  BY <1>1, <1>4, FittingStep DEF Returns, EndsDialog
<1>5. ASSUME NEW r \in Requests, Calls(r) PROVE RequestsInv' /\ AcksArmed
  <2>1. PICK body \in (IF r \in Invites THEN {r, "none"} ELSE {"none"}) :
          Update(r, [request[r] EXCEPT !.at = "sending", !.conn = AffinityConnection,
                                       !.armed = body, !.body = body])
    BY <1>5 DEF Calls
  <2>2. Fits(r, [request[r] EXCEPT !.at = "sending", !.conn = AffinityConnection,
                                   !.armed = body, !.body = body])
    BY <1>2, <1>5 DEF Fits, Request, WritesOf, WrittenOnce, Calls, At, AffinityConnection
  <2> QED
    BY <1>1, <1>5, <2>1, <2>2, FittingStep DEF Calls, EndsDialog
<1>6. ASSUME NEW r \in Requests, CallsInVain(r) PROVE RequestsInv' /\ AcksArmed
  <2>1. Fits(r, [request[r] EXCEPT !.at = "done"])
    BY <1>2 DEF Fits, Request, WritesOf, WrittenOnce
  <2> QED
    BY <1>3, <1>6, <2>1 DEF CallsInVain
<1>7. ASSUME NEW r \in Requests, NEW conn \in {"flow", "found"},
             request[r].at \in {"sending", "resending", "dialback"}
      PROVE  Fits(r, SendsOn(r, conn))
  <2> DEFINE new == SendsOn(r, conn)
  <2>1. request[r] \in Request
    BY <1>2
  <2>0. (IF At(r, "sending") THEN AfterSend(conn) ELSE "waiting") = "waiting"
    BY <1>7 DEF AfterSend
  <2>2. new \in Request /\ new.at = "waiting"
    <3> DEFINE s == Started(r)
    <3>1. new = [s EXCEPT !.at = "waiting", !.conn = conn, !.writes = s.writes + 1]
      BY <2>0 DEF SendsOn
    <3>2. s \in Request
      BY <2>1 DEF Started, Request
    <3> HIDE DEF new, s
    <3>3. s.writes + 1 \in Nat
      BY <3>2 DEF Request
    <3> QED
      BY <3>1, <3>2, <3>3 DEF Request
  <2>3. /\ new.body = request[r].body /\ new.armed = request[r].armed /\ new.acked = request[r].acked
        /\ new.authSent = request[r].authSent /\ new.writes = request[r].writes + 1
    BY <2>1 DEF Request, SendsOn, Started
  <2>4. request[r].writes \in Nat /\ request[r].authSent \in BOOLEAN
    BY <2>1 DEF Request
  <2>5. request[r].writes = 0 \/ (request[r].authSent /\ request[r].writes <= 1)
    BY <1>2, <1>7 DEF WritesOf
  <2>6. new.writes <= IF new.authSent THEN 2 ELSE 1
    BY <2>3, <2>4, <2>5
  <2> HIDE DEF new
  <2> QED
    <3>1. request[r].at # "done" /\ request[r].body = request[r].armed
      BY <1>2, <1>7
    <3> QED
      BY <2>2, <2>3, <2>6, <3>1 DEF Fits, new
<1>8. ASSUME NEW r \in Requests, Sends(r) PROVE RequestsInv' /\ AcksArmed
  <2>1. CASE WritesOnFlow(r)
    BY <1>1, <1>7, <2>1, FittingStep DEF WritesOnFlow
  <2>2. CASE Finds(r)
    BY <1>3, <1>7, <2>2 DEF Finds
  <2>3. CASE FindsNoTarget(r)
    <3>1. Fits(r, [request[r] EXCEPT !.at = "dialback", !.unresolved = TRUE])
          /\ Fits(r, [request[r] EXCEPT !.at = "done"])
      BY <1>2, <2>3 DEF Fits, Request, WritesOf, WrittenOnce, FindsNoTarget, At
    <3> QED
      BY <1>3, <1>4, <2>3, <3>1 DEF FindsNoTarget
  <2>4. CASE FindsNoConnection(r)
    <3>1. Fits(r, [Started(r) EXCEPT !.at = "dialback"])
      BY <1>2, <2>4 DEF Fits, Request, WritesOf, WrittenOnce, FindsNoConnection, Started, At
    <3> QED
      BY <1>3, <2>4, <3>1 DEF FindsNoConnection
  <2>5. CASE DialsBack(r)
    <3>1. Fits(r, [Started(r) EXCEPT !.at = "waiting"])
      BY <1>2, <2>5 DEF Fits, Request, WritesOf, WrittenOnce, DialsBack, Started, At
    <3> QED
      BY <1>3, <1>7, <2>5, <3>1 DEF DialsBack, At
  <2>6. CASE HasNoTarget(r)
    <3> DEFINE tried == [request[r] EXCEPT !.gaveUp = TRUE]
    <3>1. Fits(r, [tried EXCEPT !.at = "done"]) /\ Fits(r, [tried EXCEPT !.at = "waiting"])
      BY <1>2, <2>6 DEF Fits, Request, WritesOf, WrittenOnce, HasNoTarget, At
    <3> QED
      BY <1>3, <1>4, <2>6, <3>1 DEF HasNoTarget
  <2>7. CASE ResendFindsNone(r)
    <3>1. Fits(r, [request[r] EXCEPT !.at = "done"]) /\ Fits(r, [Started(r) EXCEPT !.at = "waiting"])
      BY <1>2, <2>7 DEF Fits, Request, WritesOf, WrittenOnce, ResendFindsNone, Started, At
    <3> QED
      BY <1>3, <1>4, <2>7, <3>1 DEF ResendFindsNone
  <2> QED
    BY <1>8, <2>1, <2>2, <2>3, <2>4, <2>5, <2>6, <2>7 DEF Sends
<1>9. ASSUME NEW r \in Requests, Hears(r)
      PROVE  /\ Fits(r, [request[r] EXCEPT !.at = "done"])
             /\ Fits(r, [request[r] EXCEPT !.authSent = TRUE, !.at = "done"])
             /\ Fits(r, [request[r] EXCEPT !.at = "done", !.authSent = TRUE])
  <2>1. /\ request[r] \in Request /\ request[r].writes \in Nat /\ request[r].authSent \in BOOLEAN
        /\ request[r].writes <= IF request[r].authSent THEN 2 ELSE 1
    BY <1>2 DEF Request, WritesOf, WrittenOnce
  <2>2. request[r].writes <= 2
    BY <2>1
  <2>3. Fits(r, [request[r] EXCEPT !.at = "done"])
    BY <2>1 DEF Fits, Request
  <2>4. Fits(r, [request[r] EXCEPT !.authSent = TRUE, !.at = "done"])
    BY <2>1, <2>2 DEF Fits, Request
  <2>5. [request[r] EXCEPT !.authSent = TRUE, !.at = "done"] = [request[r] EXCEPT !.at = "done", !.authSent = TRUE]
    BY <2>1 DEF Request
  <2> QED
    BY <2>3, <2>4, <2>5
<1>10. ASSUME NEW r \in Requests, IsAnswered(r) PROVE RequestsInv' /\ AcksArmed
  <2>1. CASE PrackFails(r)
    BY <1>4, <1>9, <2>1 DEF PrackFails
  <2>2. CASE IsChallenged(r)
    <3> DEFINE again == [request[r] EXCEPT !.at = "resending", !.authSent = TRUE,
                                           !.body = BodyMoved(r), !.started = FALSE]
    <3>1. Fits(r, again)
      <4>1. /\ request[r] \in Request /\ request[r].writes \in Nat
            /\ request[r].writes <= IF request[r].authSent THEN 2 ELSE 1
            /\ request[r].at = "waiting" /\ ~request[r].authSent
            /\ request[r].body = request[r].armed
        BY <1>2, <2>2 DEF Request, WritesOf, WrittenOnce, IsChallenged, Hears, At
      <4>2. request[r].writes <= 1
        BY <4>1
      <4> QED
        <5>1. again \in Request
          BY <4>1 DEF Request, BodyMoved
        <5>2. /\ again.at = "resending" /\ again.authSent /\ again.body = again.armed
              /\ again.acked = request[r].acked /\ again.writes = request[r].writes
          BY <4>1 DEF Request, BodyMoved
        <5> HIDE DEF again
        <5> QED
          BY <4>1, <4>2, <5>1, <5>2 DEF Fits
    <3>2. [[request[r] EXCEPT !.authSent = TRUE] EXCEPT !.at = "done"]
            = [request[r] EXCEPT !.authSent = TRUE, !.at = "done"]
      OBVIOUS
    <3> QED
      BY <1>3, <1>4, <1>9, <2>2, <3>1, <3>2 DEF IsChallenged
  <2>3. CASE ChallengedForGood(r)
    BY <1>1, <1>9, <2>3, FittingStep DEF ChallengedForGood
  <2>4. CASE Succeeds(r)
    <3> DEFINE new == IF r \in Invites THEN [request[r] EXCEPT !.acked = request[r].body, !.body = "none"]
                      ELSE request[r]
    <3>1. Fits(r, [new EXCEPT !.at = "done"])
      BY <1>2, <2>4 DEF Fits, Request, WritesOf, WrittenOnce, Succeeds, Hears, At
    <3> HIDE DEF new
    <3>2. Returns(r, new, FALSE)
      BY <2>4 DEF Succeeds, new
    <3> QED
      BY <1>4, <3>1, <3>2
  <2>5. CASE Fails(r)
    BY <1>4, <1>9, <2>5 DEF Fails
  <2> QED
    BY <1>10, <2>1, <2>2, <2>3, <2>4, <2>5 DEF IsAnswered
<1>11. ASSUME request' = request, dialog' = dialog, flow' \in {"none", "datagram", "live", "cut"},
              dialogState' \in {"early", "confirmed", "terminated"}
       PROVE  RequestsInv' /\ AcksArmed
  BY <1>11 DEF RequestsInv, RequestTypeOK, BodyKept, WritesOf, WrittenOnce, AcksArmed
<1>12. ASSUME NEW r \in Requests, Provisional1xx(r) PROVE RequestsInv' /\ AcksArmed
  BY <1>1, <1>11, <1>12 DEF Provisional1xx
<1>13. ASSUME PeerEnds \/ FlowBreaks PROVE RequestsInv' /\ AcksArmed
  BY <1>1, <1>11, <1>13 DEF PeerEnds, FlowBreaks
<1> QED
  BY <1>5, <1>6, <1>8, <1>10, <1>12, <1>13 DEF RequestsNext

(* The invariant of the requests holds in every state.                     *)
LEMMA RequestsInductive == RequestsSpec => []RequestsInv
<1>1. RequestsInit => RequestsInv
  <2> SUFFICES ASSUME RequestsInit PROVE RequestsInv
    OBVIOUS
  <2>1. Idle \in Request
    BY DEF Idle, Request
  <2>2. request = [r \in Requests |-> Idle]
    BY DEF RequestsInit
  <2>3. /\ dialog \in [role : {"client", "server"}, routed : BOOLEAN, credential : BOOLEAN,
                       locator : BOOLEAN, restored : BOOLEAN, dialback : BOOLEAN,
                       via : BOOLEAN, origin : BOOLEAN]
        /\ flow \in {"none", "datagram", "live", "cut"}
        /\ dialogState \in {"early", "confirmed", "terminated"}
    <3>1. PICK role \in {"client", "server"}, routed, credential, locator, restored1, origin \in BOOLEAN :
            /\ role = "client" => ~origin
            /\ flow \in IF restored1 THEN {"none"} ELSE {"datagram", "live"}
            /\ dialog = [role |-> role, routed |-> routed, credential |-> credential,
                         locator |-> locator, restored |-> restored1,
                         dialback |-> flow = "live", origin |-> origin,
                         via |-> IF restored1 THEN RestoredVia(origin) ELSE origin]
      BY DEF RequestsInit
    <3>2. (IF restored1 THEN RestoredVia(origin) ELSE origin) \in BOOLEAN /\ (flow = "live") \in BOOLEAN
      BY DEF RestoredVia
    <3> QED
      BY <3>1, <3>2 DEF RequestsInit
  <2>4. RequestTypeOK
    BY <2>1, <2>2, <2>3 DEF RequestTypeOK, Request
  <2>5. BodyKept /\ \A r \in Requests : WritesOf(r)
    BY <2>2 DEF BodyKept, WritesOf, WrittenOnce, Idle
  <2> QED
    BY <2>4, <2>5 DEF RequestsInv
<1>2. RequestsInv /\ [RequestsNext]_requestVars => RequestsInv'
  <2>1. RequestsInv /\ UNCHANGED requestVars => RequestsInv'
    BY DEF requestVars, RequestsInv, RequestTypeOK, BodyKept, WritesOf, WrittenOnce
  <2> QED
    BY <2>1, RequestsStep
<1> QED
  BY <1>1, <1>2, PTL DEF RequestsSpec

(* The ACK of a re-INVITE carries the body armed for it, for any number of *)
(* requests at once, after a challenge too.                                *)
THEOREM AckBody == RequestsSpec => AckCarriesItsBody
<1>1. RequestsInv /\ [RequestsNext]_requestVars => [AcksArmed]_requestVars
  BY RequestsStep
<1>2. [AcksArmed]_requestVars =>
        [\A r \in Invites : request'[r].acked # request[r].acked =>
            request'[r].acked = request[r].armed]_requestVars
  BY DEF AcksArmed
<1> QED
  BY <1>1, <1>2, RequestsInductive, PTL DEF RequestsSpec, AckCarriesItsBody

(* A request of a dialog is written once at most, and once more after a    *)
(* challenge: the safety half of RequestReturns.                           *)
THEOREM WritesAreBounded == RequestsSpec => [](\A r \in Requests : WrittenOnce(r))
<1>1. RequestsInv => \A r \in Requests : WrittenOnce(r)
  BY DEF RequestsInv, WritesOf
<1> QED
  BY <1>1, RequestsInductive, PTL

(* Type correctness of the requests.                                       *)
THEOREM RequestsTyping == RequestsSpec => []RequestTypeOK
<1>1. RequestsInv => RequestTypeOK
  BY DEF RequestsInv
<1> QED
  BY <1>1, RequestsInductive, PTL

-----------------------------------------------------------------------------
(***************************************************************************)
(* Publications.                                                           *)
(***************************************************************************)

Places == {"idle", "sent", "accepted", "refused", "done"}

(* What one call becomes, call by call.                                    *)
LEMMA CallBecomes ==
    ASSUME call \in [AllCalls -> [at : Places, tag : Nat]], NEW c \in AllCalls,
           NEW where \in Places, NEW tag \in Nat,
           call' = [call EXCEPT ![c] = [at |-> where, tag |-> tag]]
    PROVE  /\ call' \in [AllCalls -> [at : Places, tag : Nat]]
           /\ \A d \in AllCalls : call'[d] = IF d = c THEN [at |-> where, tag |-> tag] ELSE call[d]
OBVIOUS

(* What moves one call leaves its tag.                                     *)
LEMMA CallMoves ==
    ASSUME call \in [AllCalls -> [at : Places, tag : Nat]], NEW c \in AllCalls, NEW where \in Places,
           call' = [call EXCEPT ![c].at = where]
    PROVE  /\ call' \in [AllCalls -> [at : Places, tag : Nat]]
           /\ \A d \in AllCalls : /\ call'[d].tag = call[d].tag
                                  /\ call'[d].at = IF d = c THEN where ELSE call[d].at
OBVIOUS

(* A call reads the tag of the dialog: a first one finds nothing in        *)
(* flight, any other one carries a tag no accepted PUBLISH was given.      *)
LEMMA SendsTag ==
    ASSUME EventInv, NEW c \in AllCalls, SendsCall(c)
    PROVE  EventInv'
<1> USE DEF EventInv, EventTypeOK, TagsAreOld, FinalsOf
<1>1. /\ call' \in [AllCalls -> [at : Places, tag : Nat]]
      /\ \A d \in AllCalls : call'[d] = IF d = c THEN [at |-> "sent", tag |-> etag] ELSE call[d]
  BY CallBecomes DEF SendsCall, Carried, Places
<1>2. /\ UNCHANGED <<etag, open, held, given, ask>> /\ call[c].at = "idle"
      /\ astray' = (astray \/ (etag = 0 /\ \E d \in AllCalls : InFlight(d)))
  BY DEF SendsCall
<1>3. EventTypeOK' /\ (\A a \in Asks : FinalsOf(a))'
  BY <1>1, <1>2 DEF Places
<1>4. TagsAreOld'
  BY <1>1, <1>2
<1>5. ASSUME ~astray' PROVE (FirstIsAlone /\ OneIsAhead /\ NoneAhead)'
  <2>1. FirstIsAlone /\ OneIsAhead /\ NoneAhead
    BY <1>2, <1>5
  <2>2. etag = 0 => \A d \in AllCalls : call[d].at \notin {"sent", "accepted", "refused"}
    BY <1>2, <1>5 DEF InFlight
  <2>3. FirstIsAlone'
    BY <1>1, <1>2, <2>1, <2>2 DEF FirstIsAlone, InFlight
  <2>4. OneIsAhead'
    BY <1>1, <1>2, <2>1, <2>2 DEF OneIsAhead, Ahead
  <2>5. NoneAhead'
    BY <1>1, <1>2, <2>1 DEF NoneAhead, Ahead
  <2> QED
    BY <2>3, <2>4, <2>5
<1> QED
  BY <1>3, <1>4, <1>5

(* The server takes the tag of a request: the dialog's own, since no other *)
(* PUBLISH is ahead of it, or none of a first request.                     *)
LEMMA AcceptsTag ==
    ASSUME EventInv, NEW c \in AllCalls, ServerAccepts(c)
    PROVE  EventInv'
<1> USE DEF EventInv, EventTypeOK, TagsAreOld, FinalsOf
<1> DEFINE tag == IF c \in Closes THEN 0 ELSE given + 1
<1>1. /\ call[c].at = "sent" /\ (call[c].tag = 0 \/ call[c].tag \in held)
      /\ UNCHANGED <<etag, open, astray, ask>>
  BY DEF ServerAccepts, Knows
<1>2. call' = [call EXCEPT ![c] = [at |-> "accepted", tag |-> tag]]
  BY DEF ServerAccepts
<1>3. /\ call' \in [AllCalls -> [at : Places, tag : Nat]]
      /\ \A d \in AllCalls : call'[d] = IF d = c THEN [at |-> "accepted", tag |-> tag] ELSE call[d]
  BY <1>2, CallBecomes DEF Places
<1>4. /\ given' \in Nat /\ given <= given' /\ tag <= given'
      /\ held' = (held \ {call[c].tag}) \cup ({tag} \ {0})
      /\ c \notin Closes => tag = given' /\ given' = given + 1
  BY DEF ServerAccepts
<1>5. EventTypeOK' /\ (\A a \in Asks : FinalsOf(a))'
  <2>1. held' \subseteq 1 .. given'
    <3> SUFFICES ASSUME NEW x \in held' PROVE x \in 1 .. given'
      OBVIOUS
    <3>1. tag \in Nat
      OBVIOUS
    <3> HIDE DEF tag
    <3>2. x \in held \/ (x = tag /\ tag # 0)
      BY <1>4
    <3> QED
      BY <1>4, <3>1, <3>2
  <2> QED
    BY <1>1, <1>3, <1>4, <2>1 DEF Places
<1>6. TagsAreOld'
  BY <1>1, <1>3, <1>4
<1>7. ASSUME ~astray' PROVE (FirstIsAlone /\ OneIsAhead /\ NoneAhead)'
  <2>1. FirstIsAlone /\ OneIsAhead /\ NoneAhead
    BY <1>1, <1>7
  <2>2. \A d \in AllCalls : ~Ahead(d)
    <3> SUFFICES ASSUME NEW d \in AllCalls, Ahead(d) PROVE FALSE
      OBVIOUS
    <3> QED
      BY <1>1, <2>1 DEF OneIsAhead
  <2>3. held \subseteq {etag}
    BY <2>1, <2>2 DEF NoneAhead
  <2>4. call[c].tag = 0 => etag = 0 /\ \A d \in AllCalls \ {c} : ~InFlight(d)
    BY <1>1, <2>1 DEF FirstIsAlone
  <2>5. held' \subseteq {tag}
    BY <1>1, <1>4, <2>3, <2>4
  <2>6. \A d \in AllCalls \ {c} : call[d].at = "sent" => call[d].tag # 0
    BY <1>1, <2>1 DEF FirstIsAlone, InFlight
  <2>7. FirstIsAlone'
    BY <1>1, <1>3, <2>6 DEF FirstIsAlone, InFlight
  <2>8. OneIsAhead'
    <3> SUFFICES ASSUME NEW d \in AllCalls, Ahead(d)'
                 PROVE  /\ held' \subseteq {call'[d].tag} /\ etag' # call'[d].tag
                        /\ \A e \in AllCalls : /\ Ahead(e)' => e = d
                                               /\ call'[e].at = "sent" => call'[e].tag \notin {0, call'[d].tag}
      BY DEF OneIsAhead
    <3>1. d = c /\ c \in Publishes
      BY <1>3, <2>2 DEF Ahead
    <3>2. tag = given + 1 /\ call'[c].tag = tag
      BY <1>3, <3>1, EventAssumption
    <3>3. \A e \in AllCalls : Ahead(e)' => e = c
      BY <1>3, <2>2 DEF Ahead
    <3>4. etag # tag /\ \A e \in AllCalls : call[e].tag # tag
      BY <3>2
    <3>5. \A e \in AllCalls : call'[e].at = "sent" => e # c /\ call'[e] = call[e]
      BY <1>3
    <3> HIDE DEF tag
    <3> QED
      BY <1>1, <2>5, <2>6, <3>1, <3>2, <3>3, <3>4, <3>5
  <2>9. NoneAhead'
    <3> SUFFICES ASSUME \A d \in AllCalls : ~Ahead(d)' PROVE held' \subseteq {etag'}
      BY DEF NoneAhead
    <3>1. c \in Closes
      BY <1>3 DEF Ahead, AllCalls
    <3> QED
      BY <1>1, <1>4, <2>3, <3>1
  <2> QED
    BY <2>7, <2>8, <2>9
<1> QED
  BY <1>5, <1>6, <1>7

(* The dialog takes the tag of the PUBLISH that was ahead of it, the only  *)
(* one the server holds; any other answer leaves its own.                  *)
LEMMA ReturnsTag ==
    ASSUME EventInv, NEW c \in AllCalls, CallReturns(c)
    PROVE  EventInv'
<1> USE DEF EventInv, EventTypeOK, TagsAreOld, FinalsOf
<1>1. /\ call' \in [AllCalls -> [at : Places, tag : Nat]]
      /\ \A d \in AllCalls : /\ call'[d].tag = call[d].tag
                             /\ call'[d].at = IF d = c THEN "done" ELSE call[d].at
  BY CallMoves DEF CallReturns, Places
<1>2. /\ UNCHANGED <<held, given, astray, ask>> /\ open' \in BOOLEAN
      /\ call[c].at \in {"accepted", "refused"}
      /\ etag' = IF Ahead(c) THEN call[c].tag ELSE etag
  BY DEF CallReturns, Stored, Ahead
<1>3. EventTypeOK' /\ (\A a \in Asks : FinalsOf(a))'
  BY <1>1, <1>2 DEF Places
<1>4. TagsAreOld'
  BY <1>1, <1>2
<1>5. ASSUME ~astray' PROVE (FirstIsAlone /\ OneIsAhead /\ NoneAhead)'
  <2>1. FirstIsAlone /\ OneIsAhead /\ NoneAhead
    BY <1>2, <1>5
  <2>2. FirstIsAlone'
    BY <1>1, <1>2, <2>1 DEF FirstIsAlone, InFlight
  <2>3. CASE Ahead(c)
    <3>1. \A d \in AllCalls : ~Ahead(d)'
      BY <1>1, <2>1, <2>3 DEF OneIsAhead, Ahead
    <3>2. held' \subseteq {etag'}
      BY <1>2, <2>1, <2>3 DEF OneIsAhead
    <3> QED
      BY <2>2, <3>1, <3>2 DEF OneIsAhead, NoneAhead
  <2>4. CASE ~Ahead(c)
    <3>1. \A d \in AllCalls : Ahead(d)' <=> Ahead(d)
      BY <1>1, <2>4 DEF Ahead
    <3>2. OneIsAhead'
      BY <1>1, <1>2, <2>1, <2>4, <3>1 DEF OneIsAhead
    <3>3. NoneAhead'
      BY <1>2, <2>1, <2>4, <3>1 DEF NoneAhead
    <3> QED
      BY <2>2, <3>2, <3>3
  <2> QED
    BY <2>3, <2>4
<1> QED
  BY <1>3, <1>4, <1>5

(* Refused, timed out, not sent: no tag moves.                             *)
LEMMA EndsWithoutTag ==
    ASSUME EventInv, NEW c \in AllCalls, ServerRefuses(c) \/ TimesOut(c) \/ FailsToSend(c)
    PROVE  EventInv'
<1> USE DEF EventInv, EventTypeOK, TagsAreOld, FinalsOf
<1>1. PICK where \in {"refused", "done"} : /\ call' = [call EXCEPT ![c].at = where]
                                           /\ InFlight(c) \/ where = "done"
  BY DEF ServerRefuses, TimesOut, FailsToSend, InFlight
<1>2. /\ call' \in [AllCalls -> [at : Places, tag : Nat]]
      /\ \A d \in AllCalls : /\ call'[d].tag = call[d].tag
                             /\ call'[d].at = IF d = c THEN where ELSE call[d].at
  BY <1>1, CallMoves DEF Places
<1>3. /\ UNCHANGED <<etag, held, given, ask>> /\ open' \in BOOLEAN /\ astray' \in BOOLEAN
      /\ ~astray' => ~astray /\ ~Ahead(c)
  <2>1. CASE ServerRefuses(c)
    BY <2>1 DEF ServerRefuses, Ahead
  <2>2. CASE TimesOut(c)
    BY <2>2 DEF TimesOut
  <2>3. CASE FailsToSend(c)
    BY <2>3 DEF FailsToSend, Ahead
  <2> QED
    BY <2>1, <2>2, <2>3
<1>4. EventTypeOK' /\ (\A a \in Asks : FinalsOf(a))'
  BY <1>2, <1>3 DEF Places
<1>5. TagsAreOld'
  BY <1>2, <1>3
<1>6. ASSUME ~astray' PROVE (FirstIsAlone /\ OneIsAhead /\ NoneAhead)'
  <2>1. FirstIsAlone /\ OneIsAhead /\ NoneAhead
    BY <1>3, <1>6
  <2>2. \A d \in AllCalls : /\ Ahead(d)' <=> Ahead(d)
                            /\ InFlight(d)' => InFlight(d)
                            /\ call'[d].at = "sent" => call[d].at = "sent"
    BY <1>1, <1>2, <1>3, <1>6 DEF Ahead, InFlight
  <2>3. FirstIsAlone'
    BY <1>2, <1>3, <2>1, <2>2 DEF FirstIsAlone
  <2>4. OneIsAhead'
    BY <1>2, <1>3, <2>1, <2>2 DEF OneIsAhead
  <2>5. NoneAhead'
    BY <1>3, <2>1, <2>2 DEF NoneAhead
  <2> QED
    BY <2>3, <2>4, <2>5
<1> QED
  BY <1>4, <1>5, <1>6

(* A request of the peer has its own state.                                *)
LEMMA AskStepKeeps ==
    ASSUME EventInv, NEW a \in Asks,
           \/ Handed(a) \/ AppAnswers(a) \/ Written(a) \/ AppDrops(a)
           \/ Expires64T1(a) \/ Replies501(a)
    PROVE  EventInv'
<1> USE DEF EventInv, EventTypeOK, FinalsOf
<1>1. ASSUME NEW where \in {"idle", "handed", "writing", "expired", "answered"}, NEW finals \in 0 .. 2,
             where \in {"handed", "writing"} => finals = 0, where = "expired" => finals <= 1,
             Ask(a, where, finals), UNCHANGED <<etag, open, call, held, given, astray>>
      PROVE  EventInv'
  <2>1. /\ ask' \in [Asks -> [at : {"idle", "handed", "writing", "expired", "answered"}, finals : 0 .. 2]]
        /\ \A b \in Asks : ask'[b] = IF b = a THEN [at |-> where, finals |-> finals] ELSE ask[b]
    BY <1>1 DEF Ask
  <2>2. (\A b \in Asks : FinalsOf(b))'
    BY <1>1, <2>1
  <2>3. EventTypeOK'
    BY <1>1, <2>1
  <2>4. TagsAreOld' /\ (~astray => FirstIsAlone /\ OneIsAhead /\ NoneAhead)'
    BY <1>1 DEF TagsAreOld, FirstIsAlone, OneIsAhead, NoneAhead, Ahead, InFlight
  <2> QED
    BY <2>2, <2>3, <2>4
<1>2. ask[a] \in [at : {"idle", "handed", "writing", "expired", "answered"}, finals : 0 .. 2] /\ FinalsOf(a)
  OBVIOUS
<1>3. CASE Handed(a)
  BY <1>1, <1>3 DEF Handed
<1>4. CASE AppAnswers(a)
  BY <1>1, <1>4 DEF AppAnswers
<1>5. CASE Written(a)
  BY <1>1, <1>2, <1>5 DEF Written
<1>6. CASE AppDrops(a)
  BY <1>1, <1>2, <1>6 DEF AppDrops, HandleDropped
<1>7. CASE Expires64T1(a)
  BY <1>1, <1>2, <1>7 DEF Expires64T1
<1>8. CASE Replies501(a)
  BY <1>1, <1>2, <1>8 DEF Replies501
<1> QED
  BY <1>3, <1>4, <1>5, <1>6, <1>7, <1>8

(* The invariant of the publications holds in every state.                 *)
LEMMA EventInductive == EventSpec => []EventInv
<1>1. EventInit => EventInv
  <2> SUFFICES ASSUME EventInit PROVE EventInv
    OBVIOUS
  <2>1. EventTypeOK
    <3>1. call \in [AllCalls -> [at : Places, tag : Nat]]
      BY DEF EventInit, Places
    <3>2. ask \in [Asks -> [at : {"idle", "handed", "writing", "expired", "answered"}, finals : 0 .. 2]]
      BY DEF EventInit
    <3>3. etag \in Nat /\ given \in Nat /\ held \subseteq 1 .. given /\ open \in BOOLEAN /\ astray \in BOOLEAN
      BY DEF EventInit
    <3> QED
      BY <3>1, <3>2, <3>3 DEF EventTypeOK, Places
  <2>2. (\A a \in Asks : FinalsOf(a)) /\ TagsAreOld
    BY DEF EventInit, FinalsOf, TagsAreOld
  <2>3. FirstIsAlone /\ OneIsAhead /\ NoneAhead
    BY DEF EventInit, FirstIsAlone, OneIsAhead, NoneAhead, Ahead
  <2> QED
    BY <2>1, <2>2, <2>3 DEF EventInv
<1>2. EventInv /\ [EventNext]_eventVars => EventInv'
  <2> SUFFICES ASSUME EventInv, [EventNext]_eventVars PROVE EventInv'
    OBVIOUS
  <2>1. CASE EventNext
    BY <2>1, SendsTag, AcceptsTag, ReturnsTag, EndsWithoutTag, AskStepKeeps DEF EventNext
  <2>2. CASE UNCHANGED eventVars
    BY <2>2 DEF eventVars, EventInv, EventTypeOK, FinalsOf, TagsAreOld, FirstIsAlone, OneIsAhead,
                NoneAhead, Ahead, InFlight
  <2> QED
    BY <2>1, <2>2
<1> QED
  BY <1>1, <1>2, PTL DEF EventSpec

(* No overlap of publish and close leaves the server with a publication    *)
(* the dialog has no tag of, for any number of calls.                      *)
THEOREM NoOrphan == EventSpec => []NoOrphanedPublication
<1>1. EventInv => NoOrphanedPublication
  BY DEF EventInv, NoOrphanedPublication, NoneAhead, Ahead, InFlight
<1> QED
  BY <1>1, EventInductive, PTL

(* Type correctness of publications: a request of the peer gets two final  *)
(* responses at most, one of them a 501.                                   *)
THEOREM EventTyping == EventSpec => []EventTypeOK
<1>1. EventInv => EventTypeOK
  BY DEF EventInv
<1> QED
  BY <1>1, EventInductive, PTL
=============================================================================
