--------------------------- MODULE DialogSequence ---------------------------
(***************************************************************************)
(* The numbers of a dialog (dialog.rs, invite_dialog.rs): the CSeq of the  *)
(* requests it sends, the highest CSeq it took from the peer, the RSeq of  *)
(* reliable provisional responses and the PRACKs they get, and what a      *)
(* snapshot carries across a restart.                                      *)
(*                                                                         *)
(* Tasks of the application send requests, tasks of the endpoint handle    *)
(* those of the peer, and one task takes the responses of the INVITE.      *)
(* With several threads a task may be suspended between any two atomic     *)
(* operations; on a cooperative executor only at an await, and none of the *)
(* sections below holds one.                                               *)
(***************************************************************************)
EXTENDS Naturals

CONSTANTS Senders,   \* tasks that send one request each
          Asked,     \* CSeq numbers of the peer's requests
          Forks,     \* branches of the callee that send reliable provisionals
          MaxRseq,   \* bound on the RSeq numbers of a branch
          Parallel   \* the executor has several threads

ASSUME SequenceAssumption == Asked \subseteq Nat /\ MaxRseq \in Nat

VARIABLES
    localSeq,   \* DialogInner.local_seq
    remoteSeq,  \* DialogInner.remote_seq
    sender,     \* where each sender is
    loaded,     \* the remote_seq each handler has read, None outside
    asked,      \* where the handler of each request of the peer is
    reliable,   \* DialogInner.remote_reliable: fork and RSeq, or none
    taking,     \* the provisional response being answered, or none
    used,       \* history: the CSeq numbers of requests built
    twice,      \* history: a number was built twice
    newest,     \* history: the highest number accepted from the peer
    backwards,  \* history: a lower number was accepted after a higher one
    offered,    \* history: RSeq of the reliable provisional each fork sent last
    pracked,    \* history: the provisionals a PRACK was sent for
    ignored,    \* history: a provisional was dealt with without its PRACK
    restored    \* history: the dialog was restored in another process

numbers == <<localSeq, remoteSeq, reliable>>
builds  == <<used, twice>>
accepts == <<newest, backwards>>
pracks  == <<offered, pracked, ignored>>
sequenceVars == <<numbers, sender, loaded, asked, taking, builds, accepts, pracks, restored>>

Nobody == "none"
Provisional == [fork : Forks, rseq : 1 .. MaxRseq]
None == [fork |-> Nobody, rseq |-> 0]

(* Phases between atomic operations of one section without an await.       *)
SenderCut == {"added"}
AskedCut  == {"loaded"}
TakingCut == {"tested", "added"}

SequenceTypeOK ==
    /\ localSeq \in Nat /\ remoteSeq \in Nat /\ newest \in Nat
    /\ sender \in [Senders -> {"idle", "added", "built"}]
    /\ loaded \in [Asked -> Nat]
    /\ asked \in [Asked -> {"idle", "loaded", "handled"}]
    /\ reliable \in Provisional \cup {None}
    /\ taking \in [provisional : Provisional \cup {None}, at : {"none", "tested", "added", "sent"}]
    /\ used \subseteq Nat /\ twice \in BOOLEAN /\ backwards \in BOOLEAN
    /\ offered \in [Forks -> 0 .. MaxRseq]
    /\ pracked \subseteq Provisional /\ ignored \in BOOLEAN
    /\ restored \in BOOLEAN

(* DialogInner::new: the number of the INVITE, and nothing of the peer.    *)
SequenceInit ==
    /\ localSeq = 1 /\ remoteSeq = 0 /\ reliable = None
    /\ sender = [s \in Senders |-> "idle"]
    /\ loaded = [a \in Asked |-> 0] /\ asked = [a \in Asked |-> "idle"]
    /\ taking = [provisional |-> None, at |-> "none"]
    /\ used = {1} /\ twice = FALSE
    /\ newest = 0 /\ backwards = FALSE
    /\ offered = [f \in Forks |-> 0] /\ pracked = {} /\ ignored = FALSE
    /\ restored = FALSE

(* Whether a task may run besides those in the middle of a section.        *)
Uncut(S, A, t) ==
    \/ Parallel
    \/ /\ \A s \in S : sender[s] \notin SenderCut
       /\ \A a \in A : asked[a] \notin AskedCut
       /\ t => taking.at \notin TakingCut

-----------------------------------------------------------------------------
(***************************************************************************)
(* increment_local_seq: an addition and a separate load; the request is    *)
(* built with what was loaded.                                             *)
(***************************************************************************)
Builds(n) ==
    /\ twice' = (twice \/ n \in used)
    /\ used' = used \cup {n}

SenderAdds(s) ==
    /\ Uncut(Senders, Asked, TRUE)
    /\ sender[s] = "idle"
    /\ sender' = [sender EXCEPT ![s] = "added"]
    /\ localSeq' = localSeq + 1
    /\ UNCHANGED <<remoteSeq, reliable, loaded, asked, taking,
                   builds, accepts, pracks, restored>>

(* The request is given to its transaction.  A challenge makes the sender  *)
(* build it again with a new number.                                       *)
SenderLoads(s) ==
    /\ Uncut(Senders \ {s}, Asked, TRUE)
    /\ sender[s] = "added"
    /\ sender' = [sender EXCEPT ![s] = "built"]
    /\ Builds(localSeq)
    /\ UNCHANGED <<numbers, loaded, asked, taking, accepts, pracks, restored>>

-----------------------------------------------------------------------------
(***************************************************************************)
(* handle: remote_seq is loaded and tested, then moved by one              *)
(* compare_exchange whose failure is ignored.                              *)
(***************************************************************************)
AskStep(a, from, to) ==
    /\ Uncut(Senders, Asked \ {a}, TRUE)
    /\ asked[a] = from
    /\ asked' = [asked EXCEPT ![a] = to]
    /\ UNCHANGED <<localSeq, reliable, sender, taking, builds,
                   pracks, restored>>

Refused(a) == remoteSeq > 0 /\ a < remoteSeq

AskIsOld(a) ==
    /\ AskStep(a, "idle", "handled")
    /\ Refused(a)
    /\ UNCHANGED <<remoteSeq, loaded, accepts>>

AskLoads(a) ==
    /\ AskStep(a, "idle", "loaded")
    /\ ~Refused(a)
    /\ loaded' = [loaded EXCEPT ![a] = remoteSeq]
    /\ UNCHANGED <<remoteSeq, accepts>>

\* Faulty variant: the number is only moved by the first request.
MovedOnce(a) == IF remoteSeq = 0 THEN a ELSE remoteSeq
Moved(a) == IF remoteSeq = loaded[a] THEN a ELSE remoteSeq

AskMoves(a) ==
    /\ AskStep(a, "loaded", "handled")
    /\ remoteSeq' = Moved(a)
    /\ loaded' = [loaded EXCEPT ![a] = 0]
    /\ newest' = IF a > newest THEN a ELSE newest
    /\ backwards' = (backwards \/ a < newest)

-----------------------------------------------------------------------------
(***************************************************************************)
(* The reliable provisionals.  A fork numbers its own and sends the next   *)
(* one when the last was acknowledged (RFC 3262); copies of the last one   *)
(* arrive until then, and late.                                            *)
(***************************************************************************)
Acknowledged(f) ==
    offered[f] = 0 \/ [fork |-> f, rseq |-> offered[f]] \in pracked

ForkOffers(f) ==
    /\ Uncut(Senders, Asked, TRUE)
    /\ Acknowledged(f)
    /\ \E n \in 1 .. MaxRseq :
          /\ n > offered[f] /\ (offered[f] # 0 => n = offered[f] + 1)
          /\ offered' = [offered EXCEPT ![f] = n]
    /\ UNCHANGED <<numbers, sender, loaded, asked, taking, builds,
                   accepts, pracked, ignored, restored>>

TakingStep(from, to) ==
    /\ Uncut(Senders, Asked, FALSE)
    /\ taking.at = from
    /\ taking' = [taking EXCEPT !.at = to]
    /\ UNCHANGED <<remoteSeq, sender, loaded, asked, accepts, offered, restored>>

(* prepare_prack_request: the same RSeq gets the stored PRACK again, a     *)
(* lower one none.                                                         *)
Provisionals == {p \in Provisional : offered[p.fork] > 0 /\ (p.rseq = offered[p.fork] \/ p \in pracked)}

\* Faulty variant: off by one.
KnownNext(p) == reliable # None /\ p.rseq <= reliable.rseq + 1
Known(p) == p.rseq <= reliable.rseq

TakesKnown(p) ==
    /\ Known(p)
    /\ TakingStep("none", "none")
    /\ ignored' = (ignored \/ (reliable # p /\ p \notin pracked))
    /\ UNCHANGED <<localSeq, reliable, builds, pracked>>

TakesNew(p) ==
    /\ ~Known(p)
    /\ Uncut(Senders, Asked, FALSE)
    /\ taking.at = "none"
    /\ taking' = [provisional |-> p, at |-> "tested"]
    /\ UNCHANGED <<numbers, sender, loaded, asked, builds, accepts,
                   pracks, restored>>

\* Faulty variant: the PRACK takes the number of the last request.
LastNumber == localSeq
PrackNumber == localSeq + 1

PrackAdds ==
    /\ TakingStep("tested", "added")
    /\ localSeq' = PrackNumber
    /\ UNCHANGED <<reliable, builds, pracked, ignored>>

(* Built, stored and sent; its response is awaited before the next one is  *)
(* taken.                                                                  *)
PrackSends ==
    /\ TakingStep("added", "sent")
    /\ Builds(localSeq)
    /\ reliable' = taking.provisional
    /\ pracked' = pracked \cup {taking.provisional}
    /\ UNCHANGED <<localSeq, ignored>>

PrackReturns ==
    /\ TakingStep("sent", "none")
    /\ UNCHANGED <<localSeq, reliable, builds, pracked, ignored>>

-----------------------------------------------------------------------------
(***************************************************************************)
(* snapshot, and try_restore_from_snapshot in another process.  The tasks  *)
(* of the first one are gone; the peer sends again what was not handled.   *)
(* An older snapshot gives numbers out again: that it is current is the    *)
(* application's part.                                                     *)
(***************************************************************************)
Restored == [local |-> localSeq, remote |-> remoteSeq]

Restores ==
    /\ Uncut(Senders, Asked, TRUE)
    /\ ~restored /\ restored' = TRUE
    /\ localSeq' = Restored.local /\ remoteSeq' = Restored.remote /\ reliable' = None
    /\ sender' = [s \in Senders |-> IF sender[s] = "built" THEN "built" ELSE "idle"]
    /\ asked' = [a \in Asked |-> IF asked[a] = "loaded" THEN "idle" ELSE asked[a]]
    /\ loaded' = [a \in Asked |-> 0]
    /\ taking' = [provisional |-> None, at |-> "none"]
    /\ UNCHANGED <<builds, accepts, pracks>>

-----------------------------------------------------------------------------
SequenceNext ==
    \/ \E s \in Senders : SenderAdds(s) \/ SenderLoads(s)
    \/ \E a \in Asked : AskIsOld(a) \/ AskLoads(a) \/ AskMoves(a)
    \/ \E f \in Forks : ForkOffers(f)
    \/ \E p \in Provisionals : TakesKnown(p) \/ TakesNew(p)
    \/ PrackAdds \/ PrackSends \/ PrackReturns
    \/ Restores

SequenceSpec == SequenceInit /\ [][SequenceNext]_sequenceVars

(***************************************************************************)
(* On a cooperative executor, across a restore: no CSeq number is given to *)
(* two requests, although requests, retries and PRACKs of several tasks    *)
(* draw on one counter, and no request of the peer is accepted after a     *)
(* newer one.                                                              *)
(***************************************************************************)
CooperativeNumbers == ~Parallel => ~twice
CooperativeOrder   == ~Parallel => ~backwards

(* Every reliable provisional gets its PRACK, copies and late ones         *)
(* included, as long as one fork numbers them: a second fork starts its    *)
(* own sequence, which prepare_prack_request compares with the number of   *)
(* the first.                                                              *)
SingleFork == \E f \in Forks : \A g \in Forks \ {f} : offered[g] = 0

SingleForkIsPracked == SingleFork => ~ignored
=============================================================================
