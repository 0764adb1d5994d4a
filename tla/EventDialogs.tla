---------------------------- MODULE EventDialogs ----------------------------
(***************************************************************************)
(* Publications and subscriptions (publication.rs, subscription.rs): the   *)
(* entity tag a publication carries from one PUBLISH to the next, how one  *)
(* is closed, and a request of the peer that is handed to the application  *)
(* with a handle to answer it (dialog.rs, process_transaction_handle).     *)
(*                                                                         *)
(* The event server is external: it gives every accepted PUBLISH a new tag *)
(* and refuses one whose tag it does not hold (RFC 3903).                  *)
(***************************************************************************)
EXTENDS Naturals

CONSTANTS Publishes,  \* calls of publish
          Closes,     \* calls of close or unsubscribe
          Asks,       \* requests of the peer
          Unsent      \* calls whose request fails before its transaction starts

ASSUME EventAssumption == Publishes \cap Closes = {}

VARIABLES
    etag,     \* ClientPublicationDialog.etag, 0 for none
    open,     \* the dialog is not Terminated
    call,     \* per call: where it is and the tag it carries
    held,     \* external: the tags the server holds
    given,    \* external: the last tag given
    astray,   \* history: a response was lost, or two first PUBLISHes overlapped
    ask       \* per request of the peer: its handle and what was answered

eventVars == <<etag, open, call, held, given, astray, ask>>

AllCalls == Publishes \cup Closes
MaxTag == 4

EventTypeOK ==
    /\ etag \in Nat /\ given \in Nat /\ held \subseteq 1 .. given
    /\ open \in BOOLEAN /\ astray \in BOOLEAN
    /\ call \in [AllCalls -> [at : {"idle", "sent", "accepted", "refused", "done"}, tag : Nat]]
    /\ ask \in [Asks -> [at : {"idle", "handed", "writing", "expired", "answered"},
                         finals : 0 .. 2]]

EventInit ==
    /\ etag = 0 /\ open = TRUE /\ held = {} /\ given = 0 /\ astray = FALSE
    /\ call = [c \in AllCalls |-> [at |-> "idle", tag |-> 0]]
    /\ ask = [a \in Asks |-> [at |-> "idle", finals |-> 0]]

-----------------------------------------------------------------------------
(***************************************************************************)
(* publish and close read the tag, send the request and await its answer;  *)
(* another call may run meanwhile.                                         *)
(***************************************************************************)
InFlight(c) == call[c].at \in {"sent", "accepted", "refused"}

Carried(c) == etag

SendsCall(c) ==
    /\ call[c].at = "idle"
    /\ call' = [call EXCEPT ![c] = [at |-> "sent", tag |-> Carried(c)]]
    /\ astray' = (astray \/ (etag = 0 /\ \E d \in AllCalls : InFlight(d)))
    /\ UNCHANGED <<etag, open, held, given, ask>>

(* The event server.                                                       *)
Knows(c) == call[c].tag = 0 \/ call[c].tag \in held

ServerAccepts(c) ==
    /\ call[c].at = "sent" /\ Knows(c) /\ given < MaxTag
    /\ IF c \in Closes
       THEN /\ held' = held \ {call[c].tag}
            /\ call' = [call EXCEPT ![c].at = "accepted", ![c].tag = 0]
            /\ UNCHANGED given
       ELSE /\ given' = given + 1
            /\ held' = (held \ {call[c].tag}) \cup {given + 1}
            /\ call' = [call EXCEPT ![c].at = "accepted", ![c].tag = given + 1]
    /\ UNCHANGED <<etag, open, astray, ask>>

ServerRefuses(c) ==
    /\ call[c].at = "sent" /\ ~Knows(c)
    /\ call' = [call EXCEPT ![c].at = "refused"]
    /\ UNCHANGED <<etag, open, held, given, astray, ask>>

(* The answer arrives; a call that waits without one gets a 408 of its     *)
(* transaction.  Only a 2xx with a tag replaces the tag; a close ends the  *)
(* dialog whatever the answer.                                             *)
\* Faulty variant: a PUBLISH that was not accepted clears the tag.
StoredAlways(c) == IF call[c].at = "accepted" THEN call[c].tag ELSE 0
Stored(c) == IF call[c].at = "accepted" /\ c \in Publishes THEN call[c].tag ELSE etag

CallReturns(c) ==
    /\ call[c].at \in {"accepted", "refused"}
    /\ call' = [call EXCEPT ![c].at = "done"]
    /\ etag' = Stored(c)
    /\ open' = (open /\ c \notin Closes)
    /\ UNCHANGED <<held, given, astray, ask>>

TimesOut(c) ==
    /\ InFlight(c)
    /\ call' = [call EXCEPT ![c].at = "done"]
    /\ astray' = TRUE
    /\ open' = (open /\ c \notin Closes)
    /\ UNCHANGED <<etag, held, given, ask>>

(* The request cannot be sent: close returns the error and leaves the      *)
(* dialog as it is.                                                        *)
FailsToSend(c) ==
    /\ call[c].at = "idle" /\ c \in Unsent
    /\ call' = [call EXCEPT ![c].at = "done"]
    /\ UNCHANGED <<etag, open, held, given, astray, ask>>

-----------------------------------------------------------------------------
(***************************************************************************)
(* A request of the peer: its state is notified with a handle, and the     *)
(* task waits on the handle for at most 64*T1.  In a dialog that is over   *)
(* the notification is dropped, and the handle with it.                    *)
(***************************************************************************)
Ask(a, at, finals) == ask' = [ask EXCEPT ![a] = [at |-> at, finals |-> finals]]

Handed(a) ==
    /\ ask[a].at = "idle"
    /\ Ask(a, IF open THEN "handed" ELSE "expired", 0)
    /\ UNCHANGED <<etag, open, call, held, given, astray>>

(* The application answers with the final response, whose write may take   *)
(* long; or drops the handle; or does neither.                             *)
AppAnswers(a) ==
    /\ ask[a].at = "handed"
    /\ Ask(a, "writing", 0)
    /\ UNCHANGED <<etag, open, call, held, given, astray>>

Written(a) ==
    /\ ask[a].at = "writing"
    /\ \/ Ask(a, "answered", ask[a].finals + 1)
       \/ Ask(a, "expired", ask[a].finals)
    /\ UNCHANGED <<etag, open, call, held, given, astray>>

\* Faulty variant: a dropped handle ends the wait without a response.
HandleDroppedQuietly(a) == Ask(a, "answered", 0)
HandleDropped(a) == Ask(a, "expired", ask[a].finals)

AppDrops(a) ==
    /\ ask[a].at = "handed"
    /\ HandleDropped(a)
    /\ UNCHANGED <<etag, open, call, held, given, astray>>

(* The timeout cuts a write that has not returned: the response may be on  *)
(* the wire by then.                                                       *)
Expires64T1(a) ==
    /\ ask[a].at \in {"handed", "writing"}
    /\ \/ Ask(a, "expired", ask[a].finals)
       \/ ask[a].at = "writing" /\ Ask(a, "expired", ask[a].finals + 1)
    /\ UNCHANGED <<etag, open, call, held, given, astray>>

Replies501(a) ==
    /\ ask[a].at = "expired"
    /\ Ask(a, "answered", ask[a].finals + 1)
    /\ UNCHANGED <<etag, open, call, held, given, astray>>

-----------------------------------------------------------------------------
EventNext ==
    \/ \E c \in AllCalls : SendsCall(c) \/ ServerAccepts(c) \/ ServerRefuses(c) \/ CallReturns(c)
                         \/ TimesOut(c) \/ FailsToSend(c)
    \/ \E a \in Asks : Handed(a) \/ AppAnswers(a) \/ Written(a) \/ AppDrops(a)
                       \/ Expires64T1(a) \/ Replies501(a)

AskProgress(a) == Expires64T1(a) \/ Replies501(a)

EventSpec ==
    EventInit /\ [][EventNext]_eventVars /\ \A a \in Asks : WF_eventVars(AskProgress(a))

(***************************************************************************)
(* When no call is in flight the server holds no publication but the one   *)
(* whose tag the dialog has, although calls overlap and one that carries   *)
(* an old tag is refused: unless an answer was lost, or two overlapping    *)
(* calls had no tag yet.                                                   *)
(***************************************************************************)
NoOrphanedPublication ==
    ~astray /\ (\A c \in AllCalls : ~InFlight(c)) => held \subseteq {etag}

(* A request handed to the application is answered by it or by a 501,      *)
(* though it drops the handle, forgets it or answers a dialog that ended.  *)
HandedIsAnswered ==
    \A a \in Asks : ask[a].at # "idle" ~> ask[a].at = "answered" /\ ask[a].finals > 0
=============================================================================
