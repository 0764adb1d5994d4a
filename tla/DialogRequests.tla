--------------------------- MODULE DialogRequests ---------------------------
(***************************************************************************)
(* Requests inside a confirmed dialog (dialog.rs, invite_dialog.rs): which *)
(* connection one is sent on, the dial-back ladder when there is none, the *)
(* retry with a credential, the body of the ACK to a re-INVITE, and what a *)
(* BYE does to the dialog.                                                 *)
(*                                                                         *)
(* The requests of several tasks run at once.  The transaction below is    *)
(* the one ClientTransaction models: once it has entered Calling it hands  *)
(* up responses and ends, by its timers if by nothing else; a transaction  *)
(* that never entered Calling hands up nothing.                            *)
(***************************************************************************)
EXTENDS Naturals

CONSTANTS Requests, \* requests of the application, one task each
          Invites,  \* those that are re-INVITEs
          Byes      \* those that are BYEs

ASSUME RequestsAssumption ==
    Invites \subseteq Requests /\ Byes \subseteq Requests \ Invites

VARIABLES
    dialog,     \* role, route set, credential, how targets resolve (never change)
    flow,       \* DialogInner.server_connection: kind and whether it is alive
    dialogState,
    request     \* what each task is doing

requestVars == <<dialog, flow, dialogState, request>>

Idle == [at |-> "idle", conn |-> "none", unresolved |-> FALSE, started |-> FALSE,
         authSent |-> FALSE, armed |-> "none", body |-> "none", acked |-> "unsent", writes |-> 0,
         gaveUp |-> FALSE]

RequestTypeOK ==
    /\ dialog \in [role : {"client", "server"}, routed : BOOLEAN, credential : BOOLEAN,
                   locator : BOOLEAN, restored : BOOLEAN, dialback : BOOLEAN,
                   via : BOOLEAN, origin : BOOLEAN]
    /\ flow \in {"none", "datagram", "live", "cut"}
    /\ dialogState \in {"early", "confirmed", "terminated"}
    /\ request \in [Requests ->
          [at : {"idle", "sending", "dialback", "waiting", "resending", "done"},
           conn : {"none", "flow", "found"}, unresolved : BOOLEAN, started : BOOLEAN,
           authSent : BOOLEAN, armed : Requests \cup {"none"}, body : Requests \cup {"none"},
           acked : Requests \cup {"none", "unsent"}, writes : Nat, gaveUp : BOOLEAN]]

(***************************************************************************)
(* A new dialog has recorded the connection of its INVITE, the peer's      *)
(* address if that is a stream, and its INVITE, whose Via names the source *)
(* of a request that came with rport (origin).  One restored from a        *)
(* snapshot has neither connection nor address, and its INVITE is rebuilt  *)
(* without a Via.                                                          *)
(***************************************************************************)
RestoredVia(origin) == FALSE

RequestsInit ==
    /\ \E role \in {"client", "server"}, routed, credential, locator, restored, origin \in BOOLEAN :
          /\ role = "client" => ~origin
          /\ flow \in IF restored THEN {"none"} ELSE {"datagram", "live"}
          /\ dialog = [role |-> role, routed |-> routed, credential |-> credential,
                       locator |-> locator, restored |-> restored,
                       dialback |-> flow = "live", origin |-> origin,
                       via |-> IF restored THEN RestoredVia(origin) ELSE origin]
    /\ dialogState = "confirmed"
    /\ request = [r \in Requests |-> Idle]

-----------------------------------------------------------------------------
(* resolve_affinity_connection: no route set, a stream, and alive.         *)
AffinityConnection ==
    IF ~dialog.routed /\ flow = "live" THEN "flow" ELSE "none"

(* The ladder: the address captured with the connection, else the source   *)
(* the Via of the initial INVITE names.                                    *)
FallbackTarget == dialog.dialback \/ dialog.via

At(r, where) == request[r].at = where

(* What a task becomes: an action names the fields it changes.             *)
Update(r, new) == request' = [request EXCEPT ![r] = new]

(* send_bye: the dialog of a UAC ends when its BYE's transaction does,     *)
(* whatever that returned.                                                 *)
\* Faulty variant: an error is returned before the state is moved.
EndsUnlessFailed(r, failed) == IF r \in Byes /\ ~failed THEN "terminated" ELSE dialogState
EndsDialog(r, failed) == IF r \in Byes THEN "terminated" ELSE dialogState

Returns(r, new, failed) ==
    /\ Update(r, [new EXCEPT !.at = "done"])
    /\ dialogState' = EndsDialog(r, failed)
    /\ UNCHANGED <<dialog, flow>>

Continues(r, new) ==
    /\ Update(r, new)
    /\ UNCHANGED <<dialog, flow, dialogState>>

-----------------------------------------------------------------------------
(***************************************************************************)
(* A request is made and given to a transaction without an await between:  *)
(* on the flow if there is one, with the body armed for this INVITE.  A    *)
(* UAS reports its dialog as terminated before its BYE.                    *)
(***************************************************************************)
Calls(r) ==
    /\ At(r, "idle") /\ dialogState = "confirmed"
    /\ \E body \in IF r \in Invites THEN {r, "none"} ELSE {"none"} :
          Update(r, [request[r] EXCEPT !.at = "sending", !.conn = AffinityConnection,
                                       !.armed = body, !.body = body])
    /\ dialogState' = IF dialog.role = "server" THEN EndsDialog(r, FALSE) ELSE dialogState
    /\ UNCHANGED <<dialog, flow>>

CallsInVain(r) ==
    /\ At(r, "idle") /\ dialogState # "confirmed"
    /\ Continues(r, [request[r] EXCEPT !.at = "done"])

(* Transaction::send enters Calling whatever happens to the write, unless  *)
(* the locator finds no target.  A write that fails on a stream gives the  *)
(* transaction a local 503 and retires the connection.                     *)
Started(r) == [request[r] EXCEPT !.started = TRUE]

AfterSend(conn) == IF conn = "none" THEN "dialback" ELSE "waiting"

SendsOn(r, conn) ==
    [Started(r) EXCEPT !.at = IF At(r, "sending") THEN AfterSend(conn) ELSE "waiting",
                       !.conn = conn, !.writes = @ + 1]

WritesOnFlow(r) ==
    /\ request[r].at \in {"sending", "resending"} /\ request[r].conn = "flow"
    /\ Update(r, SendsOn(r, "flow"))
    /\ flow' \in {flow, "cut"}
    /\ UNCHANGED <<dialog, dialogState>>

Finds(r) ==
    /\ request[r].at \in {"sending", "resending"} /\ request[r].conn # "flow"
    /\ Continues(r, SendsOn(r, "found"))

FindsNoTarget(r) ==
    /\ At(r, "sending") /\ request[r].conn = "none" /\ dialog.locator
    /\ IF dialog.role = "server"
       THEN Continues(r, [request[r] EXCEPT !.at = "dialback", !.unresolved = TRUE])
       ELSE Returns(r, request[r], TRUE)

FindsNoConnection(r) ==
    /\ At(r, "sending") /\ request[r].conn = "none"
    /\ Continues(r, [Started(r) EXCEPT !.at = "dialback"])

(***************************************************************************)
(* The dial-back: the request is sent again to the recorded address.  With *)
(* none, a request whose transaction never started ends with its error,    *)
(* any other waits for the transaction's own retries.                      *)
(***************************************************************************)
DialsBack(r) ==
    /\ At(r, "dialback") /\ FallbackTarget
    /\ \/ Continues(r, SendsOn(r, "found"))
       \/ Continues(r, [Started(r) EXCEPT !.at = "waiting"])

\* Faulty variant: the error of the first send is forgotten.
GivesUpNever(r) == FALSE
GivesUp(r) == request[r].unresolved

HasNoTarget(r) ==
    /\ At(r, "dialback") /\ ~FallbackTarget
    /\ LET tried == [request[r] EXCEPT !.gaveUp = TRUE]
       IN  IF GivesUp(r) THEN Returns(r, tried, TRUE)
           ELSE Continues(r, [tried EXCEPT !.at = "waiting"])

-----------------------------------------------------------------------------
(* The responses.  A provisional one moves a dialog that can be cancelled  *)
(* to Early; an established one stays; a reliable one to a re-INVITE gets  *)
(* its PRACK first, whose failure ends the request.                        *)
CanCancel == dialogState = "early"
Hears(r) == At(r, "waiting") /\ request[r].started

Provisional1xx(r) ==
    /\ Hears(r)
    /\ dialogState' = IF CanCancel THEN "early" ELSE dialogState
    /\ UNCHANGED <<dialog, flow, request>>

PrackFails(r) ==
    /\ Hears(r) /\ r \in Invites
    /\ Returns(r, request[r], TRUE)

(* A challenge: answered once, with the ACK's body moved to the new        *)
(* transaction; without a credential, or the second time, it terminates    *)
(* the dialog.                                                             *)
\* Faulty variant: the body stays with the old transaction.
BodyLost(r) == "none"
BodyMoved(r) == request[r].body

IsChallenged(r) ==
    /\ Hears(r) /\ dialog.credential /\ ~request[r].authSent
    /\ \/ Continues(r, [request[r] EXCEPT !.at = "resending", !.authSent = TRUE,
                                          !.body = BodyMoved(r), !.started = FALSE])
       \/ Returns(r, [request[r] EXCEPT !.authSent = TRUE], TRUE)

ChallengedForGood(r) ==
    /\ Hears(r) /\ (~dialog.credential \/ request[r].authSent)
    /\ Update(r, [request[r] EXCEPT !.at = "done", !.authSent = TRUE])
    /\ dialogState' = "terminated"
    /\ UNCHANGED <<dialog, flow>>

ResendFindsNone(r) ==
    /\ At(r, "resending") /\ request[r].conn = "none"
    /\ \/ dialog.locator /\ Returns(r, request[r], TRUE)
       \/ Continues(r, [Started(r) EXCEPT !.at = "waiting"])

(* The final response, whose ACK a 2xx to a re-INVITE has got with the     *)
(* body of its transaction; or the transaction ends without one.           *)
Succeeds(r) ==
    /\ Hears(r)
    /\ Returns(r, IF r \in Invites THEN [request[r] EXCEPT !.acked = request[r].body, !.body = "none"]
                  ELSE request[r], FALSE)

Fails(r) == Hears(r) /\ Returns(r, request[r], FALSE)

-----------------------------------------------------------------------------
(* Meanwhile the peer ends the dialog, or the stream to it breaks.         *)
PeerEnds ==
    /\ dialogState = "confirmed" /\ dialogState' = "terminated"
    /\ UNCHANGED <<dialog, flow, request>>

FlowBreaks ==
    /\ flow = "live" /\ flow' = "cut"
    /\ UNCHANGED <<dialog, dialogState, request>>

Sends(r) ==
    \/ WritesOnFlow(r) \/ Finds(r) \/ FindsNoTarget(r) \/ FindsNoConnection(r)
    \/ DialsBack(r) \/ HasNoTarget(r) \/ ResendFindsNone(r)

IsAnswered(r) ==
    \/ PrackFails(r) \/ IsChallenged(r) \/ ChallengedForGood(r) \/ Succeeds(r) \/ Fails(r)

RequestsNext ==
    \/ \E r \in Requests : Calls(r) \/ CallsInVain(r) \/ Sends(r) \/ Provisional1xx(r) \/ IsAnswered(r)
    \/ PeerEnds \/ FlowBreaks

RequestsFairness ==
    \A r \in Requests : WF_requestVars(Sends(r)) /\ WF_requestVars(IsAnswered(r))

RequestsSpec == RequestsInit /\ [][RequestsNext]_requestVars /\ RequestsFairness

-----------------------------------------------------------------------------
(***************************************************************************)
(* Every request a task has made returns to it, also when its target never *)
(* resolved and no transaction was started.  It was written once at most,  *)
(* and once more after a challenge: the dial-back sends only what the      *)
(* first attempt did not.                                                  *)
(***************************************************************************)
WrittenOnce(r) == request[r].writes <= IF request[r].authSent THEN 2 ELSE 1

RequestReturns ==
    \A r \in Requests : ~At(r, "idle") ~> At(r, "done") /\ WrittenOnce(r)

(* A BYE that was called ends the dialog, whatever its sending, a          *)
(* challenge, a provisional response to another request or an error does.  *)
ByeEndsDialog == \A r \in Byes : ~At(r, "idle") ~> dialogState = "terminated"

(* The ACK of a re-INVITE carries the body armed for that re-INVITE, also  *)
(* when a challenge made it go out again in a second transaction.          *)
AckCarriesItsBody ==
    [][\A r \in Invites : request'[r].acked # request[r].acked =>
          request'[r].acked = request[r].armed]_requestVars

(* "initial request's Via header (`received` + `rport`), covering          *)
(* snapshot-restored dialogs with no stored connection." (dialog.rs:1227): *)
(* a request of a UAS dialog is not given up while the INVITE named its    *)
(* source.                                                                 *)
RestoredDialsBack ==
    \A r \in Requests : dialog.role = "server" /\ dialog.origin => ~request[r].gaveUp
=============================================================================
