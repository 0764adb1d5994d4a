-------------------------- MODULE MCDialogServices --------------------------
(***************************************************************************)
(* Model-checking instance of the services around a dialog, which share no *)
(* state: each initial state picks the part that runs, the others stay in  *)
(* one initial state of theirs.                                            *)
(***************************************************************************)
EXTENDS DialogSequence, DialogRequests, DialogRegistry, Registration, EventDialogs, WrapperCall

(* A re-INVITE of each side and a MESSAGE of the callee; BYEs come besides.*)
MCMidcalls ==
    {[by |-> "caller", method |-> "INVITE",  seq |-> 1],
     [by |-> "callee", method |-> "MESSAGE", seq |-> 1],
     [by |-> "callee", method |-> "INVITE",  seq |-> 2]}

VARIABLE part

Parts == {"sequence", "requests", "registry", "registration", "events", "call"}

(* One initial state of each part, for the runs of the others.             *)
Still(p) ==
    /\ p # "requests" =>
          /\ dialog.role = "client" /\ flow = "live"
          /\ ~dialog.routed /\ ~dialog.credential /\ ~dialog.locator
    /\ p # "registration" => setup.credential /\ setup.explicit /\ nat = CHOOSE a \in Addresses : TRUE
    /\ p # "call" => stream

MCInit ==
    /\ SequenceInit /\ RequestsInit /\ RegistryInit /\ RegistrationInit /\ EventInit /\ CallInit
    /\ part \in Parts /\ Still(part)

Runs(p) ==
    /\ part = p /\ UNCHANGED part
    /\ p # "sequence" => UNCHANGED sequenceVars
    /\ p # "requests" => UNCHANGED requestVars
    /\ p # "registry" => UNCHANGED registryVars
    /\ p # "registration" => UNCHANGED registrationVars
    /\ p # "events" => UNCHANGED eventVars
    /\ p # "call" => UNCHANGED callVars

MCNext ==
    \/ SequenceNext /\ Runs("sequence")
    \/ RequestsNext /\ Runs("requests")
    \/ RegistryNext /\ Runs("registry")
    \/ RegistrationNext /\ Runs("registration")
    \/ EventNext /\ Runs("events")
    \/ CallNext /\ Runs("call")

allVars == <<sequenceVars, requestVars, registryVars, registrationVars, eventVars, callVars, part>>

(***************************************************************************)
(* The types of the parts' state.                                        *)
(***************************************************************************)
ServicesTypeOK ==
    /\ SequenceTypeOK /\ RequestTypeOK /\ RegistryTypeOK
    /\ RegistrationTypeOK /\ EventTypeOK /\ CallTypeOK
    /\ part \in Parts

(* The fairness of the parts' own specifications, in the runs of the part. *)
MCFairness ==
    /\ \A r \in Requests : /\ WF_requestVars(part = "requests" /\ Sends(r))
                            /\ WF_requestVars(part = "requests" /\ IsAnswered(r))
    /\ \A a \in Asks : WF_eventVars(part = "events" /\ AskProgress(a))
    /\ WF_callVars(part = "call" /\ CallerProgress)
    /\ WF_callVars(part = "call" /\ CalleeProgress)
    /\ WF_callVars(part = "call" /\ HangupReturns)
    /\ \A r \in AllMidcalls : WF_callVars(part = "call" /\ RequestProgress(r))

MCSpec == MCInit /\ [][MCNext]_allVars /\ MCFairness
=============================================================================
