---------------------------- MODULE Registration ----------------------------
(***************************************************************************)
(* A registration (registration.rs) with its challenge (authenticate.rs):  *)
(* the Contact it binds, the public address it learns, its CSeq numbers    *)
(* and the lifetime it reports.  The registrar sees the REGISTER come from *)
(* the address a NAT gives it, which may change.                           *)
(*                                                                         *)
(* Registration::register takes &mut self, so one REGISTER runs at a time. *)
(***************************************************************************)
EXTENDS Naturals

CONSTANTS Addresses,   \* public addresses the NAT may use
          Lifetimes,   \* lifetimes the registrar may grant
          MaxRegisters \* bound on the calls of register

ASSUME RegistrationAssumption == MaxRegisters \in Nat

VARIABLES
    setup,     \* credential, and whether the caller set the Contact
    reg,       \* Registration: last_seq, contact, public_address
    step,      \* where register is, or what it returned
    sent,      \* the REGISTER in flight
    nat,       \* the address the NAT uses now
    binding,   \* external: what the registrar has bound and for how long
    reported,  \* history: the address the last 401, 407 or 200 reported
    calls      \* history: calls of register

registrationVars == <<setup, reg, step, sent, nat, binding, reported, calls>>

Local   == "local"
Contacts == Addresses \cup {Local, "none"}
Kinds    == {"www", "proxy"}

RegistrationTypeOK ==
    /\ setup \in [credential : BOOLEAN, explicit : BOOLEAN]
    /\ reg \in [seq : Nat, contact : Contacts, public : Contacts]
    /\ step \in {"idle", "waiting", "ok", "refused", "error"}
    /\ sent \in [seq : Nat, contact : Contacts, answer : Kinds \cup {"none"}]
    /\ nat \in Addresses
    /\ binding \in [contact : Contacts, lifetime : Lifetimes \cup {0}]
    /\ reported \in Contacts
    /\ calls \in 0 .. MaxRegisters

RegistrationInit ==
    /\ setup \in [credential : BOOLEAN, explicit : BOOLEAN]
    /\ reg = [seq |-> 0, contact |-> IF setup.explicit THEN Local ELSE "none", public |-> "none"]
    /\ step = "idle"
    /\ sent = [seq |-> 0, contact |-> "none", answer |-> "none"]
    /\ nat \in Addresses
    /\ binding = [contact |-> "none", lifetime |-> 0]
    /\ reported = "none" /\ calls = 0

-----------------------------------------------------------------------------
(* The Contact of a REGISTER: the caller's, else the public address, else  *)
(* the address in the Via.                                                 *)
ChosenContact ==
    IF reg.contact # "none" THEN reg.contact
    ELSE IF reg.public # "none" THEN reg.public ELSE Local

Register ==
    /\ step # "waiting" /\ calls < MaxRegisters
    /\ calls' = calls + 1
    /\ reg' = [reg EXCEPT !.seq = @ + 1]
    /\ \/ /\ step' = "waiting"
          /\ sent' = [seq |-> reg.seq + 1, contact |-> ChosenContact, answer |-> "none"]
       \/ step' = "error" /\ UNCHANGED sent
    /\ UNCHANGED <<setup, nat, binding, reported>>

(* The address of a response: received and rport of its Via, or the Via's  *)
(* own host when the registrar added neither.                              *)
Seen == {nat, Local}

(* A challenge moves the caller's Contact to the address it reports.       *)
Learns(address) ==
    [reg EXCEPT !.public = address,
                !.contact = IF @ = "none" \/ reg.public = address THEN @ ELSE address]

(* handle_client_authenticate: the challenge of the response's own kind,   *)
(* the other kind if there is none of it.                                  *)
Answer(own, offered) == IF own \in offered THEN own ELSE CHOOSE k \in offered : TRUE

(* The retry replaces the Contact by the address just learnt and takes a   *)
(* new number.                                                             *)
\* Faulty variant: the first REGISTER's Contact is kept.
OldContact(address) == sent.contact
RetryContact(address) == address
NextSeq == reg.seq + 1

Challenged ==
    /\ step = "waiting"
    /\ \E own \in Kinds, offered \in SUBSET Kinds, address \in Seen :
          /\ reported' = address
          /\ \/ /\ sent.answer # "none" \/ ~setup.credential
                /\ reg' = Learns(address)
                /\ step' = "refused" /\ UNCHANGED sent
             \/ /\ sent.answer = "none" /\ setup.credential
                /\ reg' = [Learns(address) EXCEPT !.seq = NextSeq]
                /\ IF offered = {}
                   THEN step' = "error" /\ UNCHANGED sent
                   ELSE /\ step' \in {"waiting", "error"}
                        /\ sent' = [seq |-> NextSeq, contact |-> RetryContact(address),
                                    answer |-> Answer(own, offered)]
    /\ UNCHANGED <<setup, nat, binding, calls>>

Accepted ==
    /\ step = "waiting"
    /\ step' = "ok"
    /\ \E address \in Seen, lifetime \in Lifetimes :
          /\ reg' = [reg EXCEPT !.public = address]
          /\ reported' = address
          /\ binding' = [contact |-> sent.contact, lifetime |-> lifetime]
    /\ UNCHANGED <<setup, sent, nat, calls>>

(* Any other final response is returned; a transaction without one is an   *)
(* error.                                                                  *)
NotAccepted ==
    /\ step = "waiting"
    /\ step' \in {"refused", "error"}
    /\ UNCHANGED <<setup, reg, sent, nat, binding, reported, calls>>

NatMoves ==
    /\ nat' \in Addresses \ {nat}
    /\ UNCHANGED <<setup, reg, step, sent, binding, reported, calls>>

RegistrationNext == Register \/ Challenged \/ Accepted \/ NotAccepted \/ NatMoves

RegistrationSpec == RegistrationInit /\ [][RegistrationNext]_registrationVars

-----------------------------------------------------------------------------
(***************************************************************************)
(* The Contact a registrar binds is the address it reported last, so that  *)
(* it can reach the client through the NAT: after a challenge always, and  *)
(* without one unless the caller set the Contact.                          *)
(***************************************************************************)
ReportedIsBound ==
    [][step = "waiting" /\ step' = "ok" /\ reported # "none"
          /\ (sent.answer # "none" \/ ~setup.explicit) =>
       binding'.contact = reported]_registrationVars

=============================================================================
