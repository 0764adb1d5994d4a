-------------------------- MODULE ResponseRouting --------------------------
(***************************************************************************)
(* How a response finds its way back (connection.rs, endpoint.rs,          *)
(* transaction.rs, udp.rs): the receiving connection stamps the top Via of *)
(* a request with the address it came from; the transaction, the endpoint  *)
(* without a transaction and the endpoint after one each read a            *)
(* destination off the Via of the copied headers.                          *)
(*                                                                         *)
(* An address is a host and a port; 0 stands for a port left out.          *)
(***************************************************************************)
EXTENDS Naturals

CONSTANTS Hosts, Ports

VARIABLES
    incoming, \* the request: connection, source, and its top Via
    via,     \* that Via after update_msg_received
    responses  \* responses sent: by whom, and to which address

responseVars == <<incoming, via, responses>>

Unnamed   == "domain" \* a sent-by host that is a name
Addresses == [host : Hosts, port : Ports]
SentBys   == [host : Hosts \cup {Unnamed}, port : Ports \cup {0}]
Absent    == "absent"
NoRport   == 65536    \* no rport at all; 0 is one without a value

ASSUME ResponseAssumption ==
    /\ Absent \notin Hosts
    /\ {0, NoRport} \cap Ports = {}

Params    == [received : Hosts \cup {Absent}, rport : Ports \cup {0, NoRport},
              transport : {Absent, "tcp"}]
Vias      == [transport : {"udp", "tcp"}, sentBy : SentBys, params : Params]
NoVia     == [transport |-> "udp", sentBy |-> [host |-> Unnamed, port |-> 0],
              params |-> [received |-> Absent, rport |-> NoRport, transport |-> Absent]]

Answerers == {"transaction", "stateless", "finished"}

ResponseTypeOK ==
    /\ incoming.on \in {"udp", "tcp"} /\ incoming.source \in Addresses
    /\ incoming.via \in Vias /\ via \in Vias
    /\ \A a \in responses : a.by \in Answerers

(* Requests as they leave their sender: with or without rport.             *)
AsSent == {p \in Params : /\ p.transport = Absent /\ p.received = Absent
                          /\ p.rport \in {0, NoRport}}

ResponseInit ==
    /\ incoming \in [on : {"udp", "tcp"}, source : Addresses,
                    via : [transport : {"udp", "tcp"}, sentBy : SentBys, params : AsSent]]
    /\ via = NoVia /\ responses = {}

-----------------------------------------------------------------------------
Requested(params) == params.rport # NoRport

\* Faulty variant: a difference in the port alone is never worth a received.
StampsHostOnly(v, on, source) == v.sentBy.host # source.host

(* The address has to be stated: on UDP when host or port differ from the  *)
(* sent-by, on a stream when the host does.                                *)
Stamps(v, on, source) ==
    /\ v.sentBy # source
    /\ on = "udp" \/ v.sentBy.host # source.host

(* build_via_received.  Where there is nothing to state, the Via is left   *)
(* as it came, except for an rport that was asked for.                     *)
Stamped(v, on, source) ==
    LET bare == [v.params EXCEPT !.received = Absent, !.rport = NoRport]
        full == [bare EXCEPT !.received = source.host, !.rport = source.port,
                             !.transport = IF on # "udp" /\ v.transport # on THEN on ELSE @]
    IN  CASE Stamps(v, on, source) -> [v EXCEPT !.params = full]
          [] ~Stamps(v, on, source) /\ Requested(v.params) ->
                [v EXCEPT !.params = [bare EXCEPT !.rport = source.port]]
          [] OTHER -> v

(* update_msg_received.                                                    *)
Receives ==
    /\ via = NoVia
    /\ via' = Stamped(incoming.via, incoming.on, incoming.source)
    /\ UNCHANGED <<incoming, responses>>

-----------------------------------------------------------------------------
DefaultPort == 5060

(* parse_target_from_via.                                                  *)
TargetFromVia(v) ==
    [transport |-> IF v.params.transport # Absent THEN v.params.transport ELSE v.transport,
     host |-> IF v.params.received # Absent THEN v.params.received ELSE v.sentBy.host,
     port |-> IF v.params.rport \notin {0, NoRport} THEN v.params.rport ELSE v.sentBy.port]

SocketOf(t) == [host |-> t.host, port |-> IF t.port = 0 THEN DefaultPort ELSE t.port]

(* The reply of a transaction goes to get_destination of the response, its *)
(* Via copied by make_response; the 481 of a stray CANCEL and the repeated *)
(* answer of a finished transaction to get_destination_from_request.  On a *)
(* stream the connection itself leads back.                                *)
Responds(by) ==
    /\ via # NoVia /\ \A a \in responses : a.by # by
    /\ responses' = responses \cup {[by |-> by,
                                 to |-> IF incoming.on = "udp" THEN SocketOf(TargetFromVia(via))
                                        ELSE incoming.source]}
    /\ UNCHANGED <<incoming, via>>

ResponseNext == Receives \/ \E by \in Answerers : Responds(by)

ResponseSpec == ResponseInit /\ [][ResponseNext]_responseVars

(***************************************************************************)
(* A response over UDP goes back to the address its request came from,     *)
(* whatever sent-by the sender wrote: one behind a NAT, a name, no port.   *)
(* Three readers of one Via rely on one writer of it.                      *)
(***************************************************************************)
RespondsToSource == \A a \in responses : a.to = incoming.source
=============================================================================
