--------------------------- MODULE RequestRouting ---------------------------
(***************************************************************************)
(* Where the requests of a dialog go and what their Via says: the INVITE   *)
(* (invitation.rs), the route set and the remote target the dialog keeps   *)
(* (dialog.rs), the ACK of a 2xx (message.rs), the listener named in the   *)
(* Via and the connection the transport layer picks.                       *)
(*                                                                         *)
(* Proxies, the outbound proxy and the peer are external.  A URI is the    *)
(* node it names, its scheme, its ;transport= and ;lr.                     *)
(***************************************************************************)
EXTENDS Naturals, Sequences, SequencesExt

CONSTANT ProxyIds    \* proxies that may record-route, numbered from 1

Peer == 99

(* The proxies' numbers have no gap and stay below the peer's.             *)
ASSUME RoutingAssumption ==
    ProxyIds \subseteq 1 .. Peer - 1 /\ \A p \in ProxyIds : 1 .. p \subseteq ProxyIds

VARIABLES
    role,      \* "client" or "server"
    proxies,   \* the record-routing proxies between us and the peer, nearest first
    listeners, \* external: the transports of the endpoint's listeners, in order
    outbound,  \* the transport of the outbound proxy, "none" without one
    flow,      \* the stream of the initial request, or "none"
    open,      \* is that stream still open?
    routeSet, target, \* DialogInner.route_set and .remote_uri
    stage,     \* "start", "invited", "established", "built", "travels", "arrived", "lost"
    message    \* the request under way

dialogVars  == <<routeSet, target>>
routingVars == <<role, proxies, listeners, outbound, flow, open, dialogVars, stage, message>>

\* The endpoints tried: UDP only, UDP before the streams, TCP before UDP.
ListenerSets == {<<"udp">>, <<"udp", "tcp", "tls">>, <<"tcp", "udp">>}

Streams    == {"tcp", "tls"}
Uri(node, scheme, transport, lr) ==
    [node |-> node, scheme |-> scheme, transport |-> transport, lr |-> lr]
NoUri      == Uri(0, "sip", "none", TRUE)
NoMessage  == [kind |-> "none", via |-> "none", uri |-> NoUri, routes |-> <<>>, on |-> "none",
               flow |-> "none", at |-> 0, visited |-> <<>>]
PeerUris   == {Uri(Peer, "sip", "none", TRUE), Uri(Peer, "sip", "tcp", TRUE),
               Uri(Peer, "sips", "none", TRUE)}
ProxyUris(t) == {Uri(p, "sip", t, lr) : p \in ProxyIds, lr \in BOOLEAN}
Paths      == UNION {{ps \in [1 .. n -> UNION {ProxyUris(t) : t \in {"none", "tcp"}}] :
                        \A i \in 1 .. n : ps[i].node = i} : n \in {0} \cup ProxyIds}

RoutingTypeOK ==
    /\ role \in {"client", "server"} /\ proxies \in Paths /\ listeners \in ListenerSets
    /\ outbound \in {"none", "tcp"} /\ flow \in {"none"} \cup Streams /\ open \in BOOLEAN
    /\ target.node \in {0, Peer} \cup ProxyIds
    /\ stage \in {"start", "invited", "established", "built", "travels", "arrived", "lost"}
    /\ message.kind \in {"none", "INVITE", "ACK", "dialog"}

(* Proxies of one path offer the same transport.                           *)
RoutingInit ==
    /\ role \in {"client", "server"} /\ listeners \in ListenerSets
    /\ proxies \in {ps \in Paths : \A i, j \in DOMAIN ps : ps[i].transport = ps[j].transport}
    /\ outbound \in {"none", "tcp"}
    /\ flow = "none" /\ open = FALSE /\ routeSet = <<>> /\ target = NoUri
    /\ stage = "start" /\ message = NoMessage

-----------------------------------------------------------------------------
(***************************************************************************)
(* Addresses: get_addrs lists the listeners, then the connections.         *)
(***************************************************************************)
Addrs == listeners \o (IF open THEN <<flow>> ELSE <<>>)

(* get_via: the transport of the address given, else the first listener's. *)
GetVia(t) == IF t \in Range(Addrs) \ {"udp", "none"} THEN t ELSE listeners[1]

(* lookup: the outbound proxy replaces the target; a stream is dialed,     *)
(* anything else leaves on the first UDP listener.                         *)
Lookup(uri) == LET t == IF outbound # "none" THEN outbound ELSE uri.transport
               IN  IF t \in Streams THEN t ELSE "udp"

Destination(uri, routes) == IF routes # <<>> THEN Head(routes) ELSE uri

-----------------------------------------------------------------------------
(***************************************************************************)
(* make_invite_request and create_client_invite_dialog: the callee may     *)
(* name a transport; the application may preload the nearest proxy as a    *)
(* route or give the destination.  A destination also becomes the remote   *)
(* target.                                                                 *)
(***************************************************************************)
Callees == {Uri(Peer, "sip", t, TRUE) : t \in {"none"} \cup Streams}

Invites(callee, preloaded, destination) ==
    /\ role = "client" /\ stage = "start"
    /\ LET named  == IF destination # "none" THEN destination ELSE callee.transport
           first  == IF destination # "none" THEN Uri(0, "sip", destination, TRUE)
                     ELSE Destination(callee, preloaded)
           on     == Lookup(first)
       IN  /\ message' = [NoMessage EXCEPT !.kind = "INVITE", !.via = GetVia(named),
                              !.uri = callee, !.routes = preloaded, !.on = on, !.at = first.node]
           /\ target' = first
           /\ flow' = (IF on \in Streams THEN on ELSE "none") /\ open' = (on \in Streams)
    /\ stage' = "invited"
    /\ UNCHANGED <<role, proxies, listeners, outbound, routeSet>>

\* Faulty variant: the route set keeps the order of the header.
RecordedOrder(recordRoute) == recordRoute

(* update_route_set_from_response, make_ack: seen from the caller, the     *)
(* nearest proxy recorded itself first, so it comes last in the header.    *)
CallerRoutes(recordRoute) == Reverse(recordRoute)

\* Faulty variant: the Contact is adopted as it came.
ContactAsIs(contact) == contact

(* adopt_2xx_remote_target: an established stream transport sticks to a    *)
(* sip Contact that names none.                                            *)
Adopted(contact) ==
    IF target.transport \in Streams /\ contact.transport = "none" /\ contact.scheme # "sips"
    THEN [contact EXCEPT !.transport = target.transport] ELSE contact

Establishes(contact) ==
    /\ stage = "invited"
    /\ routeSet' = CallerRoutes(Reverse(proxies))
    /\ target' = Adopted(contact)
    /\ stage' = "established"
    /\ message' = [NoMessage EXCEPT !.uri = contact]
    /\ UNCHANGED <<role, proxies, listeners, outbound, flow, open>>

(* DialogInner::new and set_server_connection: a server dialog reads the   *)
(* header in order and takes the Contact of the INVITE as it is.           *)
Accepts(contact, on) ==
    /\ role = "server" /\ stage = "start"
    /\ routeSet' = proxies /\ target' = contact
    /\ flow' = (IF on \in Streams THEN on ELSE "none") /\ open' = (on \in Streams)
    /\ stage' = "established" /\ message' = [NoMessage EXCEPT !.uri = contact]
    /\ UNCHANGED <<role, proxies, listeners, outbound>>

FlowCloses ==
    /\ open /\ stage \in {"established", "built"} /\ open' = FALSE
    /\ UNCHANGED <<role, proxies, listeners, outbound, flow, dialogVars, stage, message>>

-----------------------------------------------------------------------------
(* What the stream of the initial request leads to, once past an edge proxy. *)
Nearest == IF proxies = <<>> THEN Peer ELSE proxies[1].node

(***************************************************************************)
(* make_ack and send_ack: the ACK is built from the 2xx alone, with the    *)
(* INVITE's Via, and takes the stream the 2xx came on.                     *)
(***************************************************************************)
StrictUri(routes, contact)    == IF routes = <<>> \/ Head(routes).lr THEN contact ELSE Head(routes)
StrictRoutes(routes, contact) ==
    IF routes = <<>> \/ Head(routes).lr THEN routes ELSE Append(Tail(routes), contact)

Acks ==
    /\ role = "client" /\ stage = "established"
    /\ LET contact == message.uri
           routes  == CallerRoutes(Reverse(proxies))
           uri     == StrictUri(routes, contact)
           stated  == StrictRoutes(routes, contact)
       IN  message' = [NoMessage EXCEPT !.kind = "ACK", !.uri = uri, !.routes = stated,
                           !.on = IF open THEN flow ELSE Lookup(Destination(uri, stated)),
                           !.at = IF open THEN Nearest ELSE Destination(uri, stated).node]
    /\ stage' = "travels"
    /\ UNCHANGED <<role, proxies, listeners, outbound, flow, open, dialogVars>>

(* resolve_affinity_connection: the open stream of the initial request,    *)
(* without a route set.                                                    *)
Affinity == routeSet = <<>> /\ open

\* Faulty variant: only the remote target is asked, never the first route.
TransportOfTarget ==
    IF Affinity THEN flow ELSE IF outbound # "none" THEN outbound ELSE target.transport

(* via_addr_for_send_transport.                                            *)
SendTransport ==
    IF Affinity THEN flow ELSE IF outbound # "none" THEN outbound
    ELSE Destination(target, routeSet).transport

(* make_request: Route headers and Request-URI from the dialog, the Via    *)
(* from the state of the connections now.                                  *)
Builds ==
    /\ stage = "established"
    /\ message' = [NoMessage EXCEPT !.kind = "dialog", !.via = GetVia(SendTransport),
                       !.uri = target, !.routes = routeSet,
                       !.flow = IF open THEN flow ELSE "none"]
    /\ stage' = "built"
    /\ UNCHANGED <<role, proxies, listeners, outbound, flow, open, dialogVars>>

(* send_dialog_request and Transaction::send, on the connections of then.  *)
Sends ==
    /\ stage = "built"
    /\ LET first == Destination(message.uri, message.routes)
       IN  message' = [message EXCEPT !.on = IF Affinity THEN flow ELSE Lookup(first),
                                      !.at = first.node]
    /\ stage' = "travels"
    /\ UNCHANGED <<role, proxies, listeners, outbound, flow, open, dialogVars>>

-----------------------------------------------------------------------------
(***************************************************************************)
(* External: a proxy takes its own URI off the request and passes it on to *)
(* the next one, a strict router the old way.                              *)
(***************************************************************************)
Strict(p) == ~proxies[p].lr

\* A strict router goes by the Route header alone.
Promoted ==
    [uri |-> Head(message.routes), routes |-> Tail(message.routes)]

\* A loose router takes its own URI off, wherever the hop before left it.
Popped(p) ==
    IF message.uri.node = p
    THEN [uri |-> Last(message.routes), routes |-> Front(message.routes)]
    ELSE [uri |-> message.uri, routes |-> Tail(message.routes)]

\* And puts the next one where a strict router looks for it.
Rewritten(m) ==
    IF m.routes # <<>> /\ ~Head(m.routes).lr
    THEN [uri |-> Head(m.routes), routes |-> Append(Tail(m.routes), m.uri)] ELSE m

Passes(p, m, next) ==
    /\ message' = [message EXCEPT !.uri = m.uri, !.routes = m.routes, !.at = next.node,
                                  !.visited = Append(@, p)]
    /\ UNCHANGED stage

Forward ==
    /\ stage = "travels" /\ message.at \in DOMAIN proxies
    /\ LET p == message.at
       IN  IF message.routes = <<>> THEN stage' = "lost" /\ UNCHANGED message
           ELSE IF Strict(p) THEN Passes(p, Promoted, Promoted.uri)
           ELSE LET m == Popped(p)
                    strictNext == m.routes # <<>> /\ ~Head(m.routes).lr
                IN  Passes(p, Rewritten(m), IF strictNext THEN Head(m.routes)
                                            ELSE Destination(m.uri, m.routes))
    /\ UNCHANGED <<role, proxies, listeners, outbound, flow, open, dialogVars>>

Arrives ==
    /\ stage = "travels" /\ message.at = Peer /\ stage' = "arrived"
    /\ UNCHANGED <<role, proxies, listeners, outbound, flow, open, dialogVars, message>>

(* The dialog goes on to its next request.                                 *)
Continues ==
    /\ stage = "arrived" /\ stage' = "established"
    /\ message' = [NoMessage EXCEPT !.uri = target]
    /\ UNCHANGED <<role, proxies, listeners, outbound, flow, open, dialogVars>>

RoutingNext ==
    \/ \E callee \in Callees, destination \in {"none", "tcp"}, n \in {0, 1} \cap 0 .. Len(proxies) :
          Invites(callee, SubSeq(proxies, 1, n), destination)
    \/ \E contact \in PeerUris : Establishes(contact)
    \/ \E contact \in PeerUris, on \in {"udp", "tcp"} : Accepts(contact, on)
    \/ FlowCloses \/ Acks \/ Builds \/ Sends \/ Forward \/ Arrives \/ Continues

(***************************************************************************)
(* A request of an established dialog takes the recorded path, nearest     *)
(* proxy first, and ends at the peer under the peer's own URI - as long as *)
(* the nearest proxy is a loose router: make_request knows no other, and   *)
(* make_ack rewrites for one that Request::destination then passes by.     *)
(* Routes come from two headers read in two orders, and from make_ack,     *)
(* which reads them a third time.                                          *)
(***************************************************************************)
NearestIsLoose == proxies = <<>> \/ proxies[1].lr

PathIsRecorded ==
    message.kind \in {"ACK", "dialog"} /\ NearestIsLoose =>
        /\ stage # "lost"
        /\ stage = "arrived" => /\ message.visited = [i \in DOMAIN proxies |-> i]
                               /\ message.uri.node = Peer

(***************************************************************************)
(* A call set up over a stream does not move to UDP: a mid-dialog request  *)
(* to a sip target goes over a stream even when the one of the INVITE is   *)
(* gone and the peer's Contact named no transport.                         *)
(***************************************************************************)
Direct == message.kind = "dialog" /\ message.on # "none" /\ routeSet = <<>> /\ outbound = "none"

TransportSticks ==
    Direct /\ role = "client" /\ flow \in Streams /\ target.scheme = "sip" =>
        message.on \in Streams

(***************************************************************************)
(* The Via of a mid-dialog request names the transport it is sent on, when *)
(* there is such a listener and the first one is UDP: make_request decides *)
(* on it before, and apart from, the lookup that picks the connection.     *)
(* Only the stream closing in between sets them apart.                     *)
(***************************************************************************)
ViaNamesTransport ==
    /\ message.kind = "dialog" /\ message.on \in Range(listeners) /\ listeners[1] = "udp"
    /\ message.flow = (IF open THEN flow ELSE "none")
    => message.via = message.on

(* The two decisions on the transport of a mid-dialog request.             *)
TransportIsKept == TransportSticks /\ ViaNamesTransport

RoutingSpec == RoutingInit /\ [][RoutingNext]_routingVars
=============================================================================
