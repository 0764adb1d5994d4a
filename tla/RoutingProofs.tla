---------------------------- MODULE RoutingProofs ----------------------------
(***************************************************************************)
(* Proofs about where a request goes: the path and the transport of the    *)
(* requests of a dialog (RequestRouting) and the order of the targets a    *)
(* next hop resolves to (NameResolution).                                  *)
(***************************************************************************)
EXTENDS NameResolution, RequestRouting, TLAPS

-----------------------------------------------------------------------------
(***************************************************************************)
(* REQUESTS                                                                *)
(*                                                                         *)
(* The inductive invariant.  RoutingShapes is typing.  DialogKept: what    *)
(* the dialog keeps of its set-up, from the moment it has it.  BuiltNow:   *)
(* a request that is built but not sent says what the dialog and the       *)
(* connections said then.  Journey: where on its path a request is and     *)
(* what its headers hold there - NearLoose behind a loose router or before *)
(* any, the peer's URI in the request line, NearStrict behind the          *)
(* rewriting for a strict one, the peer's URI at the end of the routes.    *)
(***************************************************************************)
Transports == {"none", "udp"} \cup Streams
Uris       == [node : Nat, scheme : {"sip", "sips"}, transport : {"none"} \cup Streams, lr : BOOLEAN]
Messages   == [kind : {"none", "INVITE", "ACK", "dialog"}, via : Transports, uri : Uris,
               routes : Seq(Uris), on : Transports, flow : {"none"} \cup Streams,
               at : Nat, visited : Seq(Nat)]

RoutingShapes ==
    /\ RoutingTypeOK
    /\ target \in Uris /\ routeSet \in Seq(Uris) /\ message \in Messages
    /\ open => flow \in Streams

Behind == {"established", "built", "travels", "arrived", "lost"}

DialogKept ==
    /\ stage \in {"start", "established"} => message.kind = "none"
    /\ stage = "invited" => message.kind = "INVITE"
    /\ stage \in Behind \ {"established"} => message.kind \in {"ACK", "dialog"}
    /\ stage \in Behind => routeSet = proxies /\ target.node = Peer
    /\ stage = "established" => message.uri.node = Peer
    /\ role = "client" /\ flow \in Streams /\ outbound = "none" /\ stage # "start" =>
          target.transport \in Streams \/ (target.scheme = "sips" /\ stage # "invited")

BuiltNow ==
    stage = "built" =>
        /\ message.kind = "dialog" /\ message.uri = target /\ message.routes = routeSet
        /\ message.on = "none" /\ message.visited = <<>> /\ (open => message.flow = flow)
        /\ message.flow = (IF open THEN flow ELSE "none") => message.via = GetVia(SendTransport)

Remaining == Len(proxies) - message.at

NearLoose ==
    /\ proxies[message.at].lr /\ message.uri.node = Peer
    /\ \A i \in 1 .. Remaining + 1 : message.routes[i] = proxies[message.at + i - 1]

NearStrict ==
    /\ message.uri = proxies[message.at]
    /\ \A i \in 1 .. Remaining : message.routes[i] = proxies[message.at + i]
    /\ message.routes[Remaining + 1].node = Peer

AtProxy ==
    /\ message.at \in 1 .. Len(proxies)
    /\ Len(message.routes) = Remaining + 1
    /\ Len(message.visited) = message.at - 1
    /\ NearLoose \/ NearStrict

AtPeer ==
    /\ message.at = Peer /\ message.uri.node = Peer
    /\ Len(message.visited) = Len(proxies)

Journey ==
    message.kind \in {"ACK", "dialog"} /\ NearestIsLoose =>
          /\ stage # "lost"
          /\ \A i \in 1 .. Len(message.visited) : message.visited[i] = i
          /\ stage = "travels" => AtProxy \/ AtPeer
          /\ stage = "arrived" => AtPeer

RoutingInv == RoutingShapes /\ DialogKept /\ BuiltNow /\ Journey /\ TransportIsKept

(* A path is a sequence of URIs, the i-th that of proxy i.                 *)
LEMMA PathShape ==
    ASSUME proxies \in Paths
    PROVE  /\ proxies \in Seq(Uris) /\ Len(proxies) \in 0 .. Peer - 1
           /\ \A i \in 1 .. Len(proxies) : proxies[i].node = i /\ i \in ProxyIds
<1> DEFINE AllUris == UNION {ProxyUris(t) : t \in {"none", "tcp"}}
<1>1. PICK n \in {0} \cup ProxyIds : /\ proxies \in [1 .. n -> AllUris]
                                     /\ \A i \in 1 .. n : proxies[i].node = i
  BY DEF Paths
<1>2. n \in 0 .. Peer - 1 /\ \A i \in 1 .. n : i \in ProxyIds
  BY RoutingAssumption DEF Peer
<1>3. AllUris \subseteq Uris
  <2> SUFFICES ASSUME NEW u \in AllUris PROVE u \in Uris
    OBVIOUS
  <2>1. PICK t \in {"none", "tcp"} : u \in ProxyUris(t)
    OBVIOUS
  <2>2. PICK p \in ProxyIds, lr \in BOOLEAN : u = Uri(p, "sip", t, lr)
    BY <2>1 DEF ProxyUris
  <2>3. p \in Nat
    BY RoutingAssumption DEF Peer
  <2> QED
    BY <2>2, <2>3 DEF Uri, Uris, Streams
<1> HIDE DEF AllUris
<1>4. proxies \in [1 .. n -> Uris]
  BY <1>1, <1>3
<1>5. proxies \in Seq(Uris) /\ Len(proxies) = n
  BY <1>2, <1>4
<1> QED
  BY <1>1, <1>2, <1>5

(* What the caller reads backwards was recorded backwards.                 *)
LEMMA RoutesAreThePath ==
    ASSUME proxies \in Seq(Uris)
    PROVE  CallerRoutes(Reverse(proxies)) = proxies
<1> DEFINE r == Reverse(proxies)
<1>1. r \in Seq(Uris) /\ Len(r) = Len(proxies)
      /\ \A i \in 1 .. Len(proxies) : r[i] = proxies[Len(proxies) - i + 1]
  BY DEF Reverse
<1> HIDE DEF r
<1>2. Reverse(r) \in Seq(Uris) /\ Len(Reverse(r)) = Len(proxies)
      /\ \A i \in 1 .. Len(proxies) : Reverse(r)[i] = r[Len(proxies) - i + 1]
  BY <1>1 DEF Reverse
<1>3. \A i \in 1 .. Len(proxies) : Reverse(r)[i] = proxies[i]
  BY <1>1, <1>2
<1>4. Reverse(r) = proxies
  BY <1>2, <1>3
<1> QED
  BY <1>4 DEF CallerRoutes, r

(* Request::destination is a URI of the dialog.                            *)
LEMMA DestinationTyped ==
    ASSUME NEW uri \in Uris, NEW routes \in Seq(Uris)
    PROVE  Destination(uri, routes) \in Uris
BY DEF Destination

(* lookup finds a transport.                                               *)
LEMMA LookupTyped ==
    ASSUME NEW uri \in Uris, outbound \in {"none", "tcp"}
    PROVE  Lookup(uri) \in {"udp"} \cup Streams
BY DEF Lookup, Streams

(* So does get_via.                                                        *)
LEMMA ViaTyped ==
    ASSUME NEW t \in Transports, listeners \in ListenerSets
    PROVE  GetVia(t) \in Transports
BY DEF GetVia, Transports, ListenerSets, Streams

(* What the peer can write in a Contact, and what a caller can dial.       *)
LEMMA ContactsTyped ==
    /\ \A contact \in PeerUris : contact \in Uris /\ contact.node = Peer
    /\ \A callee \in Callees : /\ callee \in Uris /\ callee.node = Peer
                               /\ callee.scheme = "sip"
    /\ NoUri \in Uris /\ NoMessage \in Messages
<1>1. NoUri \in Uris
  BY DEF NoUri, Uri, Uris
<1>2. NoMessage \in Messages
  BY <1>1 DEF NoMessage, Messages, Transports
<1>3. ASSUME NEW scheme \in {"sip", "sips"}, NEW t \in {"none"} \cup Streams
      PROVE  /\ Uri(Peer, scheme, t, TRUE) \in Uris /\ Uri(Peer, scheme, t, TRUE).node = Peer
             /\ Uri(Peer, scheme, t, TRUE).scheme = scheme
  BY DEF Uri, Uris, Peer
<1>4. \A contact \in PeerUris : contact \in Uris /\ contact.node = Peer
  BY <1>3 DEF PeerUris, Streams
<1>5. ASSUME NEW callee \in Callees
      PROVE  callee \in Uris /\ callee.node = Peer /\ callee.scheme = "sip"
  BY <1>3 DEF Callees, Streams
<1> QED
  BY <1>1, <1>2, <1>4, <1>5

(* What an INVITE leaves: it goes to the callee, a preloaded proxy or the  *)
(* destination given, and over no stream but one of the transport named.   *)
LEMMA InviteSets ==
    ASSUME RoutingInv, NEW callee \in Callees, NEW destination \in {"none", "tcp"},
           NEW n \in 0 .. Len(proxies), Invites(callee, SubSeq(proxies, 1, n), destination)
    PROVE  /\ RoutingShapes' /\ DialogKept'
           /\ message'.kind = "INVITE" /\ stage' = "invited"
<1> DEFINE preloaded == SubSeq(proxies, 1, n)
           named == IF destination # "none" THEN destination ELSE callee.transport
           first == IF destination # "none" THEN Uri(0, "sip", destination, TRUE)
                    ELSE Destination(callee, preloaded)
           on    == Lookup(first)
<1>0. proxies \in Paths
  BY DEF RoutingInv, RoutingShapes, RoutingTypeOK
<1>1. /\ proxies \in Seq(Uris) /\ n \in Nat
      /\ \A i \in 1 .. Len(proxies) : proxies[i].node \in ProxyIds
  BY <1>0, PathShape
<1>2. callee \in Uris /\ callee.node = Peer /\ NoMessage \in Messages
  BY ContactsTyped
<1>3. preloaded \in Seq(Uris) /\ Len(preloaded) = n /\ (n > 0 => preloaded[1] = proxies[1])
  BY <1>1
<1>4. first \in Uris /\ first.node \in {0, Peer} \cup ProxyIds
  <2>1. CASE destination # "none"
    BY <2>1 DEF Uri, Uris, Streams
  <2>2. CASE destination = "none" /\ n = 0
    BY <1>2, <1>3, <2>2 DEF Destination
  <2>3. CASE destination = "none" /\ n > 0
    BY <1>1, <1>3, <2>3 DEF Destination
  <2> HIDE DEF first
  <2> QED
    BY <1>1, <2>1, <2>2, <2>3
<1>5. on \in {"udp"} \cup Streams
  BY <1>4, LookupTyped DEF RoutingInv, RoutingShapes, RoutingTypeOK
<1>6. named \in Transports
  BY <1>2 DEF Uris, Transports, Streams
<1>7. GetVia(named) \in Transports
  BY <1>6, ViaTyped DEF RoutingInv, RoutingShapes, RoutingTypeOK
<1>8. /\ message' = [NoMessage EXCEPT !.kind = "INVITE", !.via = GetVia(named),
                         !.uri = callee, !.routes = preloaded, !.on = on, !.at = first.node]
      /\ target' = first
      /\ flow' = (IF on \in Streams THEN on ELSE "none") /\ open' = (on \in Streams)
      /\ role = "client" /\ stage = "start" /\ stage' = "invited"
      /\ UNCHANGED <<role, proxies, listeners, outbound, routeSet>>
  BY DEF Invites
<1>9. on \in Streams /\ outbound = "none" => first.transport \in Streams
  BY DEF Lookup, Streams
<1> HIDE DEF preloaded, named, first, on
<1>10. message' \in Messages /\ message'.kind = "INVITE"
  <2>1. first.node \in Nat /\ on \in Transports
    BY <1>4, <1>5 DEF Uris, Transports
  <2> QED
    BY <1>2, <1>3, <1>7, <1>8, <2>1 DEF Messages
<1>11. RoutingShapes'
  <2>1. flow' \in {"none"} \cup Streams /\ open' \in BOOLEAN /\ (open' => flow' \in Streams)
    <3>1. flow' \in {"none"} \cup Streams
      BY <1>8
    <3>2. open' \in BOOLEAN
      BY <1>8
    <3>3. open' => flow' \in Streams
      BY <1>8
    <3> QED
      BY <3>1, <3>2, <3>3
  <2>2. RoutingTypeOK'
    BY <1>0, <1>4, <1>8, <1>10, <2>1 DEF RoutingInv, RoutingShapes, RoutingTypeOK
  <2> QED
    BY <1>4, <1>8, <1>10, <2>1, <2>2 DEF RoutingInv, RoutingShapes
<1>12. DialogKept'
  BY <1>8, <1>9, <1>10 DEF DialogKept, Streams, Behind
<1> QED
  BY <1>8, <1>10, <1>11, <1>12

(* The dialog is set up: by the 2xx at the caller, by the INVITE at the    *)
(* callee.  Either way the route set is the path, nearest proxy first.     *)
LEMMA EstablishedSets ==
    ASSUME RoutingInv, NEW contact \in PeerUris, Establishes(contact)
    PROVE  /\ RoutingShapes' /\ DialogKept'
           /\ message'.kind = "none" /\ stage' = "established"
<1>1. proxies \in Paths /\ proxies \in Seq(Uris)
  BY PathShape DEF RoutingInv, RoutingShapes, RoutingTypeOK
<1>2. contact \in Uris /\ contact.node = Peer /\ NoMessage \in Messages
  BY ContactsTyped
<1>3. target \in Uris
  BY DEF RoutingInv, RoutingShapes
<1>4. /\ Adopted(contact) \in Uris /\ Adopted(contact).node = Peer
      /\ Adopted(contact).scheme = contact.scheme
      /\ target.transport \in Streams =>
            Adopted(contact).transport \in Streams \/ Adopted(contact).scheme = "sips"
  <2>1. CASE target.transport \in Streams /\ contact.transport = "none" /\ contact.scheme # "sips"
    BY <1>2, <1>3, <2>1 DEF Adopted, Uris
  <2>2. CASE ~(target.transport \in Streams /\ contact.transport = "none" /\ contact.scheme # "sips")
    BY <1>2, <1>3, <2>2 DEF Adopted, Uris
  <2> QED
    BY <2>1, <2>2
<1>5. /\ routeSet' = proxies /\ target' = Adopted(contact)
      /\ stage = "invited" /\ stage' = "established" /\ message' = [NoMessage EXCEPT !.uri = contact]
      /\ UNCHANGED <<role, proxies, listeners, outbound, flow, open>>
  BY <1>1, RoutesAreThePath DEF Establishes
<1>6. message' \in Messages /\ message'.kind = "none" /\ message'.uri = contact
  BY <1>2, <1>5 DEF NoMessage, Messages
<1>7. RoutingShapes'
  BY <1>1, <1>4, <1>5, <1>6 DEF RoutingInv, RoutingShapes, RoutingTypeOK
<1>8. DialogKept'
  BY <1>2, <1>4, <1>5, <1>6 DEF RoutingInv, DialogKept, Behind
<1> QED
  BY <1>5, <1>6, <1>7, <1>8

(* The 2xx sets the dialog up.                                             *)
LEMMA AcceptedSets ==
    ASSUME RoutingInv, NEW contact \in PeerUris, NEW on \in {"udp", "tcp"}, Accepts(contact, on)
    PROVE  /\ RoutingShapes' /\ DialogKept'
           /\ message'.kind = "none" /\ stage' = "established"
<1>1. proxies \in Paths /\ proxies \in Seq(Uris)
  BY PathShape DEF RoutingInv, RoutingShapes, RoutingTypeOK
<1>2. contact \in Uris /\ contact.node = Peer /\ NoMessage \in Messages
  BY ContactsTyped
<1>3. /\ routeSet' = proxies /\ target' = contact
      /\ flow' = (IF on \in Streams THEN on ELSE "none") /\ open' = (on \in Streams)
      /\ role = "server" /\ stage = "start" /\ stage' = "established"
      /\ message' = [NoMessage EXCEPT !.uri = contact]
      /\ UNCHANGED <<role, proxies, listeners, outbound>>
  BY DEF Accepts
<1>4. message' \in Messages /\ message'.kind = "none" /\ message'.uri = contact
  BY <1>2, <1>3 DEF NoMessage, Messages
<1>5. flow' \in {"none"} \cup Streams
  BY <1>3
<1>6. open' \in BOOLEAN
  BY <1>3
<1>7. open' => flow' \in Streams
  BY <1>3
<1>8. RoutingShapes'
  BY <1>1, <1>2, <1>3, <1>4, <1>5, <1>6, <1>7 DEF RoutingInv, RoutingShapes, RoutingTypeOK
<1>9. DialogKept'
  BY <1>2, <1>3, <1>4 DEF RoutingInv, DialogKept, Behind
<1> QED
  BY <1>3, <1>4, <1>8, <1>9

(* A step that leaves the dialog and the connections alone.                *)
LEMMA RequestMoves ==
    ASSUME RoutingInv, stage \in Behind, stage' \in Behind, message' \in Messages,
           stage' = "established" => message'.kind = "none" /\ message'.uri.node = Peer,
           stage' # "established" => message'.kind \in {"ACK", "dialog"},
           UNCHANGED <<role, proxies, listeners, outbound, flow, dialogVars>>,
           open' \in BOOLEAN, open' => open
    PROVE  RoutingShapes' /\ DialogKept'
<1> USE DEF Behind, dialogVars
<1>1. RoutingTypeOK'
  BY DEF RoutingInv, RoutingShapes, RoutingTypeOK, Messages
<1>2. RoutingShapes'
  BY <1>1 DEF RoutingInv, RoutingShapes
<1>3. DialogKept'
  BY DEF RoutingInv, DialogKept
<1> QED
  BY <1>2, <1>3

(* The set-up as the requests find it.                                     *)
LEMMA DialogIs ==
    ASSUME RoutingInv, stage \in Behind
    PROVE  /\ proxies \in Paths /\ proxies \in Seq(Uris) /\ Len(proxies) \in 0 .. Peer - 1
           /\ \A i \in 1 .. Len(proxies) : proxies[i].node = i
           /\ routeSet = proxies /\ target \in Uris /\ target.node = Peer
           /\ open \in BOOLEAN /\ (open => flow \in Streams) /\ flow \in {"none"} \cup Streams
           /\ outbound \in {"none", "tcp"} /\ listeners \in ListenerSets
BY PathShape DEF RoutingInv, RoutingShapes, RoutingTypeOK, DialogKept

(* A request sets out: to the nearest proxy, or to the peer if none        *)
(* recorded itself.                                                        *)
LEMMA SetsOut ==
    ASSUME RoutingInv, stage \in Behind, UNCHANGED proxies, stage' = "travels",
           message'.visited = <<>>,
           NearestIsLoose =>
              /\ message'.uri.node = Peer /\ message'.routes = proxies
              /\ message'.at = IF proxies = <<>> THEN Peer ELSE 1
    PROVE  Journey'
<1>1. /\ proxies \in Seq(Uris) /\ Len(proxies) \in Nat
      /\ \A i \in 1 .. Len(proxies) : proxies[i].node = i
  BY DialogIs
<1>2. Len(message'.visited) = 0 /\ NearestIsLoose' = NearestIsLoose
  BY DEF NearestIsLoose
<1>3. CASE ~NearestIsLoose
  BY <1>2, <1>3 DEF Journey
<1>4. CASE proxies = <<>>
  BY <1>1, <1>2, <1>4 DEF Journey, AtPeer, NearestIsLoose
<1>5. CASE NearestIsLoose /\ proxies # <<>>
  <2>1. Len(proxies) > 0 /\ proxies[1].lr /\ message'.at = 1
    BY <1>1, <1>5 DEF NearestIsLoose
  <2>2. NearLoose'
    BY <1>1, <1>5, <2>1 DEF NearLoose, Remaining
  <2>3. AtProxy'
    BY <1>1, <1>2, <1>5, <2>1, <2>2 DEF AtProxy, Remaining
  <2> QED
    BY <1>2, <2>3 DEF Journey
<1> QED
  BY <1>3, <1>4, <1>5

(* The ACK starts on the recorded path, rewritten for a strict first hop.  *)
LEMMA AckSets ==
    ASSUME RoutingInv, Acks
    PROVE  RoutingShapes' /\ DialogKept' /\ Journey' /\ message'.kind = "ACK" /\ stage' = "travels"
<1> DEFINE contact == message.uri
           uri     == StrictUri(proxies, contact)
           stated  == StrictRoutes(proxies, contact)
           on      == IF open THEN flow ELSE Lookup(Destination(uri, stated))
           at      == IF open THEN Nearest ELSE Destination(uri, stated).node
<1>1. stage = "established" /\ stage \in Behind /\ stage' = "travels" /\ stage' \in Behind
  BY DEF Acks, Behind
<1>2. /\ proxies \in Seq(Uris) /\ Len(proxies) \in Nat
      /\ \A i \in 1 .. Len(proxies) : proxies[i].node = i
      /\ open \in BOOLEAN /\ (open => flow \in Streams) /\ outbound \in {"none", "tcp"}
  BY <1>1, DialogIs
<1>3. contact \in Uris /\ contact.node = Peer
  BY <1>1 DEF RoutingInv, RoutingShapes, DialogKept, Messages
<1>4. /\ message' = [NoMessage EXCEPT !.kind = "ACK", !.uri = uri, !.routes = stated,
                                      !.on = on, !.at = at]
      /\ UNCHANGED <<role, proxies, listeners, outbound, flow, open, dialogVars>>
  BY <1>2, RoutesAreThePath DEF Acks
<1>5. proxies # <<>> => Head(proxies) = proxies[1] /\ Len(proxies) > 0 /\ proxies[1] \in Uris
  BY <1>2
<1>6. uri \in Uris /\ stated \in Seq(Uris)
  <2>1. CASE proxies = <<>> \/ Head(proxies).lr
    BY <1>2, <1>3, <2>1 DEF StrictUri, StrictRoutes
  <2>2. CASE ~(proxies = <<>> \/ Head(proxies).lr)
    BY <1>2, <1>3, <1>5, <2>2 DEF StrictUri, StrictRoutes
  <2> QED
    BY <2>1, <2>2
<1>7. Destination(uri, stated) \in Uris
  BY <1>6, DestinationTyped
<1>8. on \in Transports /\ at \in Nat
  <2>1. Lookup(Destination(uri, stated)) \in {"udp"} \cup Streams
    BY <1>2, <1>7, LookupTyped
  <2>2. Nearest \in Nat
    BY <1>2, <1>5 DEF Nearest, Uris, Peer
  <2> HIDE DEF uri, stated
  <2> QED
    BY <1>2, <1>7, <2>1, <2>2 DEF Transports, Uris
<1>9. NearestIsLoose => /\ uri = contact /\ stated = proxies
                        /\ at = IF proxies = <<>> THEN Peer ELSE 1
  BY <1>2, <1>3, <1>5 DEF NearestIsLoose, StrictUri, StrictRoutes, Destination, Nearest
<1> HIDE DEF uri, stated, on, at
<1>10. message' \in Messages
  BY <1>4, <1>6, <1>8, ContactsTyped DEF Messages
<1>11. /\ message'.kind = "ACK" /\ message'.visited = <<>>
       /\ message'.uri = uri /\ message'.routes = stated /\ message'.at = at
  BY <1>4 DEF NoMessage
<1>12. Journey'
  BY <1>1, <1>3, <1>4, <1>9, <1>11, SetsOut
<1>13. RoutingShapes' /\ DialogKept'
  BY <1>1, <1>2, <1>4, <1>10, <1>11, RequestMoves DEF dialogVars
<1> QED
  BY <1>1, <1>11, <1>12, <1>13

(* The transport a mid-dialog request asks for.                            *)
LEMMA SendTyped ==
    ASSUME RoutingInv, stage \in Behind
    PROVE  SendTransport \in {"none"} \cup Streams
<1>1. Destination(target, routeSet) \in Uris
  BY DialogIs, DestinationTyped
<1> QED
  BY <1>1, DialogIs DEF SendTransport, Affinity, Uris, Streams

(* A mid-dialog request is built on the route set of the dialog.           *)
LEMMA BuildSets ==
    ASSUME RoutingInv, Builds
    PROVE  RoutingShapes' /\ DialogKept' /\ BuiltNow' /\ Journey' /\ message'.on = "none"
<1>1. stage = "established" /\ stage \in Behind /\ stage' = "built" /\ stage' \in Behind
  BY DEF Builds, Behind
<1>2. /\ routeSet \in Seq(Uris) /\ target \in Uris /\ open \in BOOLEAN
      /\ (open => flow \in Streams) /\ listeners \in ListenerSets
  BY <1>1, DialogIs
<1>3. GetVia(SendTransport) \in Transports
  BY <1>1, <1>2, SendTyped, ViaTyped DEF Transports
<1>4. /\ message' = [NoMessage EXCEPT !.kind = "dialog", !.via = GetVia(SendTransport),
                         !.uri = target, !.routes = routeSet, !.flow = IF open THEN flow ELSE "none"]
      /\ UNCHANGED <<role, proxies, listeners, outbound, flow, open, dialogVars>>
  BY DEF Builds
<1>5. message' \in Messages
  BY <1>2, <1>3, <1>4, ContactsTyped DEF Messages
<1>6. /\ message'.kind = "dialog" /\ message'.uri = target /\ message'.routes = routeSet
      /\ message'.on = "none" /\ message'.visited = <<>> /\ message'.via = GetVia(SendTransport)
      /\ (open => message'.flow = flow)
  BY <1>4 DEF NoMessage
<1>7. GetVia(SendTransport)' = GetVia(SendTransport)
  BY <1>4 DEF GetVia, SendTransport, Addrs, Affinity, Destination, dialogVars
<1>8. BuiltNow'
  BY <1>1, <1>4, <1>6, <1>7 DEF BuiltNow, dialogVars
<1>9. Journey'
  BY <1>1, <1>6 DEF Journey
<1>10. RoutingShapes' /\ DialogKept'
  BY <1>1, <1>2, <1>4, <1>5, <1>6, RequestMoves DEF dialogVars
<1> QED
  BY <1>6, <1>8, <1>9, <1>10

(* The lookup and the Via agree: both decide on the affinity, the outbound *)
(* proxy and the first URI, and the lookup dials what the Via names.       *)
LEMMA ViaIsTheTransport ==
    ASSUME RoutingInv, stage \in Behind, listeners[1] = "udp",
           NEW on, on = (IF Affinity THEN flow ELSE Lookup(Destination(target, routeSet))),
           on \in Range(listeners)
    PROVE  GetVia(SendTransport) = on
<1>1. SendTransport \in {"none"} \cup Streams
  BY SendTyped
<1>2. \A t \in Range(listeners) : t \in Range(Addrs)
  <2> DEFINE Named == {"udp", "tcp", "tls", "none"}
             more == IF open THEN <<flow>> ELSE <<>>
  <2>1. <<"udp">> \in Seq(Named) /\ <<"udp", "tcp", "tls">> \in Seq(Named)
        /\ <<"tcp", "udp">> \in Seq(Named)
    OBVIOUS
  <2>2. listeners \in ListenerSets /\ flow \in Named
    BY DialogIs DEF Streams
  <2>3. listeners \in Seq(Named)
    <3> HIDE DEF Named
    <3> QED
      BY <2>1, <2>2 DEF ListenerSets
  <2>4. more \in Seq(Named)
    <3> HIDE DEF Named
    <3>1. <<flow>> \in Seq(Named) /\ <<>> \in Seq(Named)
      BY <2>2
    <3> QED
      BY <3>1
  <2>5. listeners \in Seq(Named) /\ more \in Seq(Named)
    BY <2>3, <2>4
  <2> HIDE DEF Named, more
  <2>6. /\ listeners \o more \in Seq(Named) /\ Len(listeners \o more) >= Len(listeners)
        /\ \A i \in 1 .. Len(listeners) : (listeners \o more)[i] = listeners[i]
    BY <2>5
  <2>7. Addrs = listeners \o more
    BY DEF Addrs, more
  <2>8. \A i \in 1 .. Len(listeners) : listeners[i] \in Range(Addrs)
    BY <2>5, <2>6, <2>7 DEF Range
  <2>9. DOMAIN listeners = 1 .. Len(listeners)
    BY <2>5
  <2> QED
    BY <2>8, <2>9 DEF Range
<1>3. CASE SendTransport \in Streams
  <2>1. on = SendTransport
    BY <1>3 DEF SendTransport, Lookup, Streams
  <2> QED
    BY <1>2, <1>3, <2>1 DEF GetVia, Streams
<1>4. CASE SendTransport = "none"
  <2>1. flow # "none" \/ ~open
    BY DialogIs DEF Streams
  <2>2. on = "udp"
    BY <1>4, <2>1 DEF SendTransport, Affinity, Lookup, Streams
  <2> QED
    BY <1>4, <2>2 DEF GetVia
<1> QED
  BY <1>1, <1>3, <1>4

(* It is sent as it was built: the two decisions on its transport agree.   *)
LEMMA SendSets ==
    ASSUME RoutingInv, Sends
    PROVE  RoutingShapes' /\ DialogKept' /\ Journey' /\ TransportIsKept' /\ stage' = "travels"
<1> DEFINE first == Destination(message.uri, message.routes)
           on    == IF Affinity THEN flow ELSE Lookup(first)
<1>1. stage = "built" /\ stage \in Behind /\ stage' = "travels" /\ stage' \in Behind
  BY DEF Sends, Behind
<1>2. /\ proxies \in Seq(Uris) /\ Len(proxies) \in Nat
      /\ \A i \in 1 .. Len(proxies) : proxies[i].node = i
      /\ routeSet = proxies /\ target \in Uris /\ target.node = Peer /\ open \in BOOLEAN
      /\ (open => flow \in Streams) /\ outbound \in {"none", "tcp"}
  BY <1>1, DialogIs
<1>3. /\ message \in Messages /\ message.kind = "dialog" /\ message.uri = target
      /\ message.routes = routeSet /\ message.visited = <<>>
      /\ message.flow = (IF open THEN flow ELSE "none") => message.via = GetVia(SendTransport)
  BY <1>1 DEF RoutingInv, RoutingShapes, BuiltNow
<1>4. /\ message' = [message EXCEPT !.on = on, !.at = first.node]
      /\ UNCHANGED <<role, proxies, listeners, outbound, flow, open, dialogVars>>
  BY DEF Sends
<1>5. first \in Uris
  BY <1>2, <1>3, DestinationTyped
<1>6. on \in {"udp"} \cup Streams
  BY <1>2, <1>5, LookupTyped DEF Affinity
<1>7. first.node = IF proxies = <<>> THEN Peer ELSE 1
  BY <1>2, <1>3 DEF Destination
<1>8. first = Destination(target, routeSet)
  BY <1>3
<1>9. Affinity' = Affinity
  BY <1>4 DEF Affinity, dialogVars
<1>10. on \in Transports /\ first.node \in Nat
  BY <1>5, <1>6 DEF Transports, Uris
<1> HIDE DEF first
<1>11. Affinity => on = flow
  OBVIOUS
<1>12. ~Affinity => on = Lookup(first)
  OBVIOUS
<1>13. on \in Range(listeners) /\ listeners[1] = "udp" => GetVia(SendTransport) = on
  BY <1>1, <1>8, ViaIsTheTransport
<1> HIDE DEF on
<1>14. message' \in Messages
  BY <1>3, <1>4, <1>10 DEF Messages
<1>15. /\ message'.kind = "dialog" /\ message'.uri = target /\ message'.routes = routeSet
       /\ message'.visited = <<>> /\ message'.at = first.node /\ message'.on = on
       /\ message'.via = message.via /\ message'.flow = message.flow
  BY <1>3, <1>4 DEF Messages
<1>16. Journey'
  BY <1>1, <1>2, <1>4, <1>7, <1>15, SetsOut
<1>17. RoutingShapes' /\ DialogKept'
  BY <1>1, <1>2, <1>4, <1>14, <1>15, RequestMoves
<1>18. TransportSticks'
  <2>1. SUFFICES ASSUME routeSet = <<>>, outbound = "none", role = "client", flow \in Streams,
                        target.scheme = "sip"
                 PROVE  on \in Streams
    BY <1>4, <1>15 DEF TransportSticks, Direct, dialogVars
  <2>2. target.transport \in Streams
    BY <1>1, <2>1 DEF RoutingInv, DialogKept
  <2>3. first = target
    BY <1>8, <2>1 DEF Destination
  <2> QED
    BY <1>11, <1>12, <2>1, <2>2, <2>3 DEF Lookup
<1>19. ViaNamesTransport'
  BY <1>3, <1>4, <1>13, <1>15 DEF ViaNamesTransport
<1> QED
  BY <1>1, <1>16, <1>17, <1>18, <1>19 DEF TransportIsKept

(* Once sent, a request keeps the two decisions of its transport.          *)
LEMMA DecisionsStay ==
    ASSUME RoutingInv, UNCHANGED <<role, listeners, outbound, flow, open, dialogVars>>,
           message'.kind = message.kind, message'.on = message.on, message'.via = message.via,
           message'.flow = message.flow
    PROVE  TransportIsKept'
BY DEF RoutingInv, TransportIsKept, TransportSticks, ViaNamesTransport, Direct, dialogVars

(* Nor is there one before.                                                *)
LEMMA NoDecision ==
    ASSUME listeners' \in ListenerSets, message'.kind # "dialog" \/ message'.on = "none"
    PROVE  TransportIsKept'
BY DEF TransportIsKept, TransportSticks, ViaNamesTransport, Direct, Range, ListenerSets

(* No proxy has the number of the peer.                                    *)
LEMMA PeerIsBeyond ==
    ASSUME NEW n \in 0 .. Peer - 1
    PROVE  n \in Nat /\ n < Peer /\ \A k \in 1 .. n : k # Peer
BY DEF Peer

(* What is left of the routes when an end of them is taken off.            *)
LEMMA Ends ==
    ASSUME NEW s \in Seq(Uris), s # <<>>, NEW u \in Uris
    PROVE  /\ Head(s) \in Uris /\ Head(s) = s[1] /\ Last(s) \in Uris /\ Last(s) = s[Len(s)]
           /\ Tail(s) \in Seq(Uris) /\ Len(Tail(s)) = Len(s) - 1
           /\ \A i \in 1 .. Len(s) - 1 : Tail(s)[i] = s[i + 1]
           /\ Front(s) \in Seq(Uris) /\ Len(Front(s)) = Len(s) - 1
           /\ \A i \in 1 .. Len(s) - 1 : Front(s)[i] = s[i]
           /\ Append(Tail(s), u) \in Seq(Uris) /\ Len(Append(Tail(s), u)) = Len(s)
           /\ \A i \in 1 .. Len(s) - 1 : Append(Tail(s), u)[i] = s[i + 1]
           /\ Append(Tail(s), u)[Len(s)] = u
<1>1. Len(s) \in Nat /\ Len(s) > 0
  OBVIOUS
<1>2. Front(s) \in Seq(Uris) /\ Len(Front(s)) = Len(s) - 1
      /\ \A i \in 1 .. Len(s) - 1 : Front(s)[i] = s[i]
  <2>1. \A i \in 1 .. Len(s) - 1 : s[i] \in Uris
    BY <1>1
  <2>2. Front(s) = [i \in 1 .. Len(s) - 1 |-> s[i]]
    BY <1>1 DEF Front
  <2> QED
    BY <1>1, <2>1, <2>2
<1>3. Last(s) \in Uris /\ Last(s) = s[Len(s)]
  BY <1>1 DEF Last
<1>4. Tail(s) \in Seq(Uris) /\ Len(Tail(s)) = Len(s) - 1
      /\ \A i \in 1 .. Len(s) - 1 : Tail(s)[i] = s[i + 1]
  BY <1>1
<1>5. /\ Append(Tail(s), u) \in Seq(Uris) /\ Len(Append(Tail(s), u)) = Len(s)
      /\ \A i \in 1 .. Len(s) - 1 : Append(Tail(s), u)[i] = s[i + 1]
      /\ Append(Tail(s), u)[Len(s)] = u
  BY <1>1, <1>4
<1> QED
  BY <1>1, <1>2, <1>3, <1>4, <1>5

(* A hop of the path: a strict router hands the next URI of the routes on, *)
(* a loose one takes its own off, and both leave the rest of the path.     *)
LEMMA HopMoves ==
    ASSUME RoutingInv, stage = "travels", message.at \in 1 .. Len(proxies),
           UNCHANGED <<role, proxies, listeners, outbound, flow, open, dialogVars>>,
           NEW uri \in Uris, NEW routes \in Seq(Uris), NEW next \in Uris,
           stage' = stage,
           message' = [message EXCEPT !.uri = uri, !.routes = routes, !.at = next.node,
                                      !.visited = Append(@, message.at)]
    PROVE  /\ RoutingShapes' /\ DialogKept' /\ message'.kind = message.kind
           /\ message'.on = message.on /\ message'.via = message.via /\ message'.flow = message.flow
           /\ message'.uri = uri /\ message'.routes = routes /\ message'.at = next.node
           /\ Len(message'.visited) = Len(message.visited) + 1
           /\ \A i \in 1 .. Len(message.visited) : message'.visited[i] = message.visited[i]
           /\ message'.visited[Len(message.visited) + 1] = message.at
<1>1. message \in Messages /\ stage \in Behind /\ stage' \in Behind /\ stage' # "established"
      /\ message.kind \in {"ACK", "dialog"}
  BY DEF RoutingInv, RoutingShapes, Behind, DialogKept
<1>2. message.visited \in Seq(Nat) /\ next.node \in Nat /\ message.at \in Nat
  BY <1>1 DEF Messages, Uris
<1>3. Append(message.visited, message.at) \in Seq(Nat)
  BY <1>2
<1>4. message' \in Messages
  BY <1>1, <1>2, <1>3 DEF Messages
<1>5. /\ message'.kind = message.kind
      /\ message'.on = message.on /\ message'.via = message.via /\ message'.flow = message.flow
      /\ message'.uri = uri /\ message'.routes = routes /\ message'.at = next.node
      /\ message'.visited = Append(message.visited, message.at)
  BY <1>1 DEF Messages
<1>6. open' \in BOOLEAN /\ (open' => open)
  BY DEF RoutingInv, RoutingShapes, RoutingTypeOK
<1>7. RoutingShapes' /\ DialogKept'
  BY <1>1, <1>4, <1>5, <1>6, RequestMoves
<1> QED
  BY <1>2, <1>5, <1>7

(* Where a hop of the path lands: at the next proxy, which sees itself in  *)
(* the request line or at the head of the routes, or at the peer.          *)
LEMMA HopLands ==
    ASSUME RoutingInv, stage = "travels", message.at \in 1 .. Len(proxies),
           UNCHANGED <<role, proxies, listeners, outbound, flow, open, dialogVars>>,
           NEW uri \in Uris, NEW routes \in Seq(Uris), NEW next \in Uris,
           stage' = stage,
           message' = [message EXCEPT !.uri = uri, !.routes = routes, !.at = next.node,
                                      !.visited = Append(@, message.at)],
           NearestIsLoose =>
              \/ /\ Remaining = 0 /\ next.node = Peer /\ uri.node = Peer
              \/ /\ Remaining > 0 /\ next.node = message.at + 1 /\ Len(routes) = Remaining
                 /\ \/ /\ proxies[message.at + 1].lr /\ uri.node = Peer
                       /\ \A i \in 1 .. Remaining : routes[i] = proxies[message.at + i]
                    \/ /\ uri = proxies[message.at + 1]
                       /\ \A i \in 1 .. Remaining - 1 : routes[i] = proxies[message.at + 1 + i]
                       /\ routes[Remaining].node = Peer
    PROVE  RoutingShapes' /\ DialogKept' /\ Journey' /\ TransportIsKept' /\ stage' = "travels"
<1>1. /\ RoutingShapes' /\ DialogKept' /\ message'.kind = message.kind
      /\ message'.on = message.on /\ message'.via = message.via /\ message'.flow = message.flow
      /\ message'.uri = uri /\ message'.routes = routes /\ message'.at = next.node
      /\ Len(message'.visited) = Len(message.visited) + 1
      /\ \A i \in 1 .. Len(message.visited) : message'.visited[i] = message.visited[i]
      /\ message'.visited[Len(message.visited) + 1] = message.at
  BY HopMoves
<1>2. TransportIsKept'
  BY <1>1, DecisionsStay
<1>3. /\ proxies \in Seq(Uris) /\ Len(proxies) \in 0 .. Peer - 1 /\ message.at \in Nat
      /\ message.visited \in Seq(Nat) /\ stage \in Behind /\ message.kind \in {"ACK", "dialog"}
  BY DialogIs DEF RoutingInv, RoutingShapes, DialogKept, Behind, Messages
<1>4. NearestIsLoose' = NearestIsLoose
  BY DEF NearestIsLoose
<1>5. CASE ~NearestIsLoose
  BY <1>1, <1>2, <1>4, <1>5 DEF Journey
<1>6. CASE NearestIsLoose
  <2>0. message.at # Peer
    BY <1>3, PeerIsBeyond
  <2>1. /\ \A i \in 1 .. Len(message.visited) : message.visited[i] = i
        /\ Len(message.visited) = message.at - 1
    BY <1>3, <1>6, <2>0 DEF RoutingInv, Journey, AtProxy, AtPeer
  <2>2. /\ \A i \in 1 .. Len(message'.visited) : message'.visited[i] = i
        /\ Len(message'.visited) = message.at
    BY <1>1, <1>3, <2>1
  <2>3. CASE Remaining = 0 /\ next.node = Peer /\ uri.node = Peer
    BY <1>1, <1>2, <1>3, <2>2, <2>3 DEF Journey, AtPeer, Remaining
  <2>4. CASE Remaining > 0 /\ next.node = message.at + 1 /\ Len(routes) = Remaining
    <3>0. Len(proxies) \in Nat
      BY <1>3 DEF Peer
    <3>1. /\ Remaining' = Remaining - 1 /\ message'.at \in 1 .. Len(proxies)
          /\ message'.at = message.at + 1 /\ Len(routes) = Remaining' + 1
      BY <1>1, <1>3, <2>4, <3>0 DEF Remaining
    <3>2. CASE /\ proxies[message.at + 1].lr /\ uri.node = Peer
               /\ \A i \in 1 .. Remaining : routes[i] = proxies[message.at + i]
      <4>1. NearLoose'
        BY <1>1, <1>3, <3>1, <3>2 DEF NearLoose, Remaining
      <4> QED
        BY <1>1, <1>2, <2>2, <3>1, <4>1 DEF Journey, AtProxy
    <3>3. CASE /\ uri = proxies[message.at + 1]
               /\ \A i \in 1 .. Remaining - 1 : routes[i] = proxies[message.at + 1 + i]
               /\ routes[Remaining].node = Peer
      <4>1. NearStrict'
        BY <1>1, <1>3, <3>1, <3>3 DEF NearStrict, Remaining
      <4> QED
        BY <1>1, <1>2, <2>2, <3>1, <4>1 DEF Journey, AtProxy
    <3> QED
      BY <1>3, <1>6, <2>4, <3>2, <3>3 DEF Remaining, Peer
  <2> QED
    BY <1>6, <2>3, <2>4
<1> QED
  BY <1>5, <1>6

(* A proxy takes its own route off and sends the request on.               *)
LEMMA ForwardSets ==
    ASSUME RoutingInv, Forward
    PROVE  /\ RoutingShapes' /\ DialogKept' /\ Journey' /\ TransportIsKept'
           /\ stage' \in {"travels", "lost"}
<1> DEFINE p == message.at
           routes == message.routes
<1>1. /\ stage = "travels" /\ stage \in Behind /\ p \in DOMAIN proxies
      /\ UNCHANGED <<role, proxies, listeners, outbound, flow, open, dialogVars>>
  BY DEF Forward, Behind
<1>2. proxies \in Seq(Uris) /\ Len(proxies) \in 0 .. Peer - 1
  BY <1>1, DialogIs
<1>3. /\ proxies \in Seq(Uris) /\ Len(proxies) \in Nat /\ Len(proxies) < Peer
      /\ \A i \in 1 .. Len(proxies) : proxies[i].node = i
  BY <1>1, <1>2, DialogIs, PeerIsBeyond
<1>4. /\ message \in Messages /\ routes \in Seq(Uris)
      /\ message.uri \in Uris /\ message.kind \in {"ACK", "dialog"}
  BY <1>1 DEF RoutingInv, RoutingShapes, DialogKept, Messages, Behind
<1>5. p \in 1 .. Len(proxies) /\ p # Peer
  BY <1>1, <1>3, <1>2, PeerIsBeyond
<1>6. /\ p \in 1 .. Len(proxies) /\ p # Peer /\ message \in Messages /\ routes \in Seq(Uris)
      /\ message.uri \in Uris /\ message.kind \in {"ACK", "dialog"}
  BY <1>4, <1>5
<1>7. NearestIsLoose => AtProxy
  BY <1>1, <1>6 DEF RoutingInv, Journey, AtPeer
<1>8. NearestIsLoose => Len(routes) = Remaining + 1 /\ Remaining \in Nat /\ routes # <<>>
  BY <1>3, <1>6, <1>7 DEF AtProxy, Remaining
<1>9. CASE routes = <<>>
  <2>1. ~NearestIsLoose /\ stage' = "lost" /\ UNCHANGED message
    BY <1>8, <1>9 DEF Forward
  <2>2. RoutingShapes' /\ DialogKept'
    BY <1>1, <1>6, <2>1, RequestMoves DEF Behind, RoutingInv, RoutingShapes, RoutingTypeOK
  <2>3. TransportIsKept'
    BY <1>1, <2>1, DecisionsStay
  <2> QED
    BY <1>1, <2>1, <2>2, <2>3 DEF Journey, NearestIsLoose
<1>10. CASE routes # <<>> /\ Strict(p)
  <2> DEFINE first == Head(routes)
             rest  == Tail(routes)
  <2>1. /\ first \in Uris /\ first = routes[1] /\ rest \in Seq(Uris) /\ Len(rest) = Len(routes) - 1
        /\ \A i \in 1 .. Len(routes) - 1 : rest[i] = routes[i + 1]
    BY <1>6, <1>10, Ends
  <2>2. /\ stage' = stage
        /\ message' = [message EXCEPT !.uri = first, !.routes = rest,
                           !.at = first.node, !.visited = Append(@, message.at)]
    BY <1>10 DEF Forward, Passes, Promoted
  <2> HIDE DEF first, rest
  <2>3. ASSUME NearestIsLoose
        PROVE  \/ Remaining = 0 /\ first.node = Peer
               \/ /\ Remaining > 0 /\ first.node = p + 1 /\ Len(rest) = Remaining
                  /\ first = proxies[p + 1]
                  /\ \A i \in 1 .. Remaining - 1 : rest[i] = proxies[p + 1 + i]
                  /\ rest[Remaining].node = Peer
    <3>0. /\ Remaining \in Nat /\ Len(routes) = Remaining + 1 /\ Len(rest) = Remaining
          /\ Remaining = Len(proxies) - p /\ p \in Nat
      BY <1>3, <1>6, <1>8, <2>1, <2>3 DEF Remaining
    <3>1. /\ \A i \in 1 .. Remaining : routes[i] = proxies[p + i]
          /\ routes[Remaining + 1].node = Peer
      BY <1>7, <1>10, <2>3 DEF AtProxy, NearLoose, NearStrict, Strict
    <3> HIDE DEF p, routes
    <3>2. CASE Remaining = 0
      BY <2>1, <3>1, <3>2
    <3>3. CASE Remaining > 0
      <4>1. 1 \in 1 .. Remaining /\ p + 1 \in 1 .. Len(proxies)
        BY <1>3, <3>0, <3>3
      <4>2. first = proxies[p + 1] /\ first.node = p + 1
        BY <1>3, <2>1, <3>1, <4>1
      <4>3. ASSUME NEW i \in 1 .. Remaining - 1
            PROVE  rest[i] = proxies[p + 1 + i]
        <5>1. i + 1 \in 1 .. Remaining /\ rest[i] = routes[i + 1]
          BY <2>1, <3>0, <4>3
        <5>2. p + (i + 1) = p + 1 + i
          BY <3>0
        <5> QED
          BY <3>1, <5>1, <5>2
      <4>4. rest[Remaining].node = Peer
        <5>1. Remaining \in 1 .. Len(routes) - 1
          BY <3>0, <3>3
        <5> QED
          BY <2>1, <3>1, <5>1
      <4> QED
        BY <3>0, <3>3, <4>2, <4>3, <4>4
    <3> QED
      BY <3>0, <3>2, <3>3
  <2> HIDE DEF p, routes
  <2>4. message.at \in 1 .. Len(proxies) /\ message.at = p
    BY <1>6 DEF p
  <2> QED
    BY <1>1, <2>1, <2>2, <2>3, <2>4, HopLands
<1>11. CASE routes # <<>> /\ ~Strict(p)
  <2> DEFINE m     == Popped(p)
             after == Rewritten(m)
             strictNext == m.routes # <<>> /\ ~Head(m.routes).lr
             next  == IF strictNext THEN Head(m.routes) ELSE Destination(m.uri, m.routes)
  <2>1. /\ stage' = stage
        /\ message' = [message EXCEPT !.uri = after.uri, !.routes = after.routes,
                           !.at = next.node, !.visited = Append(@, message.at)]
    BY <1>11 DEF Forward, Passes
  <2>2. /\ m.uri \in Uris /\ m.routes \in Seq(Uris)
        /\ Len(m.routes) = Len(routes) - 1
    BY <1>6, <1>11, Ends DEF Popped
  <2>3. ASSUME NearestIsLoose
        PROVE  m.uri.node = Peer /\ \A i \in 1 .. Remaining : m.routes[i] = proxies[p + i]
    <3>1. CASE message.uri.node = p
      <4>1. NearStrict
        BY <1>6, <1>7, <2>3, <3>1 DEF AtProxy, NearLoose
      <4>2. m.uri = Last(routes) /\ m.routes = Front(routes)
        BY <3>1 DEF Popped
      <4>3. m.uri = routes[Remaining + 1] /\ \A i \in 1 .. Remaining : m.routes[i] = routes[i]
        BY <1>6, <1>8, <1>11, <2>3, <4>2, Ends
      <4> QED
        BY <4>1, <4>3 DEF NearStrict
    <3>2. CASE message.uri.node # p
      <4>1. NearLoose
        BY <1>3, <1>6, <1>7, <2>3, <3>2 DEF AtProxy, NearStrict
      <4>2. m.uri = message.uri /\ m.routes = Tail(routes)
        BY <3>2 DEF Popped
      <4>3. \A i \in 1 .. Remaining : m.routes[i] = routes[i + 1]
        BY <1>6, <1>8, <1>11, <2>3, <4>2, Ends
      <4>4. ASSUME NEW i \in 1 .. Remaining PROVE routes[i + 1] = proxies[p + i]
        <5>1. i \in Nat /\ i + 1 \in 1 .. Remaining + 1 /\ p \in Nat
          BY <1>3, <1>6, <1>8, <2>3
        <5>2. routes[i + 1] = proxies[p + (i + 1) - 1]
          BY <4>1, <5>1 DEF NearLoose
        <5>3. p + (i + 1) - 1 = p + i
          <6> HIDE DEF p
          <6> QED
            BY <5>1
        <5> QED
          BY <5>2, <5>3
      <4> QED
        BY <4>1, <4>2, <4>3, <4>4 DEF NearLoose
    <3> QED
      BY <3>1, <3>2
  <2> HIDE DEF m
  <2>4. CASE strictNext
    <3>1. /\ Head(m.routes) \in Uris /\ Head(m.routes) = m.routes[1]
          /\ Append(Tail(m.routes), m.uri) \in Seq(Uris)
          /\ Len(Append(Tail(m.routes), m.uri)) = Len(m.routes)
          /\ \A i \in 1 .. Len(m.routes) - 1 : Append(Tail(m.routes), m.uri)[i] = m.routes[i + 1]
          /\ Append(Tail(m.routes), m.uri)[Len(m.routes)] = m.uri
      BY <2>2, <2>4, Ends
    <3>2. /\ after.uri = Head(m.routes) /\ after.routes = Append(Tail(m.routes), m.uri)
          /\ next = Head(m.routes)
      BY <2>4 DEF Rewritten
    <3>3. ASSUME NearestIsLoose
          PROVE  /\ Remaining > 0 /\ next.node = p + 1 /\ Len(after.routes) = Remaining
                 /\ after.uri = proxies[p + 1]
                 /\ \A i \in 1 .. Remaining - 1 : after.routes[i] = proxies[p + 1 + i]
                 /\ after.routes[Remaining].node = Peer
      <4>1. Len(m.routes) = Remaining /\ Remaining \in Nat /\ Remaining > 0
        BY <1>8, <2>2, <2>4, <3>3
      <4>2. next = proxies[p + 1] /\ after.uri = proxies[p + 1] /\ p + 1 \in 1 .. Len(proxies)
        BY <1>3, <1>6, <2>3, <3>1, <3>2, <3>3, <4>1 DEF Remaining
      <4>3. \A i \in 1 .. Remaining - 1 : after.routes[i] = proxies[p + 1 + i]
        <5>1. TAKE i \in 1 .. Remaining - 1
        <5>2. i + 1 \in 1 .. Remaining /\ after.routes[i] = m.routes[i + 1]
          BY <3>1, <3>2, <4>1
        <5>3. m.routes[i + 1] = proxies[p + (i + 1)]
          BY <2>3, <3>3, <5>2
        <5>4. i \in Nat /\ p \in Nat
          BY <1>3, <1>6, <4>1
        <5>5. p + (i + 1) = p + 1 + i
          <6> HIDE DEF p
          <6> QED
            BY <5>4
        <5> QED
          BY <5>2, <5>3, <5>5
      <4> QED
        BY <1>3, <2>3, <3>1, <3>2, <3>3, <4>1, <4>2, <4>3
    <3>4. after.uri \in Uris /\ after.routes \in Seq(Uris) /\ next \in Uris
      BY <3>1, <3>2
    <3> HIDE DEF after, next
    <3> HIDE DEF p, routes
    <3>5. message.at \in 1 .. Len(proxies) /\ message.at = p
      BY <1>6 DEF p
    <3> QED
      BY <1>1, <2>1, <3>3, <3>4, <3>5, HopLands
  <2>5. CASE ~strictNext
    <3>1. after = m /\ next = Destination(m.uri, m.routes)
      BY <2>5 DEF Rewritten
    <3>2. after.uri \in Uris /\ after.routes \in Seq(Uris) /\ next \in Uris
      BY <2>2, <3>1, DestinationTyped
    <3>3. ASSUME NearestIsLoose
          PROVE  \/ Remaining = 0 /\ next.node = Peer /\ after.uri.node = Peer
                 \/ /\ Remaining > 0 /\ next.node = p + 1 /\ Len(after.routes) = Remaining
                    /\ proxies[p + 1].lr /\ after.uri.node = Peer
                    /\ \A i \in 1 .. Remaining : after.routes[i] = proxies[p + i]
      <4>1. Len(m.routes) = Remaining /\ Remaining \in Nat
        BY <1>8, <2>2, <3>3
      <4>2. CASE Remaining = 0
        <5>1. next = m.uri
          BY <2>2, <3>1, <4>1, <4>2 DEF Destination
        <5> QED
          BY <2>3, <3>1, <3>3, <4>2, <5>1
      <4>3. CASE Remaining > 0
        <5>1. m.routes # <<>> /\ Head(m.routes) = m.routes[1]
          BY <2>2, <4>1, <4>3
        <5>2. next = m.routes[1] /\ m.routes[1].lr
          BY <2>5, <3>1, <5>1 DEF Destination
        <5>3. m.routes[1] = proxies[p + 1] /\ p + 1 \in 1 .. Len(proxies)
          BY <1>3, <1>6, <2>3, <3>3, <4>1, <4>3 DEF Remaining
        <5> QED
          BY <1>3, <2>3, <3>1, <3>3, <4>1, <4>3, <5>2, <5>3
      <4> QED
        BY <4>1, <4>2, <4>3
    <3> HIDE DEF after, next
    <3> HIDE DEF p, routes
    <3>4. message.at \in 1 .. Len(proxies) /\ message.at = p
      BY <1>6 DEF p
    <3> QED
      BY <1>1, <2>1, <3>2, <3>3, <3>4, HopLands
  <2> QED
    BY <2>4, <2>5
<1> QED
  BY <1>9, <1>10, <1>11

(* The stream may close before the request is sent.                        *)
LEMMA FlowClosesKeeps ==
    ASSUME RoutingInv, FlowCloses
    PROVE  RoutingInv'
<1>1. /\ open /\ stage \in {"established", "built"} /\ open' = FALSE
      /\ UNCHANGED <<role, proxies, listeners, outbound, flow, dialogVars, stage, message>>
      /\ stage \in Behind /\ message \in Messages /\ flow \in Streams
  BY DEF FlowCloses, Behind, RoutingInv, RoutingShapes
<1>2. RoutingShapes' /\ DialogKept'
  BY <1>1, RequestMoves DEF RoutingInv, DialogKept, Behind
<1>3. BuiltNow'
  <2>1. stage = "built" => message.flow # "none"
    BY <1>1 DEF RoutingInv, BuiltNow, Streams
  <2> QED
    BY <1>1, <2>1 DEF RoutingInv, BuiltNow, dialogVars
<1>4. Journey'
  BY <1>1 DEF Journey, RoutingInv, NearestIsLoose
<1>5. TransportIsKept'
  <2>1. message.kind # "dialog" \/ message.on = "none"
    BY <1>1 DEF RoutingInv, DialogKept, BuiltNow
  <2> QED
    BY <1>1, <2>1, NoDecision DEF RoutingInv, RoutingShapes, RoutingTypeOK
<1> QED
  BY <1>2, <1>3, <1>4, <1>5 DEF RoutingInv

(* At the peer the whole path has been visited.                            *)
LEMMA ArrivesKeeps ==
    ASSUME RoutingInv, Arrives
    PROVE  RoutingInv'
<1>1. /\ stage = "travels" /\ stage' = "arrived" /\ message.at = Peer
      /\ UNCHANGED <<role, proxies, listeners, outbound, flow, open, dialogVars, message>>
      /\ stage \in Behind /\ stage' \in Behind /\ message \in Messages /\ open \in BOOLEAN
      /\ message.kind \in {"ACK", "dialog"}
  BY DEF Arrives, Behind, RoutingInv, RoutingShapes, RoutingTypeOK, DialogKept
<1>2. RoutingShapes' /\ DialogKept'
  BY <1>1, RequestMoves
<1>3. NearestIsLoose => AtPeer /\ \A i \in 1 .. Len(message.visited) : message.visited[i] = i
  <2>1. message.at \notin 1 .. Len(proxies)
    BY <1>1, DialogIs, PeerIsBeyond
  <2> QED
    BY <1>1, <2>1 DEF RoutingInv, Journey, AtProxy
<1>4. Journey'
  BY <1>1, <1>3 DEF Journey, NearestIsLoose, AtPeer
<1>5. TransportIsKept'
  BY <1>1, DecisionsStay
<1> QED
  BY <1>1, <1>2, <1>4, <1>5 DEF RoutingInv, BuiltNow

(* The dialog goes on with its next request.                               *)
LEMMA ContinuesKeeps ==
    ASSUME RoutingInv, Continues
    PROVE  RoutingInv'
<1>1. /\ stage = "arrived" /\ stage' = "established" /\ message' = [NoMessage EXCEPT !.uri = target]
      /\ UNCHANGED <<role, proxies, listeners, outbound, flow, open, dialogVars>>
      /\ stage \in Behind /\ stage' \in Behind /\ open \in BOOLEAN /\ listeners \in ListenerSets
  BY DEF Continues, Behind, RoutingInv, RoutingShapes, RoutingTypeOK
<1>2. target \in Uris /\ target.node = Peer
  BY <1>1, DialogIs
<1>3. message' \in Messages /\ message'.kind = "none" /\ message'.uri = target
  BY <1>1, <1>2, ContactsTyped DEF NoMessage, Messages
<1>4. RoutingShapes' /\ DialogKept'
  BY <1>1, <1>2, <1>3, RequestMoves
<1>5. TransportIsKept'
  BY <1>1, <1>3, NoDecision
<1> QED
  BY <1>1, <1>3, <1>4, <1>5 DEF RoutingInv, BuiltNow, Journey

(* Nothing has been sent.                                                  *)
LEMMA RoutingStarts == RoutingInit => RoutingInv
<1> SUFFICES ASSUME RoutingInit PROVE RoutingInv
  OBVIOUS
<1>1. /\ stage = "start" /\ message = NoMessage /\ target = NoUri /\ routeSet = <<>>
      /\ flow = "none" /\ open = FALSE /\ listeners \in ListenerSets
      /\ role \in {"client", "server"} /\ proxies \in Paths /\ outbound \in {"none", "tcp"}
  BY DEF RoutingInit
<1>2. message \in Messages /\ target \in Uris /\ target.node = 0 /\ message.kind = "none"
  BY <1>1, ContactsTyped DEF NoMessage, NoUri, Uri
<1>3. RoutingShapes
  <2>1. open \in BOOLEAN /\ ~open
    BY <1>1
  <2>2. RoutingTypeOK
    BY <1>1, <1>2, <2>1 DEF RoutingTypeOK
  <2>3. routeSet \in Seq(Uris)
    BY <1>1
  <2> QED
    BY <1>2, <2>1, <2>2, <2>3 DEF RoutingShapes
<1>4. DialogKept /\ BuiltNow /\ Journey
  BY <1>1, <1>2 DEF DialogKept, BuiltNow, Journey, Behind
<1>5. TransportIsKept
  BY <1>1, <1>2 DEF TransportIsKept, TransportSticks, ViaNamesTransport, Direct
<1> QED
  BY <1>3, <1>4, <1>5 DEF RoutingInv

(* Every step keeps the invariant.                                         *)
LEMMA RoutingSteps == RoutingInv /\ [RoutingNext]_routingVars => RoutingInv'
<1> SUFFICES ASSUME RoutingInv, [RoutingNext]_routingVars PROVE RoutingInv'
  OBVIOUS
<1>1. ASSUME NEW callee \in Callees, NEW destination \in {"none", "tcp"},
             NEW n \in {0, 1} \cap 0 .. Len(proxies), Invites(callee, SubSeq(proxies, 1, n), destination)
      PROVE  RoutingInv'
  <2>1. /\ RoutingShapes' /\ DialogKept'
        /\ message'.kind = "INVITE" /\ stage' = "invited"
    BY <1>1, InviteSets
  <2>2. TransportIsKept'
    BY <2>1, NoDecision DEF RoutingShapes, RoutingTypeOK
  <2> QED
    BY <2>1, <2>2 DEF RoutingInv, BuiltNow, Journey
<1>2. ASSUME NEW contact \in PeerUris,
             \/ Establishes(contact)
             \/ \E on \in {"udp", "tcp"} : Accepts(contact, on)
      PROVE  RoutingInv'
  <2>1. /\ RoutingShapes' /\ DialogKept'
        /\ message'.kind = "none" /\ stage' = "established"
    BY <1>2, EstablishedSets, AcceptedSets
  <2>2. TransportIsKept'
    BY <2>1, NoDecision DEF RoutingShapes, RoutingTypeOK
  <2> QED
    BY <2>1, <2>2 DEF RoutingInv, BuiltNow, Journey
<1>3. CASE FlowCloses
  BY <1>3, FlowClosesKeeps
<1>4. CASE Acks
  <2>1. RoutingShapes' /\ DialogKept' /\ Journey' /\ message'.kind = "ACK" /\ stage' = "travels"
    BY <1>4, AckSets
  <2>2. TransportIsKept'
    BY <2>1, NoDecision DEF RoutingShapes, RoutingTypeOK
  <2> QED
    BY <2>1, <2>2 DEF RoutingInv, BuiltNow
<1>5. CASE Builds
  <2>1. RoutingShapes' /\ DialogKept' /\ BuiltNow' /\ Journey' /\ message'.on = "none"
    BY <1>5, BuildSets
  <2>2. TransportIsKept'
    BY <2>1, NoDecision DEF RoutingShapes, RoutingTypeOK
  <2> QED
    BY <2>1, <2>2 DEF RoutingInv
<1>6. CASE Sends
  BY <1>6, SendSets DEF RoutingInv, BuiltNow
<1>7. CASE Forward
  BY <1>7, ForwardSets DEF RoutingInv, BuiltNow
<1>8. CASE Arrives
  BY <1>8, ArrivesKeeps
<1>9. CASE Continues
  BY <1>9, ContinuesKeeps
<1>10. CASE UNCHANGED routingVars
  <2> USE <1>10 DEF routingVars, dialogVars
  <2>1. RoutingShapes' /\ DialogKept'
    BY DEF RoutingInv, RoutingShapes, RoutingTypeOK, DialogKept
  <2>2. BuiltNow'
    BY DEF RoutingInv, BuiltNow, GetVia, SendTransport, Addrs, Affinity, Destination
  <2>3. Journey'
    BY DEF RoutingInv, Journey, NearestIsLoose, AtProxy, AtPeer, Remaining, NearLoose, NearStrict
  <2>4. TransportIsKept'
    BY DecisionsStay
  <2> QED
    BY <2>1, <2>2, <2>3, <2>4 DEF RoutingInv
<1> QED
  BY <1>1, <1>2, <1>3, <1>4, <1>5, <1>6, <1>7, <1>8, <1>9, <1>10 DEF RoutingNext

(* The inductive invariant of routing.                                     *)
LEMMA RoutingInvariant == RoutingSpec => []RoutingInv
BY RoutingStarts, RoutingSteps, PTL DEF RoutingSpec

(* Types of the dialog, its connection and the request under way.          *)
THEOREM RoutingTyping == RoutingSpec => []RoutingTypeOK
<1>1. RoutingInv => RoutingTypeOK
  BY DEF RoutingInv, RoutingShapes
<1> QED
  BY <1>1, RoutingInvariant, PTL

(* Whatever the length of the path and the mix of strict and loose routers *)
(* behind a loose nearest proxy, the requests that update_route_set_from_  *)
(* response, make_request and make_ack address pass every proxy that       *)
(* recorded itself, in order, and reach the peer under its own URI.        *)
THEOREM PathIsKept == RoutingSpec => []PathIsRecorded
<1>1. RoutingInv => PathIsRecorded
  <2> SUFFICES ASSUME RoutingInv, message.kind \in {"ACK", "dialog"}, NearestIsLoose
               PROVE  /\ stage # "lost"
                      /\ stage = "arrived" => /\ message.visited = [i \in DOMAIN proxies |-> i]
                                              /\ message.uri.node = Peer
    BY DEF PathIsRecorded
  <2>1. stage # "lost"
    BY DEF RoutingInv, Journey
  <2>2. ASSUME stage = "arrived"
        PROVE  message.visited = [i \in DOMAIN proxies |-> i] /\ message.uri.node = Peer
    <3>1. proxies \in Seq(Uris) /\ message.visited \in Seq(Nat)
      BY <2>2, DialogIs DEF Behind, RoutingInv, RoutingShapes, Messages
    <3>2. /\ message.uri.node = Peer /\ Len(message.visited) = Len(proxies)
          /\ \A i \in 1 .. Len(message.visited) : message.visited[i] = i
      BY <2>2 DEF RoutingInv, Journey, AtPeer
    <3>3. /\ DOMAIN proxies = 1 .. Len(proxies)
          /\ message.visited = [i \in 1 .. Len(message.visited) |-> message.visited[i]]
      BY <3>1
    <3> QED
      BY <3>2, <3>3
  <2> QED
    BY <2>1, <2>2
<1> QED
  BY <1>1, RoutingInvariant, PTL

(* The Via make_request writes and the connection Transaction::send picks  *)
(* name the same transport unless the stream closed in between, and a call *)
(* set up over a stream does not move to UDP.                              *)
THEOREM TransportKept == RoutingSpec => []TransportIsKept
<1>1. RoutingInv => TransportIsKept
  BY DEF RoutingInv
<1> QED
  BY <1>1, RoutingInvariant, PTL

-----------------------------------------------------------------------------
(***************************************************************************)
(* TARGETS                                                                 *)
(*                                                                         *)
(* The inductive invariant.  ResolutionShapes is typing and what each step *)
(* of the lookup finds empty.  Sorted: order_srv_records keeps the records *)
(* apart, and none it has placed has a worse priority than one placed      *)
(* after it or left.  NotYet: no target belongs to a transport still to be *)
(* asked about, and of the one whose targets are being looked up each is   *)
(* of a record placed before those that remain.  UdpAlone: until UDP has   *)
(* been asked about, nothing but UDP targets is there.                     *)
(***************************************************************************)
Places == [transport : {Unstated, "udp", "tcp", "tls", "ws", "wss"}, priority : Nat, no : Nat]

ResolutionShapes ==
    /\ ResolutionTypeOK
    /\ zone \in [Names -> SrvAnswers]
    /\ targets \in Seq(Places)
    /\ hop.transport # Unstated => candidates \in {<<>>, <<hop.transport>>}
    /\ hop.transport = Unstated => candidates # <<hop.transport>>
    /\ step \in {"order", "address"} => candidates # <<>>
    /\ step \in {"asked", "fallback"} => targets = <<>>
    /\ step \notin {"order", "address"} => unordered = {} /\ ordered = <<>>
    /\ step = "address" => unordered = {}

Sorted ==
    /\ \A i, j \in 1 .. Len(ordered) : i < j =>
          ordered[i].priority <= ordered[j].priority /\ ordered[i].no # ordered[j].no
    /\ \A i \in 1 .. Len(ordered) : \A r \in unordered :
          ordered[i].priority <= r.priority /\ ordered[i].no # r.no
    /\ \A q, r \in unordered : q.no = r.no => q = r

NotYet ==
    /\ step \in {"srv", "order", "address"} =>
          \A i \in 1 .. Len(targets) : \A k \in 1 .. Len(candidates) :
             targets[i].transport = candidates[k] => step = "address" /\ k = 1
    /\ step = "address" =>
          \A i \in 1 .. Len(targets) : targets[i].transport = candidates[1] =>
             \A j \in 1 .. Len(ordered) :
                targets[i].priority <= ordered[j].priority /\ targets[i].no # ordered[j].no

UdpAlone ==
    \A i \in 1 .. Len(targets) :
       /\ hop.transport # Unstated => targets[i].transport = hop.transport
       /\ candidates = <<"udp", "tcp">> => targets[i].transport = "udp"

ResolutionInv == ResolutionShapes /\ Sorted /\ NotYet /\ UdpAlone /\ TargetsAreOrdered

(* What an answer becomes: records told apart by their place in it.        *)
LEMMA NumberedRecords ==
    ASSUME NEW answer \in SrvAnswers
    PROVE  /\ Numbered(answer) \subseteq Records
           /\ \A q, r \in Numbered(answer) : q.no = r.no => q = r
<1>1. PICK n \in 0 .. MaxRecords : answer \in [1 .. n -> [priority : Priorities, weight : Weights]]
  BY DEF SrvAnswers
<1>2. DOMAIN answer = 1 .. n /\ n \in Nat /\ MaxRecords \in Nat /\ n <= MaxRecords
  BY <1>1, ResolutionAssumption
<1>3. \A i \in DOMAIN answer : answer[i].priority \in Priorities /\ answer[i].weight \in Weights
                               /\ i \in 1 .. MaxRecords
  BY <1>1, <1>2
<1>4. Numbered(answer) \subseteq Records
  BY <1>3 DEF Numbered, Records
<1>5. \A q, r \in Numbered(answer) : q.no = r.no => q = r
  BY DEF Numbered
<1> QED
  BY <1>4, <1>5

(* The numbers of a record are natural.                                    *)
LEMMA RecordTyped ==
    ASSUME NEW r \in Records
    PROVE  r.priority \in Nat /\ r.no \in Nat
<1>1. r.no \in 1 .. MaxRecords /\ r.priority \in Priorities
  BY DEF Records
<1>2. MaxRecords \in Nat
  BY ResolutionAssumption
<1>3. r.no \in Nat
  BY <1>1, <1>2
<1>4. r.priority \in Nat
  BY <1>1, ResolutionAssumption
<1> QED
  BY <1>3, <1>4

(* No target is known.                                                     *)
LEMMA ResolutionStarts == ResolutionInit => ResolutionInv
<1> SUFFICES ASSUME ResolutionInit PROVE ResolutionInv
  OBVIOUS
<1>1. /\ step = "asked" /\ candidates = <<>> /\ unordered = {} /\ ordered = <<>> /\ targets = <<>>
  BY DEF ResolutionInit
<1>2. hop \in [host : {"domain", "ip", "invalid"}, port : BOOLEAN,
               transport : {Unstated, "udp", "tcp", "tls", "ws", "wss"}]
  BY DEF ResolutionInit
<1>3. zone \in [Names -> SrvAnswers]
  <2>1. PICK first, second \in SrvAnswers :
           zone = [p \in Names |->
              CASE p = Prefix(Default) -> first [] p = "_sip._tcp" -> second [] OTHER -> <<>>]
    BY DEF ResolutionInit
  <2>2. <<>> \in SrvAnswers
    <3>1. <<>> \in [1 .. 0 -> [priority : Priorities, weight : Weights]]
      OBVIOUS
    <3>2. 0 \in 0 .. MaxRecords
      BY ResolutionAssumption
    <3> QED
      BY <3>1, <3>2 DEF SrvAnswers
  <2>3. ASSUME NEW p \in Names
        PROVE  (CASE p = Prefix(Default) -> first [] p = "_sip._tcp" -> second [] OTHER -> <<>>)
                  \in SrvAnswers
    BY <2>2
  <2> QED
    BY <2>1, <2>3
<1>4. ResolutionShapes
  <2>1. ordered \in Seq(Records) /\ targets \in Seq(Places)
    BY <1>1
  <2>2. ResolutionTypeOK
    BY <1>1, <1>2, <2>1 DEF ResolutionTypeOK
  <2> QED
    BY <1>1, <1>3, <2>1, <2>2 DEF ResolutionShapes
<1>5. Len(ordered) = 0 /\ Len(targets) = 0 /\ DOMAIN targets = {}
  BY <1>1
<1>6. Sorted /\ NotYet /\ UdpAlone /\ TargetsAreOrdered
  BY <1>1, <1>5 DEF Sorted, NotYet, UdpAlone, TargetsAreOrdered
<1> QED
  BY <1>4, <1>6 DEF ResolutionInv

(* What order_srv_records takes next has the least priority left.          *)
LEMMA DrawsKeeps ==
    ASSUME ResolutionInv, Draws
    PROVE  ResolutionInv'
<1>1. PICK r \in Drawn(Group) : ordered' = Append(ordered, r) /\ unordered' = unordered \ {r}
  BY DEF Draws
<1>2. step = "order" /\ UNCHANGED <<hop, zone, step, candidates, targets>>
  BY DEF Draws
<1>3. r \in unordered /\ \A q \in unordered : r.priority <= q.priority
  BY DEF Drawn, Group
<1>4. unordered \subseteq Records /\ ordered \in Seq(Records) /\ r \in Records
  BY <1>3 DEF ResolutionInv, ResolutionShapes, ResolutionTypeOK
<1>5. /\ ordered' \in Seq(Records) /\ Len(ordered') = Len(ordered) + 1
      /\ \A i \in 1 .. Len(ordered) : ordered'[i] = ordered[i]
      /\ ordered'[Len(ordered) + 1] = r /\ Len(ordered) \in Nat
  BY <1>1, <1>4
<1>6. ResolutionTypeOK'
  BY <1>1, <1>2, <1>4, <1>5 DEF ResolutionInv, ResolutionShapes, ResolutionTypeOK
<1>7. ResolutionShapes'
  BY <1>2, <1>6 DEF ResolutionInv, ResolutionShapes
<1>8. Sorted'
  <2>1. ASSUME NEW i \in 1 .. Len(ordered'), NEW j \in 1 .. Len(ordered'), i < j
        PROVE  ordered'[i].priority <= ordered'[j].priority /\ ordered'[i].no # ordered'[j].no
    <3>1. i \in 1 .. Len(ordered) /\ ordered'[i] = ordered[i]
      BY <1>5, <2>1
    <3>2. CASE j \in 1 .. Len(ordered)
      BY <1>5, <2>1, <3>1, <3>2 DEF ResolutionInv, Sorted
    <3>3. CASE j = Len(ordered) + 1
      BY <1>3, <1>5, <3>1, <3>3 DEF ResolutionInv, Sorted
    <3> QED
      BY <1>5, <3>2, <3>3
  <2>2. ASSUME NEW i \in 1 .. Len(ordered'), NEW q \in unordered'
        PROVE  ordered'[i].priority <= q.priority /\ ordered'[i].no # q.no
    <3>1. q \in unordered /\ q # r
      BY <1>1
    <3>2. CASE i \in 1 .. Len(ordered)
      BY <1>5, <3>1, <3>2 DEF ResolutionInv, Sorted
    <3>3. CASE i = Len(ordered) + 1
      BY <1>3, <1>5, <3>1, <3>3 DEF ResolutionInv, Sorted
    <3> QED
      BY <1>5, <3>2, <3>3
  <2>3. \A p, q \in unordered' : p.no = q.no => p = q
    BY <1>1 DEF ResolutionInv, Sorted
  <2> QED
    BY <2>1, <2>2, <2>3 DEF Sorted
<1>9. NotYet' /\ UdpAlone' /\ TargetsAreOrdered'
  BY <1>2 DEF ResolutionInv, NotYet, UdpAlone, TargetsAreOrdered, Secure
<1> QED
  BY <1>7, <1>8, <1>9 DEF ResolutionInv

(* One more target: of the candidate asked about, of the record in turn.   *)
LEMMA LooksUpAddressKeeps ==
    ASSUME ResolutionInv, LooksUpAddress
    PROVE  ResolutionInv'
<1> DEFINE r == ordered[1]
           t == Target(candidates[1], r.priority, r.no)
           n == Len(targets)
<1>1. /\ step = "address" /\ ordered # <<>> /\ ordered' = Tail(ordered)
      /\ targets' \in {targets, Append(targets, t)}
      /\ UNCHANGED <<hop, zone, step, candidates, unordered>>
  BY DEF LooksUpAddress
<1>2. /\ ordered \in Seq(Records) /\ targets \in Seq(Places) /\ n \in Nat
      /\ unordered = {} /\ candidates # <<>>
      /\ candidates \in {<<hop.transport>>, <<"udp", "tcp">>, <<"tcp">>}
      /\ hop.transport \in {Unstated, "udp", "tcp", "tls", "ws", "wss"}
  BY <1>1 DEF ResolutionInv, ResolutionShapes, ResolutionTypeOK
<1>3. /\ r \in Records /\ Len(ordered) \in Nat /\ Len(ordered) > 0
      /\ ordered' \in Seq(Records) /\ Len(ordered') = Len(ordered) - 1
      /\ \A i \in 1 .. Len(ordered) - 1 : ordered'[i] = ordered[i + 1]
  BY <1>1, <1>2
<1>4. r.priority \in Nat /\ r.no \in Nat
  BY <1>3, RecordTyped
<1>5. candidates[1] \in {Unstated, "udp", "tcp", "tls", "ws", "wss"} /\ Len(candidates) \in {1, 2}
  BY <1>2
<1>6. /\ t \in Places /\ t.transport = candidates[1] /\ t.priority = r.priority /\ t.no = r.no
  BY <1>4, <1>5 DEF Target, Places
<1>7. ASSUME NEW j \in 1 .. Len(ordered')
      PROVE  r.priority <= ordered'[j].priority /\ r.no # ordered'[j].no
  <2>1. j + 1 \in 1 .. Len(ordered) /\ 1 \in 1 .. Len(ordered) /\ 1 < j + 1
        /\ ordered'[j] = ordered[j + 1]
    BY <1>3
  <2> QED
    BY <2>1 DEF ResolutionInv, Sorted
<1> HIDE DEF r, t, n
<1>8. \/ targets' = targets
      \/ /\ Len(targets') = n + 1 /\ targets'[n + 1] = t /\ DOMAIN targets' = 1 .. n + 1
         /\ \A i \in 1 .. n : targets'[i] = targets[i]
  BY <1>1, <1>2, <1>6 DEF n
<1>9. targets' \in Seq(Places) /\ DOMAIN targets = 1 .. n
  <2>1. DOMAIN targets = 1 .. n
    BY <1>2 DEF n
  <2>2. t \in Places
    BY <1>6
  <2>3. Append(targets, t) \in Seq(Places)
    BY <1>2, <2>2
  <2> QED
    BY <1>1, <1>2, <2>1, <2>3
<1>10. ResolutionTypeOK'
  BY <1>1, <1>2, <1>3 DEF ResolutionInv, ResolutionShapes, ResolutionTypeOK
<1>11. ResolutionShapes'
  BY <1>1, <1>9, <1>10 DEF ResolutionInv, ResolutionShapes
<1>12. Sorted'
  <2>1. ASSUME NEW i \in 1 .. Len(ordered'), NEW j \in 1 .. Len(ordered'), i < j
        PROVE  ordered'[i].priority <= ordered'[j].priority /\ ordered'[i].no # ordered'[j].no
    <3>1. /\ i + 1 \in 1 .. Len(ordered) /\ j + 1 \in 1 .. Len(ordered) /\ i + 1 < j + 1
          /\ ordered'[i] = ordered[i + 1] /\ ordered'[j] = ordered[j + 1]
      BY <1>3, <2>1
    <3> QED
      BY <3>1 DEF ResolutionInv, Sorted
  <2> QED
    BY <1>1, <1>2, <2>1 DEF Sorted
<1>13. ASSUME NEW i \in 1 .. n, targets[i].transport = candidates[1]
       PROVE  targets[i].priority <= r.priority /\ targets[i].no # r.no
  <2>1. 1 \in 1 .. Len(ordered)
    BY <1>3
  <2> QED
    BY <1>1, <1>13, <2>1 DEF ResolutionInv, NotYet, r, n
<1>14. ASSUME NEW i \in 1 .. n, targets[i].transport = candidates[1], NEW j \in 1 .. Len(ordered')
       PROVE  targets[i].priority <= ordered'[j].priority /\ targets[i].no # ordered'[j].no
  <2>1. j + 1 \in 1 .. Len(ordered) /\ ordered'[j] = ordered[j + 1]
    BY <1>3
  <2> QED
    BY <1>1, <1>14, <2>1 DEF ResolutionInv, NotYet, n
<1>15. \A i \in 1 .. n : \A k \in 1 .. Len(candidates) :
          targets[i].transport = candidates[k] => k = 1
  BY <1>1 DEF ResolutionInv, NotYet, n
<1>16. \A k \in 1 .. Len(candidates) : candidates[1] = candidates[k] => k = 1
  BY <1>2
<1>17. NotYet'
  <2>1. CASE targets' = targets
    BY <1>1, <1>14, <1>15, <2>1 DEF NotYet, n
  <2>2. CASE /\ Len(targets') = n + 1 /\ targets'[n + 1] = t
             /\ \A i \in 1 .. n : targets'[i] = targets[i]
    <3>1. ASSUME NEW i \in 1 .. n + 1, NEW k \in 1 .. Len(candidates),
                 targets'[i].transport = candidates[k]
          PROVE  k = 1
      <4>1. CASE i \in 1 .. n
        BY <1>15, <2>2, <3>1, <4>1
      <4>2. CASE i = n + 1
        BY <1>6, <1>16, <2>2, <3>1, <4>2
      <4> QED
        BY <1>2, <4>1, <4>2
    <3>2. ASSUME NEW i \in 1 .. n + 1, targets'[i].transport = candidates[1],
                 NEW j \in 1 .. Len(ordered')
          PROVE  targets'[i].priority <= ordered'[j].priority /\ targets'[i].no # ordered'[j].no
      <4>1. CASE i \in 1 .. n
        BY <1>14, <2>2, <3>2, <4>1
      <4>2. CASE i = n + 1
        BY <1>6, <1>7, <2>2, <4>2
      <4> QED
        BY <1>2, <4>1, <4>2
    <3> QED
      BY <1>1, <2>2, <3>1, <3>2 DEF NotYet
  <2> QED
    BY <1>8, <2>1, <2>2
<1>18. /\ hop.transport # Unstated => candidates[1] = hop.transport
       /\ candidates = <<"udp", "tcp">> => candidates[1] = "udp"
  BY <1>2 DEF ResolutionInv, ResolutionShapes
<1>19. UdpAlone'
  <2>1. \A i \in 1 .. n :
           /\ hop.transport # Unstated => targets[i].transport = hop.transport
           /\ candidates = <<"udp", "tcp">> => targets[i].transport = "udp"
    BY DEF ResolutionInv, UdpAlone, n
  <2>2. CASE targets' = targets
    BY <1>1, <2>1, <2>2 DEF UdpAlone, n
  <2>3. CASE /\ Len(targets') = n + 1 /\ targets'[n + 1] = t
             /\ \A i \in 1 .. n : targets'[i] = targets[i]
    <3>1. \A i \in 1 .. n + 1 : i \in 1 .. n \/ i = n + 1
      BY <1>2
    <3> QED
      BY <1>1, <1>6, <1>18, <2>1, <2>3, <3>1 DEF UdpAlone
  <2> QED
    BY <1>8, <2>2, <2>3
<1>20. ASSUME candidates[1] = "udp", NEW i \in 1 .. n
       PROVE  targets[i].transport = "udp"
  <2>1. hop.transport = "udp" \/ candidates = <<"udp", "tcp">>
    BY <1>2, <1>20 DEF Unstated
  <2> QED
    BY <2>1 DEF ResolutionInv, UdpAlone, Unstated, n
<1>21. TargetsAreOrdered'
  <2>1. CASE targets' = targets
    BY <1>1, <2>1 DEF ResolutionInv, TargetsAreOrdered, Secure
  <2>2. CASE /\ DOMAIN targets' = 1 .. n + 1 /\ targets'[n + 1] = t
             /\ \A i \in 1 .. n : targets'[i] = targets[i]
    <3>1. ASSUME NEW i \in 1 .. n + 1, NEW j \in 1 .. n + 1, i < j
          PROVE  /\ targets'[i] # targets'[j]
                 /\ targets'[i].transport = targets'[j].transport
                       => targets'[i].priority <= targets'[j].priority
                 /\ targets'[j].transport = "udp" => targets'[i].transport = "udp"
      <4>1. i \in 1 .. n /\ targets'[i] = targets[i]
        BY <1>2, <2>2, <3>1
      <4>2. CASE j \in 1 .. n
        BY <1>9, <2>2, <3>1, <4>1, <4>2 DEF ResolutionInv, TargetsAreOrdered
      <4>3. CASE j = n + 1
        BY <1>6, <1>13, <1>20, <2>2, <4>1, <4>3
      <4> QED
        BY <1>2, <4>2, <4>3
    <3>2. Secure' => \A i \in 1 .. n + 1 : targets'[i].transport = hop'.transport
      <4>1. Secure' => hop.transport # Unstated
        BY <1>1 DEF Secure, Unstated
      <4>2. \A i \in 1 .. n + 1 : i \in 1 .. n \/ i = n + 1
        BY <1>2
      <4>3. hop.transport # Unstated => \A i \in 1 .. n : targets[i].transport = hop.transport
        BY DEF ResolutionInv, UdpAlone, n
      <4> QED
        BY <1>1, <1>6, <1>18, <2>2, <4>1, <4>2, <4>3
    <3> QED
      BY <2>2, <3>1, <3>2 DEF TargetsAreOrdered
  <2> QED
    BY <1>8, <2>1, <2>2
<1> QED
  BY <1>11, <1>12, <1>17, <1>19, <1>21 DEF ResolutionInv

(* A target that needed no SRV record is alone.                            *)
LEMMA LoneTarget ==
    ASSUME ResolutionInv, UNCHANGED hop,
           targets' = <<>> \/ targets' = <<Target(Default, 0, 0)>>,
           step' \in {"srv", "order", "address"} => targets' = <<>>,
           targets' = <<>> \/ UNCHANGED candidates
    PROVE  targets' \in Seq(Places) /\ NotYet' /\ UdpAlone' /\ TargetsAreOrdered'
<1> DEFINE t == Target(Default, 0, 0)
<1>1. hop.transport \in {Unstated, "udp", "tcp", "tls", "ws", "wss"}
  BY DEF ResolutionInv, ResolutionShapes, ResolutionTypeOK
<1>2. t \in Places /\ (hop.transport # Unstated => t.transport = hop.transport)
      /\ (hop.transport = Unstated => t.transport = "udp")
  BY <1>1 DEF Target, Default, Places, Secure, Unstated
<1> HIDE DEF t
<1>3. targets' = <<>> \/ targets' = <<t>>
  BY DEF t
<1>4. CASE targets' = <<>>
  <2>1. targets' \in Seq(Places) /\ Len(targets') = 0 /\ DOMAIN targets' = {}
    BY <1>4
  <2> QED
    BY <2>1 DEF NotYet, UdpAlone, TargetsAreOrdered
<1>5. CASE targets' = <<t>>
  <2>1. /\ targets' \in Seq(Places) /\ Len(targets') = 1 /\ targets'[1] = t
        /\ DOMAIN targets' = 1 .. 1 /\ \A i \in 1 .. 1 : i = 1
    BY <1>2, <1>5
  <2>2. NotYet'
    BY <1>5, <2>1 DEF NotYet
  <2>3. candidates' = candidates
    <3>1. targets' # <<>>
      BY <1>5
    <3> QED
      BY <3>1
  <2>4. hop.transport # Unstated => candidates # <<"udp", "tcp">>
    <3>1. <<hop.transport>> # <<"udp", "tcp">> /\ <<>> # <<"udp", "tcp">>
      OBVIOUS
    <3> QED
      BY <3>1 DEF ResolutionInv, ResolutionShapes
  <2>5. UdpAlone'
    BY <1>2, <2>1, <2>3, <2>4 DEF UdpAlone
  <2>6. Secure' => t.transport = hop.transport
    BY <1>2 DEF Secure, Unstated
  <2>7. TargetsAreOrdered'
    <3>1. ~(1 < 1)
      OBVIOUS
    <3> QED
      BY <2>1, <2>6, <3>1 DEF TargetsAreOrdered
  <2> QED
    BY <2>1, <2>2, <2>5, <2>7
<1> QED
  BY <1>3, <1>4, <1>5

(* What needs no question, and what does.                                  *)
LEMMA AsksKeeps ==
    ASSUME ResolutionInv, Asks
    PROVE  ResolutionInv'
<1>1. step = "asked" /\ targets = <<>> /\ unordered = {} /\ ordered = <<>>
  BY DEF Asks, ResolutionInv, ResolutionShapes
<1>2. UNCHANGED <<hop, zone, unordered, ordered>>
  BY DEF Asks
<1>3. \/ /\ step' \in {"failed", "fallback"} /\ UNCHANGED <<candidates, targets>>
      \/ /\ step' = "done" /\ UNCHANGED candidates /\ targets' = <<Target(Default, 0, 0)>>
      \/ /\ step' = "srv" /\ UNCHANGED targets
         /\ candidates' = IF hop.transport # Unstated THEN <<hop.transport>> ELSE <<"udp", "tcp">>
  BY DEF Asks
<1>4. targets' \in Seq(Places) /\ NotYet' /\ UdpAlone' /\ TargetsAreOrdered'
  BY <1>1, <1>2, <1>3, LoneTarget
<1>5. ResolutionTypeOK'
  BY <1>2, <1>3 DEF ResolutionInv, ResolutionShapes, ResolutionTypeOK
<1>6. step' \in {"asked", "fallback"} => targets' = <<>>
  BY <1>1, <1>3
<1>7. /\ hop'.transport # Unstated => candidates' \in {<<>>, <<hop'.transport>>}
      /\ hop'.transport = Unstated => candidates' # <<hop'.transport>>
  BY <1>2, <1>3 DEF ResolutionInv, ResolutionShapes, Unstated
<1>8. ResolutionShapes'
  BY <1>1, <1>2, <1>3, <1>4, <1>5, <1>6, <1>7 DEF ResolutionInv, ResolutionShapes
<1>9. Sorted'
  BY <1>2 DEF ResolutionInv, Sorted
<1> QED
  BY <1>4, <1>8, <1>9 DEF ResolutionInv

(* The address without SRV records, on the transport of the hop.           *)
LEMMA FallsBackKeeps ==
    ASSUME ResolutionInv, FallsBack
    PROVE  ResolutionInv'
<1>1. /\ step = "fallback" /\ targets = <<>> /\ step' \in {"done", "failed"}
      /\ targets' = <<>> \/ targets' = <<Target(Default, 0, 0)>>
      /\ UNCHANGED <<hop, zone, candidates, unordered, ordered>>
  BY DEF FallsBack, ResolutionInv, ResolutionShapes
<1>2. targets' \in Seq(Places) /\ NotYet' /\ UdpAlone' /\ TargetsAreOrdered'
  BY <1>1, LoneTarget
<1>3. ResolutionTypeOK'
  BY <1>1 DEF ResolutionInv, ResolutionShapes, ResolutionTypeOK
<1>4. ResolutionShapes'
  BY <1>1, <1>2, <1>3 DEF ResolutionInv, ResolutionShapes
<1>5. Sorted'
  BY <1>1 DEF ResolutionInv, Sorted
<1> QED
  BY <1>2, <1>4, <1>5 DEF ResolutionInv

(* The other steps leave the targets alone.  The next candidate is asked   *)
(* about once the one before is done with.                                 *)
LEMMA CandidatesLeft ==
    ASSUME ResolutionInv, candidates # <<>>
    PROVE  /\ Tail(candidates) \in {<<>>, <<"tcp">>}
           /\ hop.transport # Unstated => Tail(candidates) = <<>>
           /\ Tail(candidates) # <<Unstated>>
           /\ \A k \in 1 .. Len(Tail(candidates)) :
                 k + 1 \in 1 .. Len(candidates) /\ Tail(candidates)[k] = candidates[k + 1]
<1>1. candidates \in {<<hop.transport>>, <<"udp", "tcp">>, <<"tcp">>}
      /\ (hop.transport # Unstated => candidates = <<hop.transport>>)
  BY DEF ResolutionInv, ResolutionShapes, ResolutionTypeOK
<1>2. CASE candidates = <<"udp", "tcp">>
  <2>1. Tail(candidates) = <<"tcp">> /\ Len(candidates) = 2 /\ candidates # <<hop.transport>>
    BY <1>2
  <2>2. Len(Tail(candidates)) = 1 /\ Tail(candidates)[1] = candidates[2] /\ \A k \in 1 .. 1 : k = 1
    BY <1>2, <2>1
  <2> QED
    BY <1>1, <2>1, <2>2 DEF Unstated
<1>3. CASE candidates # <<"udp", "tcp">>
  <2>1. Tail(candidates) = <<>>
    <3>1. CASE candidates = <<hop.transport>>
      BY <3>1
    <3>2. CASE candidates = <<"tcp">>
      BY <3>2
    <3> QED
      BY <1>1, <1>3, <3>1, <3>2
  <2> QED
    BY <2>1
<1> QED
  BY <1>2, <1>3

(* The records of one candidate at a time.                                 *)
LEMMA LooksUpSrvKeeps ==
    ASSUME ResolutionInv, LooksUpSrv
    PROVE  ResolutionInv'
<1>1. step = "srv" /\ candidates # <<>> /\ UNCHANGED <<hop, zone, ordered, targets>>
      /\ unordered = {} /\ ordered = <<>> /\ Len(ordered) = 0
  BY DEF LooksUpSrv, ResolutionInv, ResolutionShapes
<1>2. TargetsAreOrdered'
  BY <1>1 DEF ResolutionInv, TargetsAreOrdered, Secure
<1>3. CASE /\ Prefix(candidates[1]) \in Names /\ unordered' = Numbered(zone[Prefix(candidates[1])])
           /\ step' = "order" /\ UNCHANGED candidates
  <2>1. zone[Prefix(candidates[1])] \in SrvAnswers
    BY <1>3 DEF ResolutionInv, ResolutionShapes
  <2>2. unordered' \subseteq Records /\ \A q, r \in unordered' : q.no = r.no => q = r
    BY <1>3, <2>1, NumberedRecords
  <2>3. ResolutionTypeOK'
    BY <1>1, <1>3, <2>2 DEF ResolutionInv, ResolutionShapes, ResolutionTypeOK
  <2>4. ResolutionShapes'
    BY <1>1, <1>3, <2>3 DEF ResolutionInv, ResolutionShapes
  <2>5. Sorted'
    BY <1>1, <2>2 DEF Sorted
  <2>6. NotYet' /\ UdpAlone'
    BY <1>1, <1>3 DEF ResolutionInv, NotYet, UdpAlone
  <2> QED
    BY <1>2, <2>4, <2>5, <2>6 DEF ResolutionInv
<1>4. CASE candidates' = Tail(candidates) /\ UNCHANGED <<unordered, step>>
  <2>1. ResolutionTypeOK'
    BY <1>1, <1>4, CandidatesLeft DEF ResolutionInv, ResolutionShapes, ResolutionTypeOK
  <2>2. ResolutionShapes'
    BY <1>1, <1>4, <2>1, CandidatesLeft DEF ResolutionInv, ResolutionShapes
  <2>3. Sorted'
    BY <1>1, <1>4 DEF ResolutionInv, Sorted
  <2>4. NotYet'
    BY <1>1, <1>4, CandidatesLeft DEF ResolutionInv, NotYet
  <2>5. candidates' # <<"udp", "tcp">>
    BY <1>1, <1>4, CandidatesLeft
  <2>6. UdpAlone'
    BY <1>1, <2>5 DEF ResolutionInv, UdpAlone
  <2> QED
    BY <1>2, <2>2, <2>3, <2>4, <2>6 DEF ResolutionInv
<1> QED
  BY <1>3, <1>4 DEF LooksUpSrv

(* The next candidate is never UDP.                                        *)
LEMMA AddressesDoneKeeps ==
    ASSUME ResolutionInv, AddressesDone
    PROVE  ResolutionInv'
<1>1. /\ step = "address" /\ ordered = <<>> /\ unordered = {} /\ candidates # <<>>
      /\ candidates' = Tail(candidates) /\ step' = "srv"
      /\ UNCHANGED <<hop, zone, unordered, ordered, targets>>
  BY DEF AddressesDone, ResolutionInv, ResolutionShapes
<1>2. ResolutionTypeOK'
  BY <1>1, CandidatesLeft DEF ResolutionInv, ResolutionShapes, ResolutionTypeOK
<1>3. ResolutionShapes'
  BY <1>1, <1>2, CandidatesLeft DEF ResolutionInv, ResolutionShapes
<1>4. Sorted'
  BY <1>1 DEF ResolutionInv, Sorted
<1>5. NotYet'
  <2>1. ASSUME NEW i \in 1 .. Len(targets), NEW k \in 1 .. Len(candidates')
        PROVE  targets[i].transport # candidates'[k]
    <3>1. /\ k + 1 \in 1 .. Len(candidates) /\ candidates'[k] = candidates[k + 1]
          /\ k + 1 # 1
      BY <1>1, CandidatesLeft
    <3> QED
      BY <1>1, <3>1 DEF ResolutionInv, NotYet
  <2> QED
    BY <1>1, <2>1 DEF NotYet
<1>6. candidates' # <<"udp", "tcp">>
  BY <1>1, CandidatesLeft
<1>7. UdpAlone' /\ TargetsAreOrdered'
  BY <1>1, <1>6 DEF ResolutionInv, UdpAlone, TargetsAreOrdered, Secure
<1> QED
  BY <1>3, <1>4, <1>5, <1>7 DEF ResolutionInv

(* Every step keeps the invariant.                                         *)
LEMMA ResolutionSteps == ResolutionInv /\ [ResolutionNext]_resolutionVars => ResolutionInv'
<1> SUFFICES ASSUME ResolutionInv, [ResolutionNext]_resolutionVars PROVE ResolutionInv'
  OBVIOUS
<1>1. CASE LooksUpNone
  <2>1. /\ step = "srv" /\ step' \in {"fallback", "done"} /\ (step' = "fallback" => targets = <<>>)
        /\ unordered = {} /\ ordered = <<>>
        /\ UNCHANGED <<hop, zone, candidates, unordered, ordered, targets>>
    BY <1>1 DEF LooksUpNone, ResolutionInv, ResolutionShapes
  <2>2. ResolutionShapes'
    BY <2>1 DEF ResolutionInv, ResolutionShapes, ResolutionTypeOK
  <2>3. Sorted' /\ NotYet' /\ UdpAlone' /\ TargetsAreOrdered'
    BY <2>1 DEF ResolutionInv, Sorted, NotYet, UdpAlone, TargetsAreOrdered, Secure
  <2> QED
    BY <2>2, <2>3 DEF ResolutionInv
<1>2. CASE OrderDone
  <2>1. /\ step = "order" /\ step' = "address" /\ unordered = {}
        /\ UNCHANGED <<hop, zone, candidates, unordered, ordered, targets>>
    BY <1>2 DEF OrderDone
  <2>2. ResolutionShapes'
    BY <2>1 DEF ResolutionInv, ResolutionShapes, ResolutionTypeOK
  <2>3. candidates # <<>> /\ 1 \in 1 .. Len(candidates)
    BY <2>1 DEF ResolutionInv, ResolutionShapes, ResolutionTypeOK
  <2>4. NotYet'
    BY <2>1, <2>3 DEF ResolutionInv, NotYet
  <2>5. Sorted' /\ UdpAlone' /\ TargetsAreOrdered'
    BY <2>1 DEF ResolutionInv, Sorted, UdpAlone, TargetsAreOrdered, Secure
  <2> QED
    BY <2>2, <2>4, <2>5 DEF ResolutionInv
<1>3. CASE UNCHANGED resolutionVars
  <2> USE <1>3 DEF resolutionVars
  <2>1. ResolutionShapes'
    BY DEF ResolutionInv, ResolutionShapes, ResolutionTypeOK
  <2>2. Sorted' /\ NotYet' /\ UdpAlone' /\ TargetsAreOrdered'
    BY DEF ResolutionInv, Sorted, NotYet, UdpAlone, TargetsAreOrdered, Secure
  <2> QED
    BY <2>1, <2>2 DEF ResolutionInv
<1> QED
  BY <1>1, <1>2, <1>3, AsksKeeps, LooksUpSrvKeeps, DrawsKeeps, LooksUpAddressKeeps,
     AddressesDoneKeeps, FallsBackKeeps DEF ResolutionNext

(* The inductive invariant of resolution.                                  *)
LEMMA ResolutionInvariant == ResolutionSpec => []ResolutionInv
BY ResolutionStarts, ResolutionSteps, PTL DEF ResolutionSpec

(* Types of the lookup's state.                                            *)
THEOREM ResolutionTyping == ResolutionSpec => []ResolutionTypeOK
<1>1. ResolutionInv => ResolutionTypeOK
  BY DEF ResolutionInv, ResolutionShapes
<1> QED
  BY <1>1, ResolutionInvariant, PTL

(* However many records a name has, whatever their priorities and weights, *)
(* and whatever order_srv_records draws, the first target resolve gives is *)
(* one none of its transport precedes in priority; a secure hop stays on   *)
(* its transport.                                                          *)
THEOREM OrderOfTargets == ResolutionSpec => []TargetsAreOrdered
<1>1. ResolutionInv => TargetsAreOrdered
  BY DEF ResolutionInv
<1> QED
  BY <1>1, ResolutionInvariant, PTL
=============================================================================
