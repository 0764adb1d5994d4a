-------------------------- MODULE MCInfrastructure --------------------------
(***************************************************************************)
(* Model-checking instance of what lies below the dialogs: endpoint maps,  *)
(* timer wheel, the primitives of the embassy platform, the connection     *)
(* table, streams and packets, name resolution and routing.  They share no *)
(* state: each initial state picks the part that runs, the others stay in  *)
(* one initial state of theirs.                                            *)
(***************************************************************************)
EXTENDS EndpointMaps, TimerWheel, EmbassyPlatform, ConnectionTable, StreamFraming,
        Packets, NameResolution, RequestRouting, ResponseRouting

VARIABLE part

Parts == {"maps", "timers", "platform", "table", "framing", "packets",
          "resolution", "requests", "responses"}

(* One initial state of each part, for the runs of the others.             *)
Still(p) ==
    /\ p # "resolution" => /\ hop = [host |-> "domain", port |-> FALSE, transport |-> "ws"]
                           /\ zone = [n \in Names |-> <<>>]
    /\ p # "requests" => /\ role = "client" /\ listeners = <<"udp">>
                         /\ proxies = <<>> /\ outbound = "none"
    /\ p # "responses" => incoming = [on |-> "udp", source |-> CHOOSE a \in Addresses : TRUE,
                                      via |-> NoVia]
    /\ p # "maps"      => threads = FALSE
    /\ p # "platform"  => preempted = FALSE
    /\ p # "table"     => transport = "tcp"
    /\ p # "framing"   => seam = FALSE
    /\ p # "packets"   => kind = "udp" /\ packets = <<>>

MCInit ==
    /\ part \in Parts /\ Still(part)
    /\ Init /\ WheelInit /\ PlatformInit /\ TableInit /\ FramingInit
    /\ PacketInit /\ ResolutionInit /\ RoutingInit /\ ResponseInit

OthersRest(p) ==
    /\ UNCHANGED part
    /\ p # "maps"       => UNCHANGED vars
    /\ p # "timers"     => UNCHANGED wheelVars
    /\ p # "platform"   => UNCHANGED platformVars
    /\ p # "table"      => UNCHANGED tableVars
    /\ p # "framing"    => UNCHANGED framingVars
    /\ p # "packets"    => UNCHANGED packetVars
    /\ p # "resolution" => UNCHANGED resolutionVars
    /\ p # "requests"   => UNCHANGED routingVars
    /\ p # "responses"  => UNCHANGED responseVars

MCNext ==
    \/ part = "maps" /\ Next /\ OthersRest("maps")
    \/ part = "timers" /\ WheelNext /\ OthersRest("timers")
    \/ part = "platform" /\ PlatformNext /\ OthersRest("platform")
    \/ part = "table" /\ TableNext /\ OthersRest("table")
    \/ part = "framing" /\ FramingNext /\ OthersRest("framing")
    \/ part = "packets" /\ PacketNext /\ OthersRest("packets")
    \/ part = "resolution" /\ ResolutionNext /\ OthersRest("resolution")
    \/ part = "requests" /\ RoutingNext /\ OthersRest("requests")
    \/ part = "responses" /\ ResponseNext /\ OthersRest("responses")

allVars == <<vars, wheelVars, platformVars, tableVars, framingVars, packetVars,
             resolutionVars, routingVars, responseVars, part>>

(* The fairness of the parts' own specifications, in the runs of the part. *)
MCFairness ==
    /\ WF_wheelVars(part = "timers" /\ WaitForReady) /\ WF_wheelVars(part = "timers" /\ Tick)
    /\ \A v \in Values : WF_channelVars(part = "platform" /\ Publishes(v))
    /\ WF_channelVars(part = "platform" /\ Recv)
    /\ \A c \in Conns : /\ WF_tableVars(part = "table" /\ ServeConnection(c))
                        /\ WF_tableVars(part = "table" /\ WriterRemoves(c))
    /\ WF_framingVars(part = "framing" /\ ServeLoop)
    /\ WF_framingVars(part = "framing" /\ Written)
    /\ WF_packetVars(part = "packets" /\ PacketServed)

MCSpec == MCInit /\ [][MCNext]_allVars /\ MCFairness

(***************************************************************************)
(* The types of the parts' state.                                          *)
(***************************************************************************)
InfrastructureTypeOK ==
    /\ TypeOK /\ WheelTypeOK /\ PlatformTypeOK /\ TableTypeOK /\ FramingTypeOK
    /\ PacketTypeOK /\ ResolutionTypeOK /\ RoutingTypeOK /\ ResponseTypeOK
=============================================================================
