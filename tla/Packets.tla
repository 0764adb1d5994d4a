------------------------------- MODULE Packets -------------------------------
(***************************************************************************)
(* The transports that keep the bounds of what is sent: WebSocket frames   *)
(* (websocket.rs), UDP datagrams (udp.rs) and the in-process channel       *)
(* (channel.rs).  Their serve loops take one packet at a time.             *)
(***************************************************************************)
EXTENDS Naturals, Sequences, SequencesExt

CONSTANTS MaxPackets,   \* bound on the packets sent
          MaxCopies     \* bound on the datagrams duplicated or lost

ASSUME PacketAssumption == MaxPackets \in Nat /\ MaxCopies \in Nat

VARIABLES
    kind,       \* the connection: "ws", "udp" or "channel"
    packets,    \* every packet sent, in order
    messages,   \* history: the indices in packets of the messages
    flight,     \* indices in packets of those on their way
    faults,     \* datagrams the network duplicated or lost
    serving,    \* the serve loop runs
    stopped,    \* cancel_token of the socket or of the layer is cancelled
    arrived,    \* indices of the messages handed to the endpoint
    answers     \* keepalive answers and pongs written back

packetVars == <<kind, packets, messages, flight, faults, serving, stopped, arrived, answers>>

(* What a packet can be.  A "request" has no Via header: as text of a      *)
(* WebSocket it ends the loop, as a datagram it is skipped.                *)
Frames    == {"text", "binary", "request", "malformed", "keepalive", "ping", "close"}
Datagrams == {"text", "request", "malformed", "keepalive", "answer", "blank"}
Whole     == {"text", "binary"}
Sendable  == CASE kind = "ws" -> Frames [] kind = "udp" -> Datagrams [] OTHER -> {"text"}

PacketTypeOK ==
    /\ kind \in {"ws", "udp", "channel"}
    /\ packets \in Seq(Sendable) /\ Len(packets) <= MaxPackets
    /\ messages \in Seq(1 .. Len(packets)) /\ flight \in Seq(1 .. Len(packets))
    /\ arrived \in Seq(1 .. Len(packets))
    /\ faults \in 0 .. MaxCopies
    /\ serving \in BOOLEAN /\ stopped \in BOOLEAN
    /\ answers \in Nat

PacketInit ==
    /\ kind \in {"ws", "udp", "channel"}
    /\ packets = <<>> /\ messages = <<>> /\ flight = <<>> /\ faults = 0
    /\ serving = TRUE /\ stopped = FALSE
    /\ arrived = <<>> /\ answers = 0

-----------------------------------------------------------------------------
(* send() of a message, under the lock of the sink, or what a peer sends.  *)
SendsPacket(p) ==
    /\ p \in Sendable
    /\ Len(packets) < MaxPackets
    /\ packets' = Append(packets, p)
    /\ messages' = IF p \in Whole THEN Append(messages, Len(packets) + 1) ELSE messages
    /\ flight' = Append(flight, Len(packets) + 1)
    /\ UNCHANGED <<kind, faults, serving, stopped, arrived, answers>>

(* External: the network loses, repeats and reorders datagrams.            *)
Faulty(f) ==
    /\ kind = "udp" /\ faults < MaxCopies
    /\ faults' = faults + 1
    /\ flight' = f
    /\ UNCHANGED <<kind, packets, messages, serving, stopped, arrived, answers>>

Loses(i)     == Faulty(RemoveAt(flight, i))
Repeats(i)   == Faulty(Append(flight, flight[i]))
Overtakes(i) == Faulty(<<flight[i]>> \o RemoveAt(flight, i))

-----------------------------------------------------------------------------
(* What the loop does with the packet at the head.                         *)
Head1 == packets[flight[1]]

Takes == serving /\ ~stopped /\ flight # <<>> /\ flight' = Tail(flight)

Hands   == arrived' = Append(arrived, flight[1]) /\ UNCHANGED <<serving, answers>>
Skips   == UNCHANGED <<serving, arrived, answers>>
Replies == answers' = answers + 1 /\ UNCHANGED <<serving, arrived>>
Ends    == serving' = FALSE /\ UNCHANGED <<arrived, answers>>

\* Faulty variant: a binary frame is taken for a keepalive.
ServesTextOnly ==
    CASE Head1 = "text" -> Hands
      [] Head1 \in {"binary", "keepalive", "ping"} -> Replies
      [] Head1 = "malformed" -> Skips
      [] OTHER -> Ends

(* A text that does not parse costs itself only; one whose Via cannot be   *)
(* stamped ends the loop, as the close frame does.                         *)
ServesFrame ==
    CASE Head1 \in Whole -> Hands
      [] Head1 \in {"keepalive", "ping"} -> Replies
      [] Head1 = "malformed" -> Skips
      [] OTHER -> Ends

ServesDatagram ==
    CASE Head1 = "text" -> Hands
      [] Head1 = "keepalive" -> Replies
      [] OTHER -> Skips

ServesWs      == kind = "ws" /\ Takes /\ ServesFrame
ServesUdp     == kind = "udp" /\ Takes /\ ServesDatagram
ServesChannel == kind = "channel" /\ Takes /\ Hands

PacketServed ==
    /\ ServesWs \/ ServesUdp \/ ServesChannel
    /\ UNCHANGED <<kind, packets, messages, faults, stopped>>

(* The token: the UDP loop selects it against the socket, the task of      *)
(* serve_connection against the loops of the others.                       *)
Stops ==
    /\ ~stopped
    /\ stopped' = TRUE /\ serving' = FALSE
    /\ UNCHANGED <<kind, packets, messages, flight, faults, arrived, answers>>

PacketNext ==
    \/ \E p \in Frames \cup Datagrams : SendsPacket(p)
    \/ \E i \in 1 .. Len(flight) : Loses(i) \/ Repeats(i) \/ Overtakes(i)
    \/ PacketServed \/ Stops

PacketSpec == PacketInit /\ [][PacketNext]_packetVars /\ WF_packetVars(PacketServed)

-----------------------------------------------------------------------------
(***************************************************************************)
(* Frames and channel events keep the promise of a connection: what does   *)
(* not parse, keepalives and pings between the messages neither lose nor   *)
(* move one.                                                               *)
(***************************************************************************)
Promised == INSTANCE MessageStream WITH
                Items  <- 1 .. MaxPackets,
                sent   <- messages,
                handed <- arrived,
                broken <- (kind = "udp" \/ ~serving)

PacketsImplementStream == Promised!Spec

=============================================================================
