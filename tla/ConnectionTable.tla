--------------------------- MODULE ConnectionTable ---------------------------
(***************************************************************************)
(* The stream connections of a transport layer (transport_layer.rs):       *)
(* opened by lookups and by listeners, cached by peer address, served by a *)
(* task each and retired by that task or by a writer whose send failed.    *)
(*                                                                         *)
(* A connection is a number, in order of creation.  The transport is that  *)
(* of the peers, one per behaviour: it decides how connections are opened. *)
(***************************************************************************)
EXTENDS Naturals, FiniteSets, FiniteSetsExt

CONSTANTS Peers,        \* remote addresses, with their transport
          Senders,      \* transactions that look a connection up to write
          MaxConns      \* bound on the connections opened

ASSUME TableAssumption ==
    /\ Peers # {}
    /\ MaxConns \in Nat

VARIABLES
    transport,  \* r#type of the peers' addresses
    upgrading,  \* peers whose accepted stream is in its handshake
    table,      \* connections: the connection cached for each peer
    opened,     \* connections created so far
    peerOf,     \* remote_addr of each connection
    wire,       \* external: "up" or "down"
    token,      \* own cancel_token of each connection is cancelled
    server,     \* where the task of serve_connection is
    removing,   \* failed writers that have cancelled the token, not removed
    looking,    \* what each sender does
    gone,       \* the receiver of transport events has been dropped
    layer       \* cancel_token of the layer is cancelled

openVars  == <<table, opened, peerOf>>
tableVars == <<transport, upgrading, openVars, wire, token, server, removing, looking, gone, layer>>

Conns == 1 .. MaxConns
NoConn == 0

Transports == {"tcp", "tls", "ws"}

TableTypeOK ==
    /\ transport \in Transports /\ upgrading \subseteq Peers
    /\ table \in [Peers -> 0 .. MaxConns]
    /\ opened \in 0 .. MaxConns
    /\ peerOf \in [Conns -> Peers]
    /\ wire \in [Conns -> {"up", "down"}]
    /\ token \in [Conns -> BOOLEAN]
    /\ server \in [Conns -> {"spawned", "serving", "exited", "cancelled", "retired",
                             "closed", "reported", "unserved"}]
    /\ removing \subseteq Conns
    /\ looking \in [Senders -> [at : {"idle", "dialing", "holding"},
                                peer : Peers, conn : 0 .. MaxConns]]
    /\ gone \in BOOLEAN /\ layer \in BOOLEAN

TableInit ==
    /\ transport \in Transports /\ upgrading = {}
    /\ table = [p \in Peers |-> NoConn]
    /\ opened = 0
    /\ LET p == CHOOSE q \in Peers : TRUE
       IN  /\ peerOf = [c \in Conns |-> p]
           /\ looking = [s \in Senders |-> [at |-> "idle", peer |-> p, conn |-> NoConn]]
    /\ wire = [c \in Conns |-> "up"]
    /\ token = [c \in Conns |-> FALSE]
    /\ server = [c \in Conns |-> "spawned"]
    /\ removing = {} /\ gone = FALSE /\ layer = FALSE

Open == 1 .. opened
Cached(c) == table[peerOf[c]] = c

-----------------------------------------------------------------------------
(* add_connection: replaces what is cached for the peer and spawns a task. *)
Adds(p) ==
    /\ opened < MaxConns
    /\ opened' = opened + 1
    /\ peerOf' = [peerOf EXCEPT ![opened + 1] = p]
    /\ table' = [table EXCEPT ![p] = opened + 1]

(* lookup: a cached connection, or a dial awaited outside of any lock.     *)
LookupHits(s, p) ==
    /\ looking[s].at = "idle"
    /\ table[p] # NoConn
    /\ looking' = [looking EXCEPT ![s] = [at |-> "holding", peer |-> p, conn |-> table[p]]]
    /\ UNCHANGED <<transport, upgrading, openVars, wire, token, server, removing, gone, layer>>

LookupDials(s, p) ==
    /\ looking[s].at = "idle"
    /\ table[p] = NoConn
    /\ looking' = [looking EXCEPT ![s] = [at |-> "dialing", peer |-> p, conn |-> NoConn]]
    /\ UNCHANGED <<transport, upgrading, openVars, wire, token, server, removing, gone, layer>>

DialSucceeds(s) ==
    /\ looking[s].at = "dialing"
    /\ Adds(looking[s].peer)
    /\ looking' = [looking EXCEPT ![s] = [@ EXCEPT !.at = "holding", !.conn = opened + 1]]
    /\ UNCHANGED <<transport, upgrading, wire, token, server, removing, gone, layer>>

(* The connect() of each transport ends with a connection whose token is a *)
(* child of the layer's; TLS and WebSocket shake hands before it does.     *)
DialTcp(s) == transport = "tcp" /\ DialSucceeds(s)
DialTls(s) == transport = "tls" /\ DialSucceeds(s)
DialWs(s)  == transport = "ws"  /\ DialSucceeds(s)

DialFails(s) ==
    /\ looking[s].at = "dialing"
    /\ looking' = [looking EXCEPT ![s].at = "idle"]
    /\ UNCHANGED <<transport, upgrading, openVars, wire, token, server, removing, gone, layer>>

(* Listeners.  A stream the whitelist refuses is dropped.  TCP is added by *)
(* the accepting task; TLS and WebSocket by a task of their own, when the  *)
(* handshake has ended, so that a slow peer does not hold up the others.   *)
AcceptsTcp(p) ==
    /\ transport = "tcp"
    /\ Adds(p)
    /\ UNCHANGED <<transport, upgrading, wire, token, server, removing, looking, gone, layer>>

Accepted(p) ==
    /\ upgrading' = upgrading \cup {p}
    /\ UNCHANGED <<transport, openVars, wire, token, server, removing, looking, gone, layer>>

Upgraded(p) ==
    /\ p \in upgrading
    /\ upgrading' = upgrading \ {p}
    /\ Adds(p) \/ UNCHANGED openVars
    /\ UNCHANGED <<transport, wire, token, server, removing, looking, gone, layer>>

AcceptsTls(p) == transport = "tls" /\ (Accepted(p) \/ Upgraded(p))
AcceptsWs(p)  == transport = "ws"  /\ (Accepted(p) \/ Upgraded(p))

(* External: the peer closes, or the network does.                         *)
WireDies(c) ==
    /\ c \in Open /\ wire[c] = "up"
    /\ wire' = [wire EXCEPT ![c] = "down"]
    /\ UNCHANGED <<transport, upgrading, openVars, token, server, removing, looking, gone, layer>>

-----------------------------------------------------------------------------
(***************************************************************************)
(* retire_connection: the token first, so that flow affinity stops using   *)
(* the connection, then the table, whose entry may by now be another       *)
(* connection to the same peer.                                            *)
(***************************************************************************)
\* Faulty variant: whatever is cached for the peer is removed.
RemovesPeer(c) == table' = [table EXCEPT ![peerOf[c]] = NoConn]
RemovesSame(c) == table' = IF Cached(c) THEN [table EXCEPT ![peerOf[c]] = NoConn] ELSE table

(* A writer's send failed; the transaction retires what it wrote on.       *)
WriteFails(s) ==
    LET c == looking[s].conn
    IN  /\ looking[s].at = "holding" /\ wire[c] = "down"
        /\ token' = [token EXCEPT ![c] = TRUE]
        /\ removing' = removing \cup {c}
        /\ looking' = [looking EXCEPT ![s].at = "idle"]
        /\ UNCHANGED <<transport, upgrading, openVars, wire, server, gone, layer>>

WriterRemoves(c) ==
    /\ c \in removing
    /\ RemovesSame(c)
    /\ removing' = removing \ {c}
    /\ UNCHANGED <<transport, upgrading, opened, peerOf, wire, token, server, looking, gone, layer>>

Writes(s) ==
    /\ looking[s].at = "holding" /\ wire[looking[s].conn] = "up"
    /\ looking' = [looking EXCEPT ![s].at = "idle"]
    /\ UNCHANGED <<transport, upgrading, openVars, wire, token, server, removing, gone, layer>>

-----------------------------------------------------------------------------
(***************************************************************************)
(* The task of serve_connection: New event, read loop against the layer's  *)
(* token, retire, close, Closed event.  Without a receiver it returns      *)
(* before any of it.  It does not look at the connection's own token.      *)
(***************************************************************************)
Proceeds(c, from, to) ==
    /\ c \in Open
    /\ server[c] = from
    /\ server' = [server EXCEPT ![c] = to]

NewSent(c) ==
    /\ Proceeds(c, "spawned", IF gone THEN "unserved" ELSE "serving")
    /\ UNCHANGED <<transport, upgrading, openVars, wire, token, removing, looking, gone, layer>>

LoopEnds(c) ==
    /\ Proceeds(c, "serving", "exited")
    /\ wire[c] = "down" \/ layer
    /\ UNCHANGED <<transport, upgrading, openVars, wire, token, removing, looking, gone, layer>>

RetireCancels(c) ==
    /\ Proceeds(c, "exited", "cancelled")
    /\ token' = [token EXCEPT ![c] = TRUE]
    /\ UNCHANGED <<transport, upgrading, openVars, wire, removing, looking, gone, layer>>

RetireRemoves(c) ==
    /\ Proceeds(c, "cancelled", "retired")
    /\ RemovesSame(c)
    /\ UNCHANGED <<transport, upgrading, opened, peerOf, wire, token, removing, looking, gone, layer>>

(* close() shuts the write half; Closed is sent whatever it returned.      *)
Closes(c) ==
    /\ Proceeds(c, "retired", "closed")
    /\ wire' = [wire EXCEPT ![c] = "down"]
    /\ UNCHANGED <<transport, upgrading, openVars, token, removing, looking, gone, layer>>

ClosedSent(c) ==
    /\ Proceeds(c, "closed", "reported")
    /\ UNCHANGED <<transport, upgrading, openVars, wire, token, removing, looking, gone, layer>>

\* Faulty variant: the token is cancelled and the entry left for a writer.
CancelsOnly(c) ==
    \/ NewSent(c) \/ LoopEnds(c) \/ RetireCancels(c)
    \/ /\ Proceeds(c, "cancelled", "retired")
       /\ UNCHANGED <<transport, upgrading, openVars, wire, token, removing, looking, gone, layer>>
    \/ Closes(c) \/ ClosedSent(c)

ServeConnection(c) ==
    NewSent(c) \/ LoopEnds(c) \/ RetireCancels(c) \/ RetireRemoves(c) \/ Closes(c) \/ ClosedSent(c)

(* The endpoint is dropped, or the layer: Drop cancels its token.          *)
ReceiverDropped ==
    /\ ~gone
    /\ gone' = TRUE
    /\ UNCHANGED <<transport, upgrading, openVars, wire, token, server, removing, looking, layer>>

LayerDropped ==
    /\ ~layer
    /\ layer' = TRUE
    /\ UNCHANGED <<transport, upgrading, openVars, wire, token, server, removing, looking, gone>>

TableNext ==
    \/ \E s \in Senders : \/ \E p \in Peers : LookupHits(s, p) \/ LookupDials(s, p)
                          \/ DialTcp(s) \/ DialTls(s) \/ DialWs(s) \/ DialFails(s)
                          \/ Writes(s) \/ WriteFails(s)
    \/ \E p \in Peers : AcceptsTcp(p) \/ AcceptsTls(p) \/ AcceptsWs(p)
    \/ \E c \in Open : ServeConnection(c) \/ WriterRemoves(c) \/ WireDies(c)
    \/ ReceiverDropped \/ LayerDropped

TableFairness ==
    \A c \in Conns : WF_tableVars(ServeConnection(c)) /\ WF_tableVars(WriterRemoves(c))

TableSpec == TableInit /\ [][TableNext]_tableVars /\ TableFairness

-----------------------------------------------------------------------------
(***************************************************************************)
(* The newest connection to a peer is the one lookups get, for as long as  *)
(* nobody has begun to retire it: an older one that ends later, or whose   *)
(* write fails later, leaves the entry alone.                              *)
(***************************************************************************)
NewestIsReachable ==
    \A c \in Open : (~token[c] /\ \A d \in Open : peerOf[d] = peerOf[c] => d <= c) => Cached(c)

(***************************************************************************)
(* A connection whose wire is down leaves the table; with the receiver of  *)
(* the events dropped it may stay, its task returned early.                *)
(***************************************************************************)
DeadIsRetired ==
    \A c \in Conns : (c \in Open /\ wire[c] = "down") ~> (~Cached(c) \/ gone)
=============================================================================
