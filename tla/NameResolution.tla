--------------------------- MODULE NameResolution ---------------------------
(***************************************************************************)
(* From the address of a next hop to a socket address (transport_layer.rs, *)
(* sip_resolver.rs): SRV records of each candidate transport, in order of  *)
(* priority and, by lot, of weight; then the addresses of their targets.   *)
(*                                                                         *)
(* Names, ports and addresses are abstracted: a record is its place in the *)
(* answer, its priority and its weight, so a set of records is ordered.    *)
(***************************************************************************)
EXTENDS Naturals, Sequences, FiniteSets, SequencesExt

CONSTANTS MaxRecords,   \* bound on the records of the SRV answers
          Priorities, Weights

ASSUME ResolutionAssumption ==
    MaxRecords \in Nat /\ Priorities \subseteq Nat /\ Weights \subseteq Nat

VARIABLES
    hop,        \* the next hop: kind of host, port given, transport if stated
    zone,       \* external: the SRV answer for each transport
    step,       \* where the lookup is
    candidates, \* transports still to be asked about
    unordered,  \* the set of records that order_srv_records has left
    ordered,    \* records in the order in which their targets are looked up
    targets     \* the targets found

resolutionVars == <<hop, zone, step, candidates, unordered, ordered, targets>>

Unstated     == "any"
Secure  == hop.transport \in {"tls", "wss"}
Default == IF hop.transport # Unstated THEN hop.transport ELSE IF Secure THEN "tls" ELSE "udp"

(* srv_prefix: a secure TCP or WebSocket shares the name of TLS; plain     *)
(* WebSocket has none.                                                     *)
Prefix(t) == CASE t = "udp" /\ ~Secure -> "_sip._udp"
               [] t = "tcp" /\ ~Secure -> "_sip._tcp"
               [] t \in {"tls", "wss"} -> "_sips._tcp"
               [] OTHER -> "none"

Names   == {"_sip._udp", "_sip._tcp", "_sips._tcp"}
SrvAnswers == UNION {[1 .. n -> [priority : Priorities, weight : Weights]] : n \in 0 .. MaxRecords}
Records    == [no : 1 .. MaxRecords, priority : Priorities, weight : Weights]
Numbered(answer) ==
    {[no |-> i, priority |-> answer[i].priority, weight |-> answer[i].weight] : i \in DOMAIN answer}

ResolutionTypeOK ==
    /\ hop \in [host : {"domain", "ip", "invalid"}, port : BOOLEAN,
                transport : {Unstated, "udp", "tcp", "tls", "ws", "wss"}]
    /\ step \in {"asked", "srv", "order", "address", "fallback", "done", "failed"}
    /\ candidates \in {<<>>, <<hop.transport>>, <<"udp", "tcp">>, <<"tcp">>}
    /\ unordered \subseteq Records /\ ordered \in Seq(Records)

ResolutionInit ==
    /\ hop \in [host : {"domain"}, port : {FALSE}, transport : {Unstated, "udp", "tls", "ws"}]
           \cup [host : {"domain", "ip", "invalid"}, port : BOOLEAN, transport : {"wss"}]
    /\ \E first, second \in SrvAnswers :
          /\ Len(first) + Len(second) <= MaxRecords
          /\ hop.transport # Unstated => second = <<>>
          /\ zone = [p \in Names |->
                CASE p = Prefix(Default) -> first [] p = "_sip._tcp" -> second [] OTHER -> <<>>]
    /\ step = "asked" /\ candidates = <<>>
    /\ unordered = {} /\ ordered = <<>> /\ targets = <<>>

-----------------------------------------------------------------------------
Target(t, prio, no) == [transport |-> t, priority |-> prio, no |-> no]

(* Placeholders and addresses need no question (resolve_with_lookup and    *)
(* the first branch of resolve_logic); a port rules SRV out.               *)
Asks ==
    /\ step = "asked"
    /\ IF hop.host = "invalid" THEN step' = "failed" /\ UNCHANGED <<candidates, targets>>
       ELSE IF hop.host = "ip" THEN
            step' = "done" /\ targets' = <<Target(Default, 0, 0)>> /\ UNCHANGED candidates
       ELSE IF hop.port THEN step' = "fallback" /\ UNCHANGED <<candidates, targets>>
       ELSE /\ step' = "srv"
            /\ candidates' = IF hop.transport # Unstated THEN <<hop.transport>> ELSE <<"udp", "tcp">>
            /\ UNCHANGED targets
    /\ UNCHANGED <<hop, zone, unordered, ordered>>

(* lookup_srv of the next candidate; an error is an empty answer.          *)
LooksUpSrv ==
    /\ step = "srv" /\ candidates # <<>>
    /\ LET p == Prefix(candidates[1])
       IN  IF p \in Names /\ zone[p] # <<>>
           THEN unordered' = Numbered(zone[p]) /\ step' = "order" /\ UNCHANGED candidates
           ELSE candidates' = Tail(candidates) /\ UNCHANGED <<unordered, step>>
    /\ UNCHANGED <<hop, zone, ordered, targets>>

LooksUpNone ==
    /\ step = "srv" /\ candidates = <<>>
    /\ step' = IF targets = <<>> THEN "fallback" ELSE "done"
    /\ UNCHANGED <<hop, zone, candidates, unordered, ordered, targets>>

-----------------------------------------------------------------------------
(***************************************************************************)
(* order_srv_records: of the records with the least priority, one is drawn *)
(* by weight, and so on.                                                   *)
(***************************************************************************)
\* Faulty variant: the group takes the next priority in as well.
LooseGroup == unordered

Group == {r \in unordered : \A q \in unordered : r.priority <= q.priority}

TotalWeight(records) == MapThenSumSet(LAMBDA r : r.weight, records)
WeightUpTo(group, r) == TotalWeight({q \in group : q.no <= r.no})

(* A draw selects the first record whose running total reaches it.         *)
Selected(group, draw, r) ==
    /\ draw <= WeightUpTo(group, r)
    /\ \A q \in group : q.no < r.no => draw > WeightUpTo(group, q)

(* Without weights every record is as likely.                              *)
Drawn(group) ==
    {r \in group : \/ TotalWeight(group) = 0
                   \/ \E draw \in 0 .. TotalWeight(group) : Selected(group, draw, r)}

Draws ==
    /\ step = "order"
    /\ \E r \in Drawn(Group) :
          ordered' = Append(ordered, r) /\ unordered' = unordered \ {r}
    /\ UNCHANGED <<hop, zone, step, candidates, targets>>

OrderDone ==
    /\ step = "order" /\ unordered = {}
    /\ step' = "address"
    /\ UNCHANGED <<hop, zone, candidates, unordered, ordered, targets>>

(* lookup_a_aaaa of each record's target, which may fail: then none of it. *)
LooksUpAddress ==
    /\ step = "address" /\ ordered # <<>>
    /\ ordered' = Tail(ordered)
    /\ LET r == ordered[1]
       IN  targets' \in {targets, Append(targets, Target(candidates[1], r.priority, r.no))}
    /\ UNCHANGED <<hop, zone, step, candidates, unordered>>

AddressesDone ==
    /\ step = "address" /\ ordered = <<>>
    /\ candidates' = Tail(candidates)
    /\ step' = "srv"
    /\ UNCHANGED <<hop, zone, unordered, ordered, targets>>

(* The domain's own addresses, on the default port of the transport.       *)
FallsBack ==
    /\ step = "fallback"
    /\ \/ step' = "done" /\ targets' = <<Target(Default, 0, 0)>>
       \/ step' = "failed" /\ UNCHANGED targets
    /\ UNCHANGED <<hop, zone, candidates, unordered, ordered>>

ResolutionNext ==
    \/ Asks \/ LooksUpSrv \/ LooksUpNone \/ Draws \/ OrderDone
    \/ LooksUpAddress \/ AddressesDone \/ FallsBack

ResolutionSpec ==
    ResolutionInit /\ [][ResolutionNext]_resolutionVars /\ WF_resolutionVars(ResolutionNext)

-----------------------------------------------------------------------------
(***************************************************************************)
(* Whatever the draws and the failing lookups, no target is tried before   *)
(* one of a better priority of its transport, UDP comes before TCP, no     *)
(* record is tried twice, and a secure hop stays on its transport: only    *)
(* the first target is used, so its place decides where the call goes.     *)
(***************************************************************************)
TargetsAreOrdered ==
    /\ \A i, j \in DOMAIN targets : i < j =>
          /\ targets[i] # targets[j]
          /\ targets[i].transport = targets[j].transport
                => targets[i].priority <= targets[j].priority
          /\ targets[j].transport = "udp" => targets[i].transport = "udp"
    /\ Secure => \A i \in DOMAIN targets : targets[i].transport = hop.transport
=============================================================================
