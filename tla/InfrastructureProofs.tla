------------------------ MODULE InfrastructureProofs ------------------------
(***************************************************************************)
(* The safety of what lies below the dialogs, for every set of values,     *)
(* peers, senders, hosts, ports and timers, and every number of            *)
(* connections, packets and writes: the cancellation token, the connection *)
(* table, the way of a response, the timer wheel, and that packets and     *)
(* streams implement MessageStream.                                        *)
(***************************************************************************)
EXTENDS EmbassyPlatform, ConnectionTable, ResponseRouting, TimerWheel, Packets,
        StreamFraming, SequenceTheorems, WellFoundedInduction, TLAPS

-----------------------------------------------------------------------------
(***************************************************************************)
(* The token of the embassy platform.                                      *)
(*                                                                         *)
(* Without preemption a poll is one step for everybody else: what its test *)
(* saw is still true when it pushes the wakers, and a task that is pending *)
(* is in the list of every token, so that each cancel wakes it.            *)
(***************************************************************************)
PollIsAtomic ==
    ~preempted =>
        /\ ~again
        /\ poll \in {"register child", "register root"} => ~IsCancelled
        /\ poll = "register root" => Child \in wakers
        /\ poll = "pending" => /\ Tokens \subseteq wakers
                               /\ \A t \in Tokens : flag[t] => t \in draining

PlatformInv == PlatformTypeOK /\ PollIsAtomic

(* Nothing runs yet.                                                       *)
LEMMA PlatformInitInv == PlatformInit => PlatformInv
  <1> SUFFICES ASSUME PlatformInit PROVE PlatformInv
    OBVIOUS
  <1>1. /\ flag \in [Tokens -> BOOLEAN]
        /\ sender \in [Values -> {"idle", "checked", "pushed", "sent", "refused"}]
        /\ queue \in Seq(Values) /\ received \in Seq(Values \cup {Ended})
    BY DEF PlatformInit
  <1>2. PlatformTypeOK
    BY <1>1 DEF PlatformInit, PlatformTypeOK
  <1> QED
    BY <1>2 DEF PlatformInit, PlatformInv, PollIsAtomic

(* Sequences stay sequences.                                               *)
LEMMA SeqSteps ==
    ASSUME NEW S, NEW q \in Seq(S)
    PROVE  /\ \A e \in S : Append(q, e) \in Seq(S)
           /\ q # <<>> => Tail(q) \in Seq(S) /\ Head(q) \in S
  OBVIOUS

(* A step of the channel keeps the types.                                  *)
LEMMA ChannelTypes ==
    ASSUME PlatformTypeOK, ChannelNext, UNCHANGED <<tokenVars, joinVars>>
    PROVE  PlatformTypeOK'
  <1> USE DEF PlatformTypeOK, tokenVars, joinVars
  <1>1. CASE Close
    BY <1>1 DEF Close, Signals
  <1>2. CASE TryRecv
    <2>1. CASE queue # <<>>
      <3>1. /\ Tail(queue) \in Seq(Values) /\ Head(queue) \in Values
            /\ Append(received, Head(queue)) \in Seq(Values \cup {Ended})
        BY <2>1, SeqSteps
      <3> QED
        BY <1>2, <2>1, <3>1 DEF TryRecv
    <2>2. CASE queue = <<>>
      BY <1>2, <2>2 DEF TryRecv
    <2> QED
      BY <2>1, <2>2
  <1>3. CASE RecvTestsClosed
    <2>1. Append(received, Ended) \in Seq(Values \cup {Ended})
      BY SeqSteps
    <2> QED
      BY <1>3, <2>1 DEF RecvTestsClosed
  <1>4. CASE RecvWakes
    BY <1>4 DEF RecvWakes
  <1>5. ASSUME NEW v \in Values, SendTests(v) \/ SendSignals(v) PROVE PlatformTypeOK'
    BY <1>5 DEF SendTests, SendSignals, Signals
  <1>6. ASSUME NEW v \in Values, SendPushes(v) PROVE PlatformTypeOK'
    <2>1. Append(queue, v) \in Seq(Values)
      BY SeqSteps
    <2> QED
      BY <1>6, <2>1 DEF SendPushes
  <1> QED
    BY <1>1, <1>2, <1>3, <1>4, <1>5, <1>6 DEF ChannelNext, Recv, Send, Publishes

(* A step of the waiting task, or of a task that cancels.                  *)
LEMMA TokenInv ==
    ASSUME PlatformInv, TokenNext, UNCHANGED <<channelVars, joinVars>>
    PROVE  PlatformInv'
  <1> USE DEF PlatformInv, channelVars, joinVars
  <1>1. CASE PollCheck
    BY <1>1 DEF PlatformTypeOK, PollIsAtomic, PollCheck, IsCancelled, TokenNext
  <1>2. CASE Register
    <2>1. UNCHANGED <<preempted, flag, draining, queue, closed, signal, sender, receiver,
                      received, task, handle>>
      BY <1>2 DEF Register, TokenNext
    <2>2. CASE poll = "register child"
      <3>1. poll' = "register root" /\ wakers' = wakers \cup {Child} /\ again' = again
        BY <1>2, <2>2 DEF Register
      <3> QED
        BY <2>1, <2>2, <3>1 DEF PlatformTypeOK, PollIsAtomic, IsCancelled, Tokens
    <2>3. CASE poll = "register root"
      <3>1. /\ poll' = IF again THEN "poll" ELSE "pending"
            /\ again' = FALSE /\ wakers' = wakers \cup {Root}
        BY <1>2, <2>3 DEF Register, ReturnsPending
      <3> QED
        BY <2>1, <2>3, <3>1 DEF PlatformTypeOK, PollIsAtomic, IsCancelled, Tokens
    <2> QED
      BY <1>2, <2>2, <2>3 DEF Register
  <1>3. ASSUME NEW t \in Tokens, StoreFlag(t) PROVE PlatformInv'
    BY <1>3 DEF PlatformTypeOK, PollIsAtomic, StoreFlag, OutsidePoll, IsCancelled, TokenNext
  <1>4. ASSUME NEW t \in Tokens, WakeAll(t) PROVE PlatformInv'
    BY <1>4 DEF PlatformTypeOK, PollIsAtomic, WakeAll, OutsidePoll, IsCancelled, TokenNext
  <1> QED
    BY <1>1, <1>2, <1>3, <1>4 DEF TokenNext, PollStep, CancelsToken

(* PlatformInv is inductive.                                               *)
LEMMA PlatformStepInv == PlatformInv /\ [PlatformNext]_platformVars => PlatformInv'
  <1> SUFFICES ASSUME PlatformInv, [PlatformNext]_platformVars PROVE PlatformInv'
    OBVIOUS
  <1>1. ASSUME UNCHANGED tokenVars PROVE PollIsAtomic'
    BY <1>1 DEF PlatformInv, PollIsAtomic, tokenVars, IsCancelled
  <1>2. CASE ChannelNext /\ UNCHANGED <<tokenVars, joinVars>>
    BY <1>1, <1>2, ChannelTypes DEF PlatformInv
  <1>3. CASE JoinNext /\ UNCHANGED <<tokenVars, channelVars>>
    BY <1>1, <1>3 DEF PlatformInv, PlatformTypeOK, JoinNext, TaskFinishes, tokenVars, channelVars
  <1>4. CASE UNCHANGED platformVars
    BY <1>1, <1>4 DEF PlatformInv, PlatformTypeOK, platformVars, tokenVars, channelVars, joinVars
  <1> QED
    BY <1>2, <1>3, <1>4, TokenInv DEF PlatformNext

(***************************************************************************)
(* On one executor a task that awaits a cancelled token does not wait once *)
(* every cancel() has drained its list (Cancelled::poll, cancel()).        *)
(***************************************************************************)
THEOREM CancelWakes == PlatformSpec => []CooperativeCancelWakes
  <1>1. PlatformInv => CooperativeCancelWakes
    BY DEF PlatformInv, PollIsAtomic, CooperativeCancelWakes, IsCancelled
  <1> QED
    BY <1>1, PlatformInitInv, PlatformStepInv, PTL DEF PlatformSpec

(* Its variables keep their types.                                         *)
THEOREM PlatformTyping == PlatformSpec => []PlatformTypeOK
  BY PlatformInitInv, PlatformStepInv, PTL DEF PlatformSpec, PlatformInv

-----------------------------------------------------------------------------
(***************************************************************************)
(* The connection table.                                                   *)
(*                                                                         *)
(* Whoever is about to remove a connection has cancelled its token, and a  *)
(* removal takes away what is cached only if it is the same connection.    *)
(***************************************************************************)
RemovedIsCancelled ==
    /\ \A c \in removing : token[c]
    /\ \A c \in Conns : server[c] = "cancelled" => token[c]

HeldIsOpen ==
    /\ \A p \in Peers : table[p] \in 0 .. opened
    /\ \A s \in Senders : looking[s].at = "holding" => looking[s].conn \in Open

TableInv == TableTypeOK /\ RemovedIsCancelled /\ HeldIsOpen /\ NewestIsReachable

(* No connection is open.                                                  *)
LEMMA TableInitInv == TableInit => TableInv
  <1> SUFFICES ASSUME TableInit PROVE TableInv
    OBVIOUS
  <1> DEFINE p == CHOOSE q \in Peers : TRUE
  <1>1. p \in Peers
    BY TableAssumption
  <1>2. /\ peerOf \in [Conns -> Peers]
        /\ looking = [s \in Senders |-> [at |-> "idle", peer |-> p, conn |-> NoConn]]
    BY <1>1 DEF TableInit
  <1> HIDE DEF p
  <1>3. /\ table \in [Peers -> 0 .. MaxConns] /\ opened = 0 /\ opened \in 0 .. MaxConns
        /\ wire \in [Conns -> {"up", "down"}] /\ token \in [Conns -> BOOLEAN]
        /\ server = [c \in Conns |-> "spawned"]
    BY TableAssumption DEF TableInit, NoConn
  <1>4. looking \in [Senders -> [at : {"idle", "dialing", "holding"},
                                 peer : Peers, conn : 0 .. MaxConns]]
    BY <1>1, <1>2, TableAssumption DEF NoConn
  <1>5. TableTypeOK
    BY <1>2, <1>3, <1>4 DEF TableInit, TableTypeOK
  <1>6. RemovedIsCancelled
    BY <1>3 DEF TableInit, RemovedIsCancelled
  <1>7. HeldIsOpen
    BY <1>2 DEF TableInit, HeldIsOpen, NoConn
  <1>8. NewestIsReachable
    BY <1>3 DEF NewestIsReachable, Open
  <1> QED
    BY <1>5, <1>6, <1>7, <1>8 DEF TableInv

(* The connections opened are connections.                                 *)
LEMMA OpenAreConns ==
    ASSUME TableTypeOK
    PROVE  Open \subseteq Conns /\ opened \in Nat /\ opened <= MaxConns
  BY TableAssumption DEF TableTypeOK, Open, Conns

(* Adds(p) caches a connection newer than all the others.                  *)
LEMMA AddsInv ==
    ASSUME TableInv, NEW p \in Peers, Adds(p), TableTypeOK',
           UNCHANGED <<token, server, removing>>,
           \A s \in Senders : looking'[s].at = "holding" => looking'[s].conn \in Open'
    PROVE  TableInv'
  <1>1. /\ opened \in Nat /\ opened + 1 \in Conns /\ opened' = opened + 1
        /\ table \in [Peers -> 0 .. MaxConns] /\ peerOf \in [Conns -> Peers]
    BY TableAssumption DEF TableInv, TableTypeOK, Adds, Conns
  <1>2. /\ \A q \in Peers : table'[q] = IF q = p THEN opened + 1 ELSE table[q]
        /\ \A c \in Conns : peerOf'[c] = IF c = opened + 1 THEN p ELSE peerOf[c]
    BY <1>1 DEF Adds
  <1>3. RemovedIsCancelled'
    BY DEF TableInv, RemovedIsCancelled
  <1>4. HeldIsOpen'
    BY <1>1, <1>2 DEF TableInv, HeldIsOpen
  <1>5. ASSUME NEW c \in Open', ~token[c], \A d \in Open' : peerOf'[d] = peerOf'[c] => d <= c
        PROVE  Cached(c)'
    <2>1. opened + 1 \in Open' /\ c \in 1 .. opened + 1 /\ c \in Conns /\ Open \subseteq Conns
      BY <1>1, OpenAreConns, TableAssumption DEF Open, Conns, TableInv
    <2>2. CASE c = opened + 1
      BY <1>1, <1>2, <2>1, <2>2 DEF Cached
    <2>3. CASE c # opened + 1
      <3>1. c \in Open /\ peerOf[c] # p /\ peerOf[c] \in Peers
        BY <1>1, <1>2, <1>5, <2>1, <2>3 DEF Open
      <3>2. \A d \in Open : peerOf[d] = peerOf[c] => d <= c
        <4>1. \A d \in Open : d \in Open' /\ d \in Conns /\ d # opened + 1
          BY <1>1, <2>1 DEF Open
        <4> QED
          BY <1>2, <1>5, <2>1, <2>3, <4>1
      <3>3. Cached(c)
        BY <1>5, <3>1, <3>2 DEF TableInv, NewestIsReachable
      <3> QED
        BY <1>2, <2>1, <2>3, <3>1, <3>3 DEF Cached
    <2> QED
      BY <2>2, <2>3
  <1>6. NewestIsReachable'
    BY <1>5 DEF NewestIsReachable
  <1> QED
    BY <1>3, <1>4, <1>6 DEF TableInv

(* RemovesSame(d), of a connection whose token is cancelled, takes no      *)
(* other connection away.                                                  *)
LEMMA RemovesInv ==
    ASSUME TableInv, NEW d \in Conns, token[d], RemovesSame(d), TableTypeOK',
           UNCHANGED <<opened, peerOf, token, looking>>, removing' \subseteq removing,
           \A c \in Conns : server'[c] = "cancelled" => server[c] = "cancelled"
    PROVE  TableInv'
  <1>1. /\ table \in [Peers -> 0 .. MaxConns] /\ peerOf \in [Conns -> Peers]
        /\ opened \in 0 .. MaxConns
    BY DEF TableInv, TableTypeOK
  <1>2. \A p \in Peers : table'[p] = IF p = peerOf[d] /\ Cached(d) THEN NoConn ELSE table[p]
    BY <1>1 DEF RemovesSame
  <1>3. RemovedIsCancelled'
    BY DEF TableInv, RemovedIsCancelled
  <1>4. HeldIsOpen'
    BY <1>1, <1>2 DEF TableInv, HeldIsOpen, NoConn, Open
  <1>5. ASSUME NEW c \in Open, ~token[c], Cached(c) PROVE Cached(c)'
    <2>1. c \in Conns /\ peerOf[c] \in Peers
      BY <1>1, OpenAreConns DEF TableInv
    <2>2. ~(peerOf[c] = peerOf[d] /\ Cached(d))
      BY <1>5 DEF Cached
    <2> QED
      BY <1>2, <1>5, <2>1, <2>2 DEF Cached
  <1>6. NewestIsReachable'
    BY <1>5 DEF TableInv, NewestIsReachable, Open
  <1> QED
    BY <1>3, <1>4, <1>6 DEF TableInv

(* Every other step leaves the table and what it caches; tokens are only   *)
(* ever cancelled.                                                         *)
LEMMA TableRestInv ==
    ASSUME TableInv, UNCHANGED <<opened, peerOf, table>>, TableTypeOK',
           \A c \in Conns : token[c] => token'[c],
           \A c \in removing' : c \in removing \/ token'[c],
           \A c \in Conns : server'[c] = "cancelled" => server[c] = "cancelled" \/ token'[c],
           \A s \in Senders : looking'[s].at = "holding" => looking'[s].conn \in Open
    PROVE  TableInv'
  <1>1. RemovedIsCancelled'
    BY DEF TableInv, RemovedIsCancelled, TableTypeOK
  <1>2. HeldIsOpen'
    BY DEF TableInv, HeldIsOpen, Open
  <1>3. NewestIsReachable'
    BY OpenAreConns DEF TableInv, NewestIsReachable, Open, Cached
  <1> QED
    BY <1>1, <1>2, <1>3 DEF TableInv

(* The states of a lookup.                                                 *)
Lookup == [at : {"idle", "dialing", "holding"}, peer : Peers, conn : 0 .. MaxConns]

(* The types of what a lookup changes.                                     *)
LEMMA LookingTypes ==
    ASSUME TableTypeOK, NEW s \in Senders, NEW at \in {"idle", "dialing", "holding"},
           NEW p \in Peers, NEW c \in 0 .. MaxConns,
           \/ looking' = [looking EXCEPT ![s] = [at |-> at, peer |-> p, conn |-> c]]
           \/ looking' = [looking EXCEPT ![s] = [@ EXCEPT !.at = at, !.conn = c]]
           \/ looking' = [looking EXCEPT ![s].at = at] /\ c = looking[s].conn
    PROVE  /\ looking' \in [Senders -> Lookup]
           /\ looking'[s].at = at /\ looking'[s].conn = c
           /\ \A r \in Senders \ {s} : looking'[r] = looking[r]
  <1>1. looking \in [Senders -> Lookup] /\ looking[s] \in Lookup
    BY DEF TableTypeOK, Lookup
  <1>2. CASE looking' = [looking EXCEPT ![s] = [at |-> at, peer |-> p, conn |-> c]]
    <2>1. [at |-> at, peer |-> p, conn |-> c] \in Lookup
      BY DEF Lookup
    <2> QED
      BY <1>1, <1>2, <2>1
  <1>3. CASE looking' = [looking EXCEPT ![s] = [@ EXCEPT !.at = at, !.conn = c]]
    <2>1. [looking[s] EXCEPT !.at = at, !.conn = c] \in Lookup
      BY <1>1 DEF Lookup
    <2>2. looking' = [looking EXCEPT ![s] = [looking[s] EXCEPT !.at = at, !.conn = c]]
      BY <1>3
    <2>3. /\ [looking[s] EXCEPT !.at = at, !.conn = c].at = at
          /\ [looking[s] EXCEPT !.at = at, !.conn = c].conn = c
      BY <1>1 DEF Lookup
    <2> QED
      BY <1>1, <2>1, <2>2, <2>3
  <1>4. CASE looking' = [looking EXCEPT ![s].at = at] /\ c = looking[s].conn
    <2>1. [looking[s] EXCEPT !.at = at] \in Lookup
      BY <1>1 DEF Lookup
    <2>2. looking' = [looking EXCEPT ![s] = [looking[s] EXCEPT !.at = at]]
      BY <1>4
    <2>3. /\ [looking[s] EXCEPT !.at = at].at = at
          /\ [looking[s] EXCEPT !.at = at].conn = c
      BY <1>1, <1>4 DEF Lookup
    <2> QED
      BY <1>1, <2>1, <2>2, <2>3
  <1> QED
    BY <1>2, <1>3, <1>4

(* Adds(p) keeps the types.                                                *)
LEMMA AddsTypes ==
    ASSUME TableTypeOK, NEW p \in Peers, Adds(p)
    PROVE  /\ opened' \in 0 .. MaxConns
           /\ table' \in [Peers -> 0 .. MaxConns]
           /\ peerOf' \in [Conns -> Peers]
           /\ Open \subseteq Open' /\ opened + 1 \in Open'
  <1>1. /\ opened' = opened + 1 /\ opened + 1 \in Conns /\ opened + 1 \in 0 .. MaxConns
        /\ Open \subseteq Open' /\ opened + 1 \in Open'
    BY TableAssumption DEF TableTypeOK, Adds, Open, Conns
  <1> QED
    BY <1>1 DEF TableTypeOK, Adds

(* A step of a lookup or a writer.                                         *)
LEMMA SenderInv ==
    ASSUME TableInv, NEW s \in Senders,
           \/ \E p \in Peers : LookupHits(s, p) \/ LookupDials(s, p)
           \/ DialTcp(s) \/ DialTls(s) \/ DialWs(s) \/ DialFails(s)
           \/ Writes(s) \/ WriteFails(s)
    PROVE  TableInv'
  <1>1. TableTypeOK /\ looking[s].peer \in Peers /\ looking[s].conn \in 0 .. MaxConns
    BY DEF TableInv, TableTypeOK
  <1>2. /\ \A p \in Peers : table[p] \in 0 .. opened /\ table[p] \in 0 .. MaxConns
        /\ \A r \in Senders : looking[r].at = "holding" => looking[r].conn \in Open
    BY DEF TableInv, TableTypeOK, HeldIsOpen
  <1>3. ASSUME NEW p \in Peers, LookupHits(s, p) PROVE TableInv'
    <2>1. /\ looking' = [looking EXCEPT ![s] = [at |-> "holding", peer |-> p, conn |-> table[p]]]
          /\ UNCHANGED <<transport, upgrading, openVars, wire, token, server, removing, gone, layer>>
          /\ table[p] # NoConn
      BY <1>3 DEF LookupHits
    <2>2. TableTypeOK' /\ looking'[s] = [at |-> "holding", peer |-> p, conn |-> table[p]]
          /\ \A r \in Senders \ {s} : looking'[r] = looking[r]
      BY <1>1, <1>2, <2>1, LookingTypes DEF TableTypeOK, Lookup, openVars
    <2>3. table[p] \in Open
      BY <1>1, <1>2, <2>1, OpenAreConns DEF NoConn, Open
    <2> QED
      BY <1>2, <2>1, <2>2, <2>3, TableRestInv DEF openVars
  <1>4. ASSUME NEW p \in Peers, LookupDials(s, p) PROVE TableInv'
    <2>1. /\ looking' = [looking EXCEPT ![s] = [at |-> "dialing", peer |-> p, conn |-> NoConn]]
          /\ UNCHANGED <<transport, upgrading, openVars, wire, token, server, removing, gone, layer>>
          /\ NoConn \in 0 .. MaxConns
      BY <1>4, TableAssumption DEF LookupDials, NoConn
    <2>2. /\ TableTypeOK' /\ looking'[s].at = "dialing"
          /\ \A r \in Senders \ {s} : looking'[r] = looking[r]
      BY <1>1, <2>1, LookingTypes DEF TableTypeOK, Lookup, openVars
    <2> QED
      BY <1>2, <2>1, <2>2, TableRestInv DEF openVars
  <1>5. CASE DialSucceeds(s)
    <2>1. /\ Adds(looking[s].peer)
          /\ looking' = [looking EXCEPT ![s] = [@ EXCEPT !.at = "holding", !.conn = opened + 1]]
          /\ UNCHANGED <<transport, upgrading, wire, token, server, removing, gone, layer>>
      BY <1>5 DEF DialSucceeds
    <2>2. /\ opened + 1 \in 0 .. MaxConns /\ Open \subseteq Open' /\ opened + 1 \in Open'
      BY <1>1, <2>1, AddsTypes, TableAssumption DEF TableTypeOK, Adds
    <2>3. /\ TableTypeOK' /\ looking'[s].conn = opened + 1
          /\ \A r \in Senders \ {s} : looking'[r] = looking[r]
      BY <1>1, <2>1, <2>2, AddsTypes, LookingTypes DEF TableTypeOK, Lookup
    <2> QED
      BY <1>1, <1>2, <2>1, <2>2, <2>3, AddsInv
  <1>6. CASE DialFails(s) \/ Writes(s)
    <2>1. /\ looking' = [looking EXCEPT ![s].at = "idle"]
          /\ UNCHANGED <<transport, upgrading, openVars, wire, token, server, removing, gone, layer>>
      BY <1>6 DEF DialFails, Writes
    <2>2. /\ TableTypeOK' /\ looking'[s].at = "idle"
          /\ \A r \in Senders \ {s} : looking'[r] = looking[r]
      BY <1>1, <2>1, LookingTypes DEF TableTypeOK, Lookup, openVars
    <2> QED
      BY <1>2, <2>1, <2>2, TableRestInv DEF openVars
  <1>7. CASE WriteFails(s)
    <2> DEFINE c == looking[s].conn
    <2>1. /\ looking' = [looking EXCEPT ![s].at = "idle"] /\ c \in Open
          /\ token' = [token EXCEPT ![c] = TRUE] /\ removing' = removing \cup {c}
          /\ UNCHANGED <<transport, upgrading, openVars, wire, server, gone, layer>>
      BY <1>2, <1>7 DEF WriteFails
    <2>2. c \in Conns
      BY <1>1, <2>1, OpenAreConns
    <2>3. /\ token' \in [Conns -> BOOLEAN] /\ token'[c]
          /\ \A d \in Conns : token[d] => token'[d]
      BY <1>1, <2>1, <2>2 DEF TableTypeOK
    <2>4. /\ TableTypeOK' /\ looking'[s].at = "idle"
          /\ \A r \in Senders \ {s} : looking'[r] = looking[r]
      BY <1>1, <2>1, <2>2, <2>3, LookingTypes DEF TableTypeOK, Lookup, openVars
    <2> QED
      BY <1>2, <2>1, <2>2, <2>3, <2>4, TableRestInv DEF openVars
  <1> QED
    BY <1>3, <1>4, <1>5, <1>6, <1>7 DEF DialTcp, DialTls, DialWs

(* A step of a listener.                                                   *)
LEMMA ListenerInv ==
    ASSUME TableInv, NEW p \in Peers, AcceptsTcp(p) \/ AcceptsTls(p) \/ AcceptsWs(p)
    PROVE  TableInv'
  <1>1. TableTypeOK /\ \A s \in Senders : looking[s].at = "holding" => looking[s].conn \in Open
    BY DEF TableInv, HeldIsOpen
  <1>2. ASSUME Adds(p), UNCHANGED <<transport, wire, token, server, removing, looking, gone, layer>>,
               upgrading' \subseteq Peers
        PROVE  TableInv'
    <2>1. TableTypeOK' /\ Open \subseteq Open'
      BY <1>1, <1>2, AddsTypes DEF TableTypeOK
    <2> QED
      BY <1>1, <1>2, <2>1, AddsInv
  <1>3. ASSUME UNCHANGED <<transport, openVars, wire, token, server, removing, looking, gone, layer>>,
               upgrading' \subseteq Peers
        PROVE  TableInv'
    <2>1. TableTypeOK'
      BY <1>1, <1>3 DEF TableTypeOK, openVars
    <2> QED
      BY <1>1, <1>3, <2>1, TableRestInv DEF openVars
  <1>4. upgrading \subseteq Peers
    BY <1>1 DEF TableTypeOK
  <1>5. CASE AcceptsTcp(p)
    BY <1>2, <1>4, <1>5 DEF AcceptsTcp
  <1>6. CASE Accepted(p)
    BY <1>3, <1>4, <1>6 DEF Accepted
  <1>7. CASE Upgraded(p)
    BY <1>2, <1>3, <1>4, <1>7 DEF Upgraded
  <1> QED
    BY <1>5, <1>6, <1>7 DEF AcceptsTls, AcceptsWs

(* A step about one connection.                                            *)
LEMMA ConnectionInv ==
    ASSUME TableInv, NEW c \in Open, ServeConnection(c) \/ WriterRemoves(c) \/ WireDies(c)
    PROVE  TableInv'
  <1>1. TableTypeOK /\ \A s \in Senders : looking[s].at = "holding" => looking[s].conn \in Open
    BY DEF TableInv, HeldIsOpen
  <1>2. c \in Conns
    BY <1>1, OpenAreConns
  <1>3. ASSUME NEW from, NEW to \in {"serving", "unserved", "exited", "cancelled", "retired",
                                     "closed", "reported"},
               Proceeds(c, from, to)
        PROVE  /\ server' \in [Conns -> {"spawned", "serving", "exited", "cancelled", "retired",
                                         "closed", "reported", "unserved"}]
               /\ server[c] = from /\ server'[c] = to
               /\ \A d \in Conns \ {c} : server'[d] = server[d]
    BY <1>1, <1>2, <1>3 DEF Proceeds, TableTypeOK
  <1>4. CASE NewSent(c) \/ LoopEnds(c) \/ Closes(c) \/ ClosedSent(c)
    <2>1. /\ server' \in [Conns -> {"spawned", "serving", "exited", "cancelled", "retired",
                                    "closed", "reported", "unserved"}]
          /\ server'[c] # "cancelled" /\ \A d \in Conns \ {c} : server'[d] = server[d]
      BY <1>3, <1>4 DEF NewSent, LoopEnds, Closes, ClosedSent
    <2>2. wire' \in [Conns -> {"up", "down"}]
      BY <1>1, <1>2, <1>4 DEF NewSent, LoopEnds, Closes, ClosedSent, TableTypeOK
    <2>3. UNCHANGED <<transport, upgrading, openVars, token, removing, looking, gone, layer>>
      BY <1>4 DEF NewSent, LoopEnds, Closes, ClosedSent
    <2>4. TableTypeOK'
      BY <1>1, <2>1, <2>2, <2>3 DEF TableTypeOK, openVars
    <2> QED
      BY <1>1, <2>1, <2>3, <2>4, TableRestInv DEF openVars
  <1>5. CASE RetireCancels(c)
    <2>1. /\ token' = [token EXCEPT ![c] = TRUE] /\ Proceeds(c, "exited", "cancelled")
          /\ UNCHANGED <<transport, upgrading, openVars, wire, removing, looking, gone, layer>>
      BY <1>5 DEF RetireCancels
    <2>2. /\ token' \in [Conns -> BOOLEAN] /\ token'[c]
          /\ \A d \in Conns : token[d] => token'[d]
      BY <1>1, <1>2, <2>1 DEF TableTypeOK
    <2>3. TableTypeOK'
      BY <1>1, <1>3, <2>1, <2>2 DEF TableTypeOK, openVars
    <2>4. \A d \in Conns \ {c} : server'[d] = server[d]
      BY <1>3, <2>1
    <2> QED
      BY <1>1, <2>1, <2>2, <2>3, <2>4, TableRestInv DEF openVars
  <1>6. ASSUME RemovesSame(c) PROVE table' \in [Peers -> 0 .. MaxConns]
    <2>1. NoConn \in 0 .. MaxConns
      BY TableAssumption DEF NoConn
    <2>2. table' = table \/ table' = [table EXCEPT ![peerOf[c]] = NoConn]
      BY <1>6 DEF RemovesSame
    <2> QED
      BY <1>1, <2>1, <2>2 DEF TableTypeOK
  <1>7. CASE RetireRemoves(c)
    <2>1. /\ RemovesSame(c) /\ Proceeds(c, "cancelled", "retired")
          /\ UNCHANGED <<transport, upgrading, opened, peerOf, wire, token, removing, looking,
                         gone, layer>>
      BY <1>7 DEF RetireRemoves
    <2>2. TableTypeOK' /\ token[c]
      BY <1>1, <1>2, <1>3, <1>6, <2>1 DEF TableTypeOK, TableInv, RemovedIsCancelled
    <2>3. server'[c] = "retired" /\ \A d \in Conns \ {c} : server'[d] = server[d]
      BY <1>3, <2>1
    <2> QED
      BY <1>2, <2>1, <2>2, <2>3, RemovesInv
  <1>8. CASE WriterRemoves(c)
    <2>1. /\ RemovesSame(c) /\ c \in removing /\ removing' = removing \ {c}
          /\ UNCHANGED <<transport, upgrading, opened, peerOf, wire, token, server, looking,
                         gone, layer>>
      BY <1>8 DEF WriterRemoves
    <2>2. TableTypeOK' /\ token[c]
      BY <1>1, <1>6, <2>1 DEF TableTypeOK, TableInv, RemovedIsCancelled
    <2> QED
      BY <1>2, <2>1, <2>2, RemovesInv
  <1>9. CASE WireDies(c)
    <2>1. /\ wire' = [wire EXCEPT ![c] = "down"]
          /\ UNCHANGED <<transport, upgrading, openVars, token, server, removing, looking, gone, layer>>
      BY <1>9 DEF WireDies
    <2>2. TableTypeOK'
      BY <1>1, <2>1 DEF TableTypeOK, openVars
    <2> QED
      BY <1>1, <2>1, <2>2, TableRestInv DEF openVars
  <1> QED
    BY <1>4, <1>5, <1>7, <1>8, <1>9 DEF ServeConnection

(* TableInv is inductive.                                                  *)
LEMMA TableStepInv == TableInv /\ [TableNext]_tableVars => TableInv'
  <1> SUFFICES ASSUME TableInv, [TableNext]_tableVars PROVE TableInv'
    OBVIOUS
  <1>1. TableTypeOK /\ \A s \in Senders : looking[s].at = "holding" => looking[s].conn \in Open
    BY DEF TableInv, HeldIsOpen
  <1>2. CASE ReceiverDropped \/ LayerDropped \/ UNCHANGED tableVars
    <2>1. TableTypeOK' /\ UNCHANGED <<openVars, token, server, removing, looking>>
      BY <1>1, <1>2 DEF ReceiverDropped, LayerDropped, tableVars, openVars, TableTypeOK
    <2> QED
      BY <1>1, <2>1, TableRestInv DEF openVars
  <1> QED
    BY <1>2, SenderInv, ListenerInv, ConnectionInv DEF TableNext

(***************************************************************************)
(* For every set of peers and senders, and every number of connections:    *)
(* the newest connection to a peer is the one lookups get until somebody   *)
(* begins to retire it (add_connection, retire_connection).                *)
(***************************************************************************)
THEOREM Reachable == TableSpec => []NewestIsReachable
  <1>1. TableInv => NewestIsReachable
    BY DEF TableInv
  <1> QED
    BY <1>1, TableInitInv, TableStepInv, PTL DEF TableSpec

(* Its variables keep their types.                                         *)
THEOREM TableTyping == TableSpec => []TableTypeOK
  BY TableInitInv, TableStepInv, PTL DEF TableSpec, TableInv

-----------------------------------------------------------------------------
(***************************************************************************)
(* The way of a response.  The Via is the one the receiving connection has *)
(* written, and every response sent so far went where it says.             *)
(***************************************************************************)
(* A Via stamped with the source of a request names that source to each of *)
(* its readers.                                                            *)
LEMMA StampedNamesSource ==
    ASSUME NEW source \in Addresses, NEW p \in AsSent, NEW sentBy \in SentBys,
           NEW transp \in {"udp", "tcp"}
    PROVE  SocketOf(TargetFromVia(Stamped([transport |-> transp, sentBy |-> sentBy, params |-> p],
                                          "udp", source))) = source
  <1> DEFINE v == [transport |-> transp, sentBy |-> sentBy, params |-> p]
             w == Stamped(v, "udp", source)
  <1> HIDE DEF v, w
  <1>1. /\ source.host \in Hosts /\ source.port \in Ports
        /\ source = [host |-> source.host, port |-> source.port]
        /\ source.host # Absent /\ source.port \notin {0, NoRport}
    <2>1. /\ source.host \in Hosts /\ source.port \in Ports
          /\ source = [host |-> source.host, port |-> source.port]
      BY DEF Addresses
    <2>2. \A n \in Ports : n \notin {0, NoRport}
      BY ResponseAssumption
    <2>3. source.host # Absent
      BY <2>1, ResponseAssumption
    <2> QED
      BY <2>1, <2>2, <2>3
  <1>2. p.received = Absent /\ p.rport \in {0, NoRport}
    BY DEF AsSent
  <1>3. CASE Stamps(v, "udp", source)
    <2>1. w.params.received = source.host /\ w.params.rport = source.port
      BY <1>3 DEF v, w, Stamped, AsSent, Params
    <2> QED
      BY <1>1, <2>1 DEF v, w, SocketOf, TargetFromVia
  <1>4. CASE ~Stamps(v, "udp", source)
    <2>1. sentBy = source
      BY <1>4 DEF v, Stamps
    <2>2. /\ w.sentBy = sentBy /\ w.params.received = Absent
          /\ w.params.rport \in {source.port, NoRport}
      BY <1>2, <1>4 DEF v, w, Stamped, AsSent, Params, Requested
    <2> QED
      BY <1>1, <2>1, <2>2 DEF v, w, SocketOf, TargetFromVia
  <1> QED
    BY <1>3, <1>4 DEF v, w

ViaIsStamped ==
    /\ incoming \in [on : {"udp", "tcp"}, source : Addresses,
                     via : [transport : {"udp", "tcp"}, sentBy : SentBys, params : AsSent]]
    /\ via = NoVia \/ via = Stamped(incoming.via, incoming.on, incoming.source)

(* For every set of hosts and ports: a response over UDP goes back to the  *)
(* address its request came from (update_msg_received, get_destination,    *)
(* get_destination_from_request).                                          *)
THEOREM ResponsesReturn == ResponseSpec => []RespondsToSource
  <1> DEFINE Inv == ViaIsStamped /\ RespondsToSource
  <1>1. ResponseInit => Inv
    BY DEF ResponseInit, ViaIsStamped, RespondsToSource
  <1>2. ASSUME Inv, [ResponseNext]_responseVars PROVE Inv'
    <2>1. CASE Receives
      BY <1>2, <2>1 DEF Receives, ViaIsStamped, RespondsToSource
    <2>2. ASSUME NEW by \in Answerers, Responds(by) PROVE Inv'
      <3>1. ASSUME incoming.on = "udp" PROVE SocketOf(TargetFromVia(via)) = incoming.source
        <4>1. /\ via = Stamped(incoming.via, "udp", incoming.source)
              /\ incoming.via = [transport |-> incoming.via.transport,
                                 sentBy |-> incoming.via.sentBy, params |-> incoming.via.params]
          BY <1>2, <2>2, <3>1 DEF ViaIsStamped, Responds
        <4>2. /\ incoming.source \in Addresses /\ incoming.via.params \in AsSent
              /\ incoming.via.sentBy \in SentBys /\ incoming.via.transport \in {"udp", "tcp"}
          BY <1>2 DEF ViaIsStamped
        <4> DEFINE v == [transport |-> incoming.via.transport, sentBy |-> incoming.via.sentBy,
                         params |-> incoming.via.params]
        <4>3. SocketOf(TargetFromVia(Stamped(v, "udp", incoming.source))) = incoming.source
          BY <4>2, StampedNamesSource
        <4>4. incoming.via = v
          BY <4>1
        <4> QED
          BY <4>1, <4>3, <4>4
      <3>2. responses' = responses \cup {[by |-> by, to |-> incoming.source]}
        BY <2>2, <3>1 DEF Responds
      <3> QED
        BY <1>2, <2>2, <3>2 DEF Responds, ViaIsStamped, RespondsToSource
    <2>3. CASE UNCHANGED responseVars
      BY <1>2, <2>3 DEF responseVars, ViaIsStamped, RespondsToSource
    <2> QED
      BY <1>2, <2>1, <2>2, <2>3 DEF ResponseNext
  <1>3. Inv => RespondsToSource
    OBVIOUS
  <1> QED
    BY <1>1, <1>2, <1>3, PTL DEF ResponseSpec

(* build_via_received writes a Via.                                        *)
LEMMA StampedIsVia ==
    ASSUME NEW v \in Vias, NEW on \in {"udp", "tcp"}, NEW source \in Addresses
    PROVE  Stamped(v, on, source) \in Vias
<1>1. /\ v.params \in Params /\ source.host \in Hosts /\ source.port \in Ports
      /\ \A p \in Params : [v EXCEPT !.params = p] \in Vias
  BY DEF Vias, Addresses
<1> DEFINE bare == [v.params EXCEPT !.received = Absent, !.rport = NoRport]
           full == [bare EXCEPT !.received = source.host, !.rport = source.port,
                                !.transport = IF on # "udp" /\ v.transport # on THEN on ELSE @]
           port == [bare EXCEPT !.rport = source.port]
<1>2. bare \in Params
  BY <1>1 DEF Params
<1>3. full \in Params /\ port \in Params
  <2> HIDE DEF bare
  <2>1. (IF on # "udp" /\ v.transport # on THEN on ELSE bare.transport) \in {Absent, "tcp"}
    BY <1>2 DEF Params
  <2> QED
    BY <1>1, <1>2, <2>1 DEF Params
<1>4. Stamped(v, on, source) \in {[v EXCEPT !.params = full], [v EXCEPT !.params = port], v}
  BY DEF Stamped
<1> HIDE DEF full, port
<1> QED
  BY <1>1, <1>3, <1>4

(* Types of the Via and of the responses.                                  *)
THEOREM ResponseTyping == ResponseSpec => []ResponseTypeOK
<1>1. ResponseInit => ResponseTypeOK
  <2> SUFFICES ASSUME ResponseInit PROVE ResponseTypeOK
    OBVIOUS
  <2>1. NoVia \in Vias
    BY DEF NoVia, Vias, SentBys, Params
  <2> QED
    BY <2>1 DEF ResponseInit, ResponseTypeOK, AsSent, Vias
<1>2. ResponseTypeOK /\ [ResponseNext]_responseVars => ResponseTypeOK'
  <2> SUFFICES ASSUME ResponseTypeOK, [ResponseNext]_responseVars PROVE ResponseTypeOK'
    OBVIOUS
  <2>1. CASE Receives
    BY <2>1, StampedIsVia DEF Receives, ResponseTypeOK
  <2>2. ASSUME NEW by \in Answerers, Responds(by) PROVE ResponseTypeOK'
    BY <2>2 DEF Responds, ResponseTypeOK
  <2>3. CASE UNCHANGED responseVars
    BY <2>3 DEF responseVars, ResponseTypeOK
  <2> QED
    BY <2>1, <2>2, <2>3 DEF ResponseNext
<1> QED
  BY <1>1, <1>2, PTL DEF ResponseSpec

-----------------------------------------------------------------------------
(***************************************************************************)
(* The timer wheel.                                                        *)
(*                                                                         *)
(* On one thread nobody arms a timer between the deadline wait_for_ready   *)
(* computes and its wait, and every call that changes the tasks of a       *)
(* sleeping waiter wakes it, so the deadline it sleeps on is never late.   *)
(***************************************************************************)
NeverOversleeps ==
    ~TwoThreads /\ waiter.at \in {"computed", "asleep"} =>
        \A t \in tasks : waiter.until <= t.at

WheelInv == WheelTypeOK /\ NeverOversleeps

(* A set of numbers has a least one.                                       *)
LEMMA LeastOf ==
    ASSUME NEW S \in SUBSET Nat, S # {}
    PROVE  Min(S) \in S /\ \A y \in S : Min(S) <= y
<1> DEFINE R == {ss \in Nat \X Nat : ss[1] < ss[2]}
<1>1. IsWellFoundedOn(R, Nat)
  <2>1. R = OpToRel(<, Nat)
    BY Zenon DEF OpToRel
  <2> HIDE DEF R
  <2> QED
    BY <2>1, NatLessThanWellFounded, Zenon
<1>2. \A x, y \in Nat : y < x => <<y, x>> \in R
  OBVIOUS
<1> HIDE DEF R
<1>3. \E x \in S : \A y \in S : x <= y
  <2>1. PICK x \in S : \A y \in S : ~(<<y, x>> \in R)
    BY <1>1, WFMin
  <2>2. ASSUME NEW y \in S PROVE x <= y
    <3>1. x \in Nat /\ y \in Nat
      OBVIOUS
    <3>2. ~(y < x)
      BY <1>2, <2>1, <3>1
    <3> QED
      BY <3>1, <3>2
  <2> QED
    BY <2>2
<1> QED
  BY <1>3 DEF Min

(* Earliest is the least deadline, and Never without one.                  *)
LEMMA EarliestOf ==
    ASSUME WheelTypeOK
    PROVE  /\ Earliest(tasks) \in 0 .. Never /\ \A t \in tasks : Earliest(tasks) <= t.at
           /\ \A n \in 0 .. Never : (\A t \in tasks : n <= t.at) => n <= Earliest(tasks)
<1>1. CASE tasks = {}
  BY <1>1, WheelAssumption DEF Earliest, Never
<1>2. CASE tasks # {}
  <2>1. Deadlines(tasks) \subseteq 0 .. Horizon /\ Deadlines(tasks) # {}
    BY <1>2 DEF Deadlines, WheelTypeOK
  <2>2. Deadlines(tasks) \in SUBSET Nat
    BY <2>1, WheelAssumption
  <2>3. /\ Earliest(tasks) \in Deadlines(tasks)
        /\ \A d \in Deadlines(tasks) : Earliest(tasks) <= d
    BY <1>2, <2>1, <2>2, LeastOf DEF Earliest
  <2>4. \A t \in tasks : t.at \in Deadlines(tasks)
    BY DEF Deadlines
  <2>5. PICK t \in tasks : t.at = Earliest(tasks)
    BY <2>3 DEF Deadlines
  <2> QED
    BY <2>1, <2>3, <2>4, <2>5, WheelAssumption DEF Never
<1> QED
  BY <1>1, <1>2

(* Either notification wakes a waiter that sleeps.                         *)
LEMMA Notified ==
    ASSUME WheelTypeOK, NotifyWaiters \/ NotifyOne
    PROVE  /\ waiter' \in [at : {"running", "computed", "asleep"}, until : 0 .. Never]
           /\ permit' \in BOOLEAN /\ waiter'.at # "asleep"
           /\ waiter.at # "computed" => waiter'.at = "running"
BY DEF WheelTypeOK, NotifyWaiters, NotifyOne, Awake

(* Every step keeps the invariant.                                         *)
LEMMA WheelSteps == WheelInv /\ [WheelNext]_wheelVars => WheelInv'
<1> SUFFICES ASSUME WheelInv, [WheelNext]_wheelVars PROVE WheelInv'
  OBVIOUS
<1> USE DEF WheelInv
<1>1. ASSUME NEW at \in now .. Horizon, TimeoutAt(at) PROVE WheelInv'
  <2>1. at \in 0 .. Horizon
    BY WheelAssumption DEF WheelTypeOK
  <2>2. Min(unarmed) \in unarmed
    BY <1>1, LeastOf, WheelAssumption DEF TimeoutAt, WheelTypeOK
  <2>3. NotifyWaiters \/ NotifyOne
    BY <1>1 DEF TimeoutAt, ArmNotifies
  <2>4. [id |-> Min(unarmed), at |-> at] \in [id : TimerIds, at : 0 .. Horizon]
    BY <2>1, <2>2 DEF WheelTypeOK
  <2>5. WheelTypeOK'
    BY <1>1, <2>3, <2>4, Notified DEF TimeoutAt, WheelTypeOK
  <2>6. NeverOversleeps'
    BY <1>1, <2>3, Notified DEF TimeoutAt, OthersRun, NeverOversleeps
  <2> QED
    BY <2>5, <2>6
<1>2. ASSUME NEW t \in tasks, Cancel(t) PROVE WheelInv'
  <2>1. NotifyWaiters \/ NotifyOne
    BY <1>2 DEF Cancel
  <2>2. WheelTypeOK'
    BY <1>2, <2>1, Notified DEF Cancel, WheelTypeOK
  <2>3. NeverOversleeps'
    BY <1>2, <2>1, Notified DEF Cancel, OthersRun, NeverOversleeps
  <2> QED
    BY <2>2, <2>3
<1>3. CASE CollectReady
  <2>1. NextDeadline \in 0 .. Never /\ \A t \in tasks : NextDeadline <= t.at
    BY EarliestOf DEF NextDeadline
  <2>2. WheelTypeOK'
    BY <1>3, <2>1 DEF CollectReady, WheelTypeOK
  <2>3. NeverOversleeps'
    BY <1>3, <2>1 DEF CollectReady, NeverOversleeps
  <2> QED
    BY <2>2, <2>3
<1>4. CASE FallsAsleep
  BY <1>4 DEF FallsAsleep, WheelTypeOK, NeverOversleeps, Awake
<1>5. CASE SleepEnds
  BY <1>5 DEF SleepEnds, WheelTypeOK, NeverOversleeps, Awake
<1>6. CASE Tick
  <2>1. now' \in 0 .. Horizon
    BY <1>6, WheelAssumption DEF Tick, WheelTypeOK
  <2> QED
    BY <1>6, <2>1 DEF Tick, WheelTypeOK, NeverOversleeps
<1>7. CASE UNCHANGED wheelVars
  BY <1>7 DEF wheelVars, WheelTypeOK, NeverOversleeps
<1> QED
  BY <1>1, <1>2, <1>3, <1>4, <1>5, <1>6, <1>7 DEF WheelNext

(* The inductive invariant of the wheel.                                   *)
LEMMA WheelInvariant == WheelSpec => []WheelInv
<1>1. ASSUME WheelInit PROVE WheelInv
  <2>1. 0 \in 0 .. Horizon /\ Never \in 0 .. Never
    BY WheelAssumption DEF Never
  <2>2. WheelTypeOK
    BY <1>1, <2>1 DEF WheelInit, WheelTypeOK
  <2> QED
    BY <1>1, <2>2 DEF WheelInit, WheelInv, NeverOversleeps
<1> QED
  BY <1>1, WheelSteps, PTL DEF WheelSpec

(* Types of the wheel.                                                     *)
THEOREM WheelTyping == WheelSpec => []WheelTypeOK
BY WheelInvariant, PTL DEF WheelInv

(* The safety half of TimersFire: whatever timers are armed and cancelled  *)
(* around its waits, on one thread wait_for_ready never sleeps past the    *)
(* earliest deadline of the wheel.                                         *)
THEOREM WakesInTime ==
    WheelSpec => [](~TwoThreads /\ waiter.at = "asleep" => waiter.until <= Earliest(tasks))
<1>1. WheelInv => (~TwoThreads /\ waiter.at = "asleep" => waiter.until <= Earliest(tasks))
  BY EarliestOf DEF WheelInv, WheelTypeOK, NeverOversleeps
<1> QED
  BY <1>1, WheelInvariant, PTL

-----------------------------------------------------------------------------
(***************************************************************************)
(* Packets.                                                                *)
(*                                                                         *)
(* Of frames and channel events, those on their way are the last ones      *)
(* sent, in order (FlightIsLast); the messages sent are the whole packets, *)
(* in order (MessagesAreWhole); and as long as the loop runs, as many of   *)
(* them have been handed over as lie before the packet it is at            *)
(* (HandedIsPrefix).  So the whole packet it takes next is the next        *)
(* message.                                                                *)
(***************************************************************************)
Served == Len(packets) - Len(flight)

FlightIsLast == kind # "udp" => \A j \in 1 .. Len(flight) : flight[j] = Served + j

MessagesAreWhole ==
    /\ \A i \in 1 .. Len(messages) : packets[messages[i]] \in Whole
    /\ \A i, j \in 1 .. Len(messages) : i < j => messages[i] < messages[j]
    /\ \A k \in 1 .. Len(packets) :
          packets[k] \in Whole => \E i \in 1 .. Len(messages) : messages[i] = k

HandedIsPrefix ==
    kind # "udp" /\ serving =>
        /\ Len(arrived) <= Len(messages)
        /\ \A i \in 1 .. Len(messages) : messages[i] <= Served <=> i <= Len(arrived)

PacketInv == PacketTypeOK /\ FlightIsLast /\ MessagesAreWhole /\ HandedIsPrefix

(* A packet that is sent is the last of those on their way.                *)
LEMMA SendsPacketKeeps ==
    ASSUME PacketInv, NEW p, SendsPacket(p)
    PROVE  PacketInv'
<1> DEFINE n == Len(packets)
           S == 1 .. n
           T == 1 .. n + 1
<1>1. /\ p \in Sendable /\ n < MaxPackets /\ packets' = Append(packets, p)
      /\ messages' = (IF p \in Whole THEN Append(messages, n + 1) ELSE messages)
      /\ flight' = Append(flight, n + 1) /\ MaxPackets \in Nat
      /\ UNCHANGED <<kind, faults, serving, stopped, arrived, answers>>
  BY PacketAssumption DEF SendsPacket
<1>2. /\ packets \in Seq(Sendable) /\ n \in Nat /\ n <= MaxPackets
      /\ messages \in Seq(S) /\ flight \in Seq(S) /\ arrived \in Seq(S)
  BY DEF PacketInv, PacketTypeOK
<1>3. /\ packets' \in Seq(Sendable) /\ Len(packets') = n + 1 /\ packets'[n + 1] = p
      /\ \A i \in 1 .. n : packets'[i] = packets[i]
  BY <1>1, <1>2
<1>4. S \subseteq T /\ n + 1 \in T
  BY <1>2
<1>5. /\ messages \in Seq(T) /\ flight \in Seq(T) /\ arrived \in Seq(T)
      /\ messages' \in Seq(T) /\ flight' \in Seq(T)
      /\ Len(flight) \in Nat /\ Len(flight') = Len(flight) + 1
      /\ \A j \in 1 .. Len(flight) : flight'[j] = flight[j]
      /\ flight'[Len(flight) + 1] = n + 1 /\ Len(messages) \in Nat
      /\ p \in Whole => /\ Len(messages') = Len(messages) + 1
                        /\ \A i \in 1 .. Len(messages) : messages'[i] = messages[i]
                        /\ messages'[Len(messages) + 1] = n + 1
  <2> HIDE DEF n, S, T
  <2> QED
    BY <1>1, <1>2, <1>4
<1>6. Sendable' = Sendable /\ Served' = Served /\ Served \in Int /\ Served <= n
  BY <1>1, <1>2, <1>3, <1>5 DEF Sendable, Served
<1>7. PacketTypeOK'
  BY <1>1, <1>2, <1>3, <1>5, <1>6 DEF PacketInv, PacketTypeOK
<1> HIDE DEF S, T
<1>8. FlightIsLast'
  <2>1. ASSUME kind # "udp", NEW j \in 1 .. Len(flight') PROVE flight'[j] = Served + j
    <3>1. CASE j \in 1 .. Len(flight)
      BY <1>5, <2>1, <3>1 DEF PacketInv, FlightIsLast
    <3>2. CASE j = Len(flight) + 1
      BY <1>2, <1>5, <3>2 DEF Served
    <3> QED
      BY <1>5, <3>1, <3>2
  <2> QED
    BY <1>1, <1>6, <2>1 DEF FlightIsLast
<1>9. /\ \A i \in 1 .. Len(messages) : messages[i] \in 1 .. n
      /\ \A i \in 1 .. Len(messages) : packets'[messages[i]] \in Whole
      /\ \A i, j \in 1 .. Len(messages) : i < j => messages[i] < messages[j]
      /\ \A k \in 1 .. n : packets'[k] \in Whole => \E i \in 1 .. Len(messages) : messages[i] = k
      /\ \A k \in 1 .. n + 1 : k \in 1 .. n \/ k = n + 1
  <2>1. \A i \in 1 .. Len(messages) : messages[i] \in 1 .. n
    BY <1>2 DEF S
  <2>2. \A k \in 1 .. n + 1 : k \in 1 .. n \/ k = n + 1
    BY <1>2
  <2>3. /\ \A i \in 1 .. Len(messages) : packets[messages[i]] \in Whole
        /\ \A i, j \in 1 .. Len(messages) : i < j => messages[i] < messages[j]
        /\ \A k \in 1 .. n : packets[k] \in Whole => \E i \in 1 .. Len(messages) : messages[i] = k
    BY DEF PacketInv, MessagesAreWhole
  <2> HIDE DEF n
  <2>4. ASSUME NEW i \in 1 .. Len(messages) PROVE packets'[messages[i]] \in Whole
    <3>1. packets'[messages[i]] = packets[messages[i]]
      BY <1>3, <2>1
    <3> QED
      BY <2>3, <3>1
  <2>5. ASSUME NEW k \in 1 .. n, packets'[k] \in Whole
        PROVE  \E i \in 1 .. Len(messages) : messages[i] = k
    BY <1>3, <2>3, <2>5
  <2> QED
    BY <2>1, <2>2, <2>3, <2>4, <2>5
<1>10. CASE p \notin Whole
  <2>1. UNCHANGED messages
    BY <1>1, <1>10
  <2> HIDE DEF n
  <2>2. \A k \in 1 .. n + 1 : packets'[k] \in Whole => \E i \in 1 .. Len(messages) : messages[i] = k
    BY <1>3, <1>9, <1>10
  <2>3. MessagesAreWhole'
    BY <1>3, <1>9, <2>1, <2>2 DEF MessagesAreWhole
  <2>4. HandedIsPrefix'
    BY <1>1, <1>6, <2>1 DEF PacketInv, HandedIsPrefix
  <2> QED
    BY <1>7, <1>8, <2>3, <2>4 DEF PacketInv
<1>11. CASE p \in Whole
  <2> DEFINE m == Len(messages)
  <2>1. /\ m \in Nat /\ Len(messages') = m + 1 /\ messages'[m + 1] = n + 1
        /\ \A i \in 1 .. m : messages'[i] = messages[i]
    BY <1>5, <1>11
  <2> HIDE DEF n, m
  <2>2. \A i \in 1 .. m + 1 : i \in 1 .. m \/ i = m + 1
    BY <2>1
  <2>3. \A i \in 1 .. m + 1 : packets'[messages'[i]] \in Whole
    BY <1>3, <1>9, <1>11, <2>1, <2>2 DEF m
  <2>4. ASSUME NEW i \in 1 .. m + 1, NEW j \in 1 .. m + 1, i < j
        PROVE  messages'[i] < messages'[j]
    <3>1. i \in 1 .. m /\ messages'[i] = messages[i] /\ messages[i] \in 1 .. n
      BY <1>9, <2>1, <2>4 DEF m
    <3>2. CASE j = m + 1
      BY <1>2, <2>1, <3>1, <3>2
    <3>3. CASE j \in 1 .. m
      BY <1>9, <2>1, <2>4, <3>1, <3>3 DEF m
    <3> QED
      BY <2>2, <3>2, <3>3
  <2>5. ASSUME NEW k \in 1 .. n + 1, packets'[k] \in Whole
        PROVE  \E i \in 1 .. m + 1 : messages'[i] = k
    <3>1. CASE k = n + 1
      BY <2>1, <3>1
    <3>2. CASE k \in 1 .. n
      <4>1. PICK i \in 1 .. m : messages[i] = k
        BY <1>9, <2>5, <3>2 DEF m
      <4> QED
        BY <2>1, <4>1
    <3> QED
      BY <1>9, <3>1, <3>2
  <2>6. MessagesAreWhole'
    BY <1>3, <2>1, <2>3, <2>4, <2>5 DEF MessagesAreWhole
  <2>7. HandedIsPrefix'
    <3>1. ASSUME kind # "udp", serving PROVE m + 1 > Len(arrived) /\ Len(arrived) \in Nat
      BY <1>2, <2>1, <3>1 DEF PacketInv, HandedIsPrefix, m
    <3> QED
      BY <1>1, <1>2, <1>6, <2>1, <2>2, <3>1 DEF PacketInv, HandedIsPrefix, m
  <2> QED
    BY <1>7, <1>8, <2>6, <2>7 DEF PacketInv
<1> QED
  BY <1>10, <1>11

(* The network touches datagrams only.                                     *)
LEMMA FaultyKeeps ==
    ASSUME PacketInv, NEW f \in Seq(1 .. Len(packets)), Faulty(f)
    PROVE  PacketInv'
<1>1. /\ kind = "udp" /\ faults < MaxCopies /\ faults' = faults + 1 /\ flight' = f
      /\ UNCHANGED <<kind, packets, messages, serving, stopped, arrived, answers>>
  BY DEF Faulty
<1>2. faults' \in 0 .. MaxCopies
  BY <1>1, PacketAssumption DEF PacketInv, PacketTypeOK
<1>3. PacketTypeOK'
  BY <1>1, <1>2 DEF PacketInv, PacketTypeOK, Sendable
<1> QED
  BY <1>1, <1>3 DEF PacketInv, FlightIsLast, MessagesAreWhole, HandedIsPrefix

(* What is left of the datagrams is datagrams that were sent.              *)
LEMMA FaultyTyped ==
    ASSUME PacketInv, NEW i \in 1 .. Len(flight)
    PROVE  /\ RemoveAt(flight, i) \in Seq(1 .. Len(packets))
           /\ Append(flight, flight[i]) \in Seq(1 .. Len(packets))
           /\ <<flight[i]>> \o RemoveAt(flight, i) \in Seq(1 .. Len(packets))
<1> DEFINE S == 1 .. Len(packets)
<1>1. flight \in Seq(S) /\ Len(flight) \in Nat
  BY DEF PacketInv, PacketTypeOK
<1> HIDE DEF S
<1>2. flight[i] \in S /\ i \in Nat /\ i >= 1 /\ i <= Len(flight)
  BY <1>1
<1>3. SubSeq(flight, 1, i - 1) \in Seq(S)
  <2>1. \A j \in 1 .. i - 1 : flight[j] \in S
    BY <1>1, <1>2
  <2>2. SubSeq(flight, 1, i - 1) = [j \in 1 .. i - 1 |-> flight[j]]
    BY <1>1, <1>2
  <2> QED
    BY <1>2, <2>1, <2>2
<1>4. SubSeq(flight, i + 1, Len(flight)) \in Seq(S)
  BY <1>1, <1>2
<1>5. RemoveAt(flight, i) \in Seq(S)
  BY <1>3, <1>4 DEF RemoveAt
<1>6. <<flight[i]>> \in Seq(S)
  BY <1>2
<1>7. Append(flight, flight[i]) \in Seq(S) /\ <<flight[i]>> \o RemoveAt(flight, i) \in Seq(S)
  BY <1>1, <1>2, <1>5, <1>6
<1> QED
  BY <1>5, <1>7 DEF S

(* A serve loop takes the head: it hands a whole message over, and nothing *)
(* else, or it ends.                                                       *)
LEMMA ServedOne ==
    ASSUME PacketInv, PacketServed
    PROVE  /\ serving /\ flight # <<>> /\ flight' = Tail(flight)
           /\ UNCHANGED <<kind, packets, messages, faults, stopped>>
           /\ serving' \in BOOLEAN /\ answers' \in Nat
           /\ \/ packets[flight[1]] \in Whole /\ arrived' = Append(arrived, flight[1]) /\ UNCHANGED serving
              \/ ((packets[flight[1]] \in Whole) => kind = "udp") /\ UNCHANGED <<arrived, serving>>
              \/ ~serving' /\ UNCHANGED arrived
<1>1. /\ packets \in Seq(Sendable) /\ flight \in Seq(1 .. Len(packets))
      /\ serving \in BOOLEAN /\ answers \in Nat
  BY DEF PacketInv, PacketTypeOK
<1>2. Takes /\ UNCHANGED <<kind, packets, messages, faults, stopped>>
  BY DEF PacketServed, ServesWs, ServesUdp, ServesChannel
<1>3. flight # <<>> /\ flight[1] \in 1 .. Len(packets) /\ Head1 \in Sendable
  BY <1>1, <1>2 DEF Takes, Head1
<1>4. (packets[flight[1]] \in Whole) <=> Head1 \in {"text", "binary"}
  BY DEF Whole, Head1
<1>5. CASE ServesWs
  <2>1. kind = "ws" /\ Takes /\ ServesFrame
    BY <1>5 DEF ServesWs
  <2>2. CASE Head1 \in {"text", "binary"}
    <3>1. Hands
      BY <2>1, <2>2 DEF ServesFrame, Whole
    <3> QED
      BY <1>1, <1>2, <1>3, <1>4, <2>2, <3>1 DEF Hands, Takes
  <2>3. CASE Head1 \in {"keepalive", "ping"}
    <3>1. Replies
      BY <2>1, <2>3 DEF ServesFrame, Whole
    <3>2. packets[flight[1]] \notin Whole
      BY <1>4, <2>3
    <3> QED
      BY <1>1, <1>2, <1>3, <3>1, <3>2 DEF Replies, Takes
  <2>4. CASE Head1 = "malformed"
    <3>1. Skips
      BY <2>1, <2>4 DEF ServesFrame, Whole
    <3>2. packets[flight[1]] \notin Whole
      BY <1>4, <2>4
    <3> QED
      BY <1>1, <1>2, <1>3, <3>1, <3>2 DEF Skips, Takes
  <2>5. CASE Head1 \notin {"text", "binary", "keepalive", "ping", "malformed"}
    <3>1. Ends
      BY <2>1, <2>5 DEF ServesFrame, Whole
    <3> QED
      BY <1>1, <1>2, <1>3, <3>1 DEF Ends, Takes
  <2> QED
    BY <2>2, <2>3, <2>4, <2>5
<1>6. CASE ServesUdp
  <2>1. kind = "udp" /\ Takes /\ ServesDatagram
    BY <1>6 DEF ServesUdp
  <2>2. CASE Head1 = "text"
    <3>1. Hands
      BY <2>1, <2>2 DEF ServesDatagram
    <3> QED
      BY <1>1, <1>2, <1>3, <1>4, <2>2, <3>1 DEF Hands, Takes
  <2>3. CASE Head1 = "keepalive"
    <3>1. Replies
      BY <2>1, <2>3 DEF ServesDatagram
    <3> QED
      BY <1>1, <1>2, <1>3, <2>1, <3>1 DEF Replies, Takes
  <2>4. CASE Head1 \notin {"text", "keepalive"}
    <3>1. Skips
      BY <2>1, <2>4 DEF ServesDatagram
    <3> QED
      BY <1>1, <1>2, <1>3, <2>1, <3>1 DEF Skips, Takes
  <2> QED
    BY <2>2, <2>3, <2>4
<1>7. CASE ServesChannel
  BY <1>1, <1>2, <1>3, <1>4, <1>7 DEF ServesChannel, Hands, Takes, Sendable
<1> QED
  BY <1>5, <1>6, <1>7 DEF PacketServed

(* The packet taken is the next one, and a whole message is handed over.   *)
LEMMA PacketServedKeeps ==
    ASSUME PacketInv, PacketServed
    PROVE  PacketInv' /\ [Promised!Next]_(Promised!streamVars)
<1> DEFINE n == Len(packets)
           k == Served + 1
<1>1. /\ serving /\ flight # <<>> /\ flight' = Tail(flight)
      /\ UNCHANGED <<kind, packets, messages, faults, stopped>>
      /\ serving' \in BOOLEAN /\ answers' \in Nat
  BY ServedOne
<1>2. \/ packets[flight[1]] \in Whole /\ arrived' = Append(arrived, flight[1]) /\ UNCHANGED serving
      \/ ((packets[flight[1]] \in Whole) => kind = "udp") /\ UNCHANGED <<arrived, serving>>
      \/ ~serving' /\ UNCHANGED arrived
  BY ServedOne
<1>3. /\ n \in Nat /\ flight \in Seq(1 .. n) /\ arrived \in Seq(1 .. n)
  BY DEF PacketInv, PacketTypeOK
<1>4. /\ Len(flight) \in Nat /\ Len(flight) > 0 /\ flight[1] \in 1 .. n
      /\ flight' \in Seq(1 .. n) /\ Len(flight') = Len(flight) - 1
      /\ \A j \in 1 .. Len(flight) - 1 : flight'[j] = flight[j + 1]
  <2> HIDE DEF n
  <2> QED
    BY <1>1, <1>3
<1>5. Served \in Int /\ Served' = Served + 1
  BY <1>1, <1>3, <1>4 DEF Served
<1>6. kind # "udp" => flight[1] = k
  BY <1>4 DEF PacketInv, FlightIsLast
<1>7. arrived' \in Seq(1 .. n)
  <2>1. CASE UNCHANGED arrived
    BY <1>3, <2>1
  <2>2. CASE arrived' = Append(arrived, flight[1])
    <3> DEFINE x == flight[1]
               S == 1 .. n
    <3>1. arrived \in Seq(S) /\ x \in S /\ arrived' = Append(arrived, x)
      BY <1>3, <1>4, <2>2
    <3> HIDE DEF x, S
    <3>2. arrived' \in Seq(S)
      BY <3>1
    <3> QED
      BY <3>2 DEF S
  <2> QED
    BY <1>2, <2>1, <2>2
<1>8. Len(arrived) \in Nat
  BY <1>3
<1>9. PacketTypeOK'
  BY <1>1, <1>4, <1>7 DEF PacketInv, PacketTypeOK, Sendable
<1>10. FlightIsLast'
  <2>1. ASSUME kind # "udp", NEW j \in 1 .. Len(flight') PROVE flight'[j] = Served' + j
    <3>1. j + 1 \in 1 .. Len(flight) /\ flight'[j] = flight[j + 1] /\ j \in Nat
      BY <1>4
    <3>2. flight[j + 1] = Served + (j + 1)
      BY <2>1, <3>1 DEF PacketInv, FlightIsLast
    <3> QED
      BY <1>5, <3>1, <3>2
  <2> QED
    BY <1>1, <2>1 DEF FlightIsLast
<1>11. MessagesAreWhole'
  BY <1>1 DEF PacketInv, MessagesAreWhole
<1>12. HandedIsPrefix' /\ [Promised!Next]_(Promised!streamVars)
  <2>1. CASE kind = "udp"
    BY <1>1, <2>1 DEF HandedIsPrefix, Promised!Next, Promised!Garbles
  <2>2. CASE ~serving'
    <3>1. UNCHANGED arrived
      BY <1>2, <1>1, <2>2
    <3>2. Promised!Break
      BY <1>1, <2>2, <3>1 DEF Promised!Break
    <3> QED
      BY <2>2, <3>2 DEF HandedIsPrefix, Promised!Next
  <2>3. CASE kind # "udp" /\ serving' /\ UNCHANGED arrived
    <3>1. packets[k] \notin Whole
      <4>1. arrived' # Append(arrived, flight[1])
        BY <1>3, <1>4, <2>3
      <4> QED
        BY <1>2, <1>6, <2>3, <4>1
    <3>2. \A i \in 1 .. Len(messages) : messages[i] # k /\ messages[i] \in Nat
      BY <1>3, <3>1 DEF PacketInv, PacketTypeOK, MessagesAreWhole
    <3>3. HandedIsPrefix'
      BY <1>1, <1>5, <2>3, <3>2 DEF PacketInv, HandedIsPrefix
    <3> QED
      BY <1>1, <2>3, <3>3 DEF Promised!streamVars
  <2>4. CASE /\ kind # "udp" /\ serving' /\ arrived' = Append(arrived, flight[1])
             /\ packets[flight[1]] \in Whole
    <3> DEFINE a == Len(arrived)
    <3>1. /\ Len(messages) \in Nat /\ a \in Nat /\ Len(arrived') = a + 1 /\ a <= Len(messages)
          /\ \A i \in 1 .. Len(messages) : messages[i] \in 1 .. n
          /\ \A i \in 1 .. Len(messages) : messages[i] <= Served <=> i <= a
          /\ \A i, j \in 1 .. Len(messages) : i < j => messages[i] < messages[j]
      <4>1. messages \in Seq(1 .. n)
        BY DEF PacketInv, PacketTypeOK
      <4>2. a \in Nat /\ Len(arrived') = a + 1
        <5> HIDE DEF n
        <5> QED
          BY <1>3, <1>4, <2>4
      <4>3. /\ a <= Len(messages)
            /\ \A i \in 1 .. Len(messages) : messages[i] <= Served <=> i <= a
        BY <1>1, <2>4 DEF PacketInv, HandedIsPrefix
      <4> QED
        BY <4>1, <4>2, <4>3 DEF PacketInv, MessagesAreWhole
    <3>2. PICK i \in 1 .. Len(messages) : messages[i] = k
      BY <1>4, <1>6, <2>4 DEF PacketInv, MessagesAreWhole
    <3> HIDE DEF n, a
    <3>3. i > a
      BY <1>5, <3>1, <3>2
    <3>4. i <= a + 1
      <4>1. SUFFICES ASSUME a + 1 < i PROVE FALSE
        BY <3>1
      <4>2. a + 1 \in 1 .. Len(messages) /\ messages[a + 1] < messages[i]
        BY <3>1, <4>1
      <4>3. messages[a + 1] > Served
        BY <1>5, <3>1, <4>2
      <4> QED
        BY <1>5, <3>1, <3>2, <4>2, <4>3
    <3>5. i = a + 1 /\ a + 1 <= Len(messages)
      BY <3>1, <3>2, <3>3, <3>4
    <3>6. \A m \in 1 .. Len(messages) : messages[m] <= Served + 1 <=> m <= a + 1
      <4> SUFFICES ASSUME NEW m \in 1 .. Len(messages)
                   PROVE  messages[m] <= Served + 1 <=> m <= a + 1
        OBVIOUS
      <4>1. CASE m <= a
        BY <1>5, <3>1, <4>1
      <4>2. CASE m = a + 1
        BY <1>5, <3>1, <3>2, <3>5, <4>2
      <4>3. CASE a + 1 < m
        <5>1. messages[a + 1] < messages[m] /\ messages[a + 1] = Served + 1
          BY <3>1, <3>2, <3>5, <4>3
        <5> QED
          BY <1>5, <3>1, <4>3, <5>1
      <4> QED
        BY <3>1, <4>1, <4>2, <4>3
    <3>7. HandedIsPrefix'
      BY <1>1, <1>5, <3>1, <3>5, <3>6 DEF HandedIsPrefix, a
    <3>8. Promised!Deliver
      BY <1>1, <1>6, <2>4, <3>1, <3>2, <3>5 DEF Promised!Deliver, a
    <3> QED
      BY <3>7, <3>8 DEF Promised!Next
  <2> QED
    BY <1>1, <1>2, <2>1, <2>2, <2>3, <2>4
<1> QED
  BY <1>9, <1>10, <1>11, <1>12 DEF PacketInv

(* Every step keeps the invariant.                                         *)
LEMMA PacketSteps ==
    PacketInv /\ [PacketNext]_packetVars => PacketInv' /\ [Promised!Next]_(Promised!streamVars)
<1> SUFFICES ASSUME PacketInv, [PacketNext]_packetVars
             PROVE  PacketInv' /\ [Promised!Next]_(Promised!streamVars)
  OBVIOUS
<1>1. ASSUME NEW p \in Frames \cup Datagrams, SendsPacket(p)
      PROVE  PacketInv' /\ [Promised!Next]_(Promised!streamVars)
  <2>1. PacketInv'
    BY <1>1, SendsPacketKeeps
  <2>2. CASE p \notin Whole
    <3>1. UNCHANGED <<kind, messages, serving, arrived>>
      BY <1>1, <2>2 DEF SendsPacket
    <3> QED
      BY <2>1, <3>1 DEF Promised!streamVars
  <2>3. CASE p \in Whole
    <3>1. Len(packets) + 1 \in 1 .. MaxPackets
      BY <1>1, PacketAssumption DEF SendsPacket, PacketInv, PacketTypeOK
    <3>2. Promised!Send(Len(packets) + 1)
      BY <1>1, <2>3 DEF SendsPacket, Promised!Send
    <3> QED
      BY <2>1, <3>1, <3>2 DEF Promised!Next
  <2> QED
    BY <2>1, <2>2, <2>3
<1>2. ASSUME NEW i \in 1 .. Len(flight), Loses(i) \/ Repeats(i) \/ Overtakes(i)
      PROVE  PacketInv' /\ [Promised!Next]_(Promised!streamVars)
  <2>1. PacketInv'
    BY <1>2, FaultyTyped, FaultyKeeps DEF Loses, Repeats, Overtakes
  <2>2. UNCHANGED <<kind, messages, serving, arrived>>
    BY <1>2 DEF Loses, Repeats, Overtakes, Faulty
  <2> QED
    BY <2>1, <2>2 DEF Promised!streamVars
<1>3. CASE Stops
  <2>1. UNCHANGED <<kind, packets, messages, flight, faults, arrived, answers>> /\ stopped' = TRUE
        /\ serving' = FALSE
    BY <1>3 DEF Stops
  <2>2. PacketTypeOK'
    BY <2>1 DEF PacketInv, PacketTypeOK, Sendable
  <2>3. PacketInv'
    BY <2>1, <2>2 DEF PacketInv, FlightIsLast, MessagesAreWhole, HandedIsPrefix, Served
  <2>4. Promised!Break
    BY <2>1 DEF Promised!Break
  <2> QED
    BY <2>3, <2>4 DEF Promised!Next
<1>4. CASE UNCHANGED packetVars
  <2>1. PacketInv'
    BY <1>4 DEF packetVars, PacketInv, PacketTypeOK, Sendable, FlightIsLast, MessagesAreWhole,
                HandedIsPrefix, Served
  <2> QED
    BY <1>4, <2>1 DEF packetVars, Promised!streamVars
<1> QED
  BY <1>1, <1>2, <1>3, <1>4, PacketServedKeeps DEF PacketNext

(* Nothing has been sent.                                                  *)
LEMMA PacketStarts == PacketInit => PacketInv /\ Promised!Init
<1> SUFFICES ASSUME PacketInit PROVE PacketInv /\ Promised!Init
  OBVIOUS
<1>1. /\ packets \in Seq(Sendable) /\ Len(packets) = 0 /\ flight \in Seq(1 .. Len(packets))
      /\ arrived \in Seq(1 .. Len(packets)) /\ messages \in Seq(1 .. Len(packets))
      /\ Len(flight) = 0 /\ Len(arrived) = 0 /\ Len(messages) = 0
  BY DEF PacketInit
<1>2. kind \in {"ws", "udp", "channel"} /\ faults = 0 /\ answers = 0
  BY Zenon DEF PacketInit
<1>3. serving \in BOOLEAN /\ stopped \in BOOLEAN
  BY Zenon DEF PacketInit
<1>4. PacketTypeOK
  BY <1>1, <1>2, <1>3, PacketAssumption DEF PacketTypeOK
<1>5. Promised!Init
  BY <1>3 DEF PacketInit, Promised!Init
<1> QED
  BY <1>1, <1>4, <1>5 DEF PacketInv, FlightIsLast, MessagesAreWhole, HandedIsPrefix, Served

(* Types of the packets' state.                                            *)
THEOREM PacketTyping == PacketSpec => []PacketTypeOK
<1>1. PacketInv => PacketTypeOK
  BY DEF PacketInv
<1> QED
  BY <1>1, PacketStarts, PacketSteps, PTL DEF PacketSpec

(* The serve loops of packets implement the promise, fairness apart: for   *)
(* any number of packets and faults, whatever malformed text, keepalives   *)
(* and pings come between, WebSocket frames and channel events are handed  *)
(* over once each, in order, without a gap, until the loop ends.           *)
THEOREM PacketsKeepPromise == PacketSpec => Promised!Keeps
  BY PacketStarts, PacketSteps, PTL DEF PacketSpec, Promised!Keeps

-----------------------------------------------------------------------------
(***************************************************************************)
(* The stream.                                                             *)
(*                                                                         *)
(* The octets between the writer and the decoder are those the decoder     *)
(* has not taken, those on the wire and those of the write that has begun. *)
(* While nothing is torn, a message in them is whole, what lies between    *)
(* messages is pairs of CR and LF (Framed), and the messages are the ones  *)
(* begun and not yet delivered, in order (InOrder).  The future of the     *)
(* seam sends the write that holds the lock and no other.                  *)
(***************************************************************************)
Stream == buffer \o onWire \o write.left

Covered(s, i) ==
    \E j \in 1 .. i : s[j] \in Messages /\ i < j + Len(Encode(s[j]))

Framed(s) ==
    /\ \A j \in 1 .. Len(s) : s[j] \in Messages =>
          /\ j + Len(Encode(s[j])) - 1 <= Len(s)
          /\ \A k \in 1 .. Len(Encode(s[j])) : s[j + k - 1] = Encode(s[j])[k]
    /\ \A i \in 1 .. Len(s) : \/ Covered(s, i)
                              \/ s[i] = CR /\ i < Len(s) /\ s[i + 1] = LF
                              \/ i > 1 /\ s[i] = LF /\ s[i - 1] = CR

InOrder(s, b, d) ==
    \E P \in [1 .. Len(b) - d -> 1 .. Len(s)] :
        /\ \A i \in 1 .. Len(b) - d : s[P[i]] = b[d + i]
        /\ \A i, j \in 1 .. Len(b) - d : i < j => P[i] < P[j]
        /\ \A k \in 1 .. Len(s) : s[k] \in Messages => \E i \in 1 .. Len(b) - d : P[i] = k

StreamIsFramed ==
    ~torn =>
        /\ write.at # "writing" => write.left = <<>>
        /\ sendFut = IF seam THEN write.left ELSE <<>>
        /\ Framed(Stream)
        /\ Len(delivered) <= Len(begun) /\ InOrder(Stream, begun, Len(delivered))

FramingInv == FramingTypeOK /\ StreamIsFramed

(* A message is its first octet, the blank line and a body; no other octet *)
(* of it looks like a message, and it does not end in CR.                  *)
LEMMA Encoded ==
    ASSUME NEW m \in Messages
    PROVE  /\ Encode(m) \in Seq(Octets) /\ Len(Encode(m)) \in Nat
           /\ Len(Encode(m)) = 5 + Len(Content[m]) /\ Len(Content[m]) \in Nat
           /\ Encode(m)[1] = m /\ Encode(m)[2] = CR /\ Encode(m)[3] = LF
           /\ Encode(m)[4] = CR /\ Encode(m)[5] = LF
           /\ \A k \in 2 .. Len(Encode(m)) : Encode(m)[k] \notin Messages
           /\ Encode(m)[Len(Encode(m))] # CR
<1>1. /\ m = Plain \/ m = Short \/ m = PingBody
      /\ Plain # Short /\ Plain # PingBody /\ Short # PingBody /\ m # Ping /\ m # Pong
  BY DEF Messages, Plain, Short, PingBody, Ping, Pong
<1>2. Encode(m) = <<m>> \o BlankLine \o Content[m]
  BY <1>1, Zenon DEF Encode
<1>3. Content[m] \in {<<>>, <<Body>>, BlankLine}
  BY <1>1, Zenon DEF Content
<1>4. /\ m \in Octets /\ CR \in Octets /\ LF \in Octets /\ Body \in Octets /\ CR # LF /\ CR # Body
      /\ CR \notin Messages /\ LF \notin Messages /\ Body \notin Messages
  BY DEF Octets, Messages, Plain, Short, PingBody, CR, LF, Body
<1> DEFINE h == <<m>> \o BlankLine
           c == Content[m]
<1>5. /\ h \in Seq(Octets) /\ Len(h) = 5
      /\ h[1] = m /\ h[2] = CR /\ h[3] = LF /\ h[4] = CR /\ h[5] = LF
  BY <1>4 DEF BlankLine
<1>6. /\ c \in Seq(Octets) /\ Len(c) \in {0, 1, 4}
      /\ \A k \in 1 .. Len(c) : c[k] \notin Messages
      /\ Len(c) > 0 => c[Len(c)] # CR
  <2>1. CASE c = <<>>
    BY <2>1
  <2>2. CASE c = <<Body>>
    BY <1>4, <2>2
  <2>3. CASE c = <<CR, LF, CR, LF>>
    BY <1>4, <2>3
  <2> HIDE DEF c
  <2> QED
    BY <1>3, <2>1, <2>2, <2>3 DEF BlankLine, c
<1> HIDE DEF h, c
<1>7. /\ Encode(m) \in Seq(Octets) /\ Len(Encode(m)) = 5 + Len(c)
      /\ \A k \in 1 .. 5 : Encode(m)[k] = h[k]
      /\ \A k \in 6 .. Len(Encode(m)) : Encode(m)[k] = c[k - 5]
  <2>1. Encode(m) = h \o c
    BY <1>2 DEF h, c
  <2>2. /\ h \o c \in Seq(Octets) /\ Len(h \o c) = 5 + Len(c)
        /\ \A k \in 1 .. 5 + Len(c) : (h \o c)[k] = IF k <= 5 THEN h[k] ELSE c[k - 5]
    <3>1. /\ h \o c \in Seq(Octets) /\ Len(h \o c) = Len(h) + Len(c)
          /\ \A k \in 1 .. Len(h) + Len(c) : (h \o c)[k] = IF k <= Len(h) THEN h[k] ELSE c[k - Len(h)]
      BY <1>5, <1>6, ConcatProperties, Zenon
    <3> QED
      BY <1>5, <3>1
  <2>3. Len(c) \in Nat
    BY <1>6
  <2> QED
    BY <2>1, <2>2, <2>3
<1>8. Len(c) \in Nat
  BY <1>6
<1>9. ASSUME NEW k \in 2 .. Len(Encode(m)) PROVE Encode(m)[k] \notin Messages
  <2>1. CASE k \in 2 .. 5
    <3>1. k = 2 \/ k = 3 \/ k = 4 \/ k = 5
      BY <2>1
    <3> QED
      BY <1>4, <1>5, <1>7, <3>1
  <2>2. CASE k \in 6 .. Len(Encode(m))
    <3>1. k - 5 \in 1 .. Len(c)
      BY <1>7, <1>8, <2>2
    <3> QED
      BY <1>6, <1>7, <2>2, <3>1
  <2> QED
    BY <1>7, <1>8, <2>1, <2>2
<1>10. Encode(m)[Len(Encode(m))] # CR
  <2>1. CASE Len(c) = 0
    BY <1>4, <1>5, <1>7, <2>1
  <2>2. CASE Len(c) > 0
    <3>1. Len(Encode(m)) \in 6 .. Len(Encode(m)) /\ Len(Encode(m)) - 5 = Len(c)
      BY <1>7, <1>8, <2>2
    <3> QED
      BY <1>6, <1>7, <2>2, <3>1
  <2> QED
    BY <1>8, <2>1, <2>2
<1> QED
  BY <1>5, <1>7, <1>8, <1>9, <1>10 DEF c

(* A keepalive is pairs of CR and LF.                                      *)
LEMMA Keepalives ==
    /\ Encode(Ping) = <<CR, LF, CR, LF>> /\ Encode(Pong) = <<CR, LF>>
    /\ Ping \notin Messages /\ Pong \notin Messages
    /\ CR \in Octets /\ LF \in Octets /\ CR # LF /\ CR \notin Messages /\ LF \notin Messages
<1>1. Ping # Pong
  BY DEF Ping, Pong
<1>2. Encode(Ping) = BlankLine /\ Encode(Pong) = <<CR, LF>>
  BY <1>1, Zenon DEF Encode
<1> QED
  BY <1>2 DEF BlankLine, Ping, Pong, Messages, Plain, Short, PingBody, CR, LF, Octets

(* Every item is a sequence of octets.                                     *)
LEMMA EncodedTyped ==
    ASSUME NEW item \in Items
    PROVE  Encode(item) \in Seq(Octets) /\ Len(Encode(item)) \in Nat
<1> DEFINE e == Encode(item)
<1>1. <<CR, LF, CR, LF>> \in Seq(Octets) /\ <<CR, LF>> \in Seq(Octets)
  BY Keepalives
<1>2. CASE item \in {Ping, Pong}
  <2>1. e = <<CR, LF, CR, LF>> \/ e = <<CR, LF>>
    BY <1>2, Keepalives
  <2> HIDE DEF e
  <2>2. e \in Seq(Octets) /\ Len(e) \in Nat
    BY <1>1, <2>1
  <2> QED
    BY <2>2 DEF e
<1>3. CASE item \in Messages
  BY <1>3, Encoded
<1> QED
  BY <1>2, <1>3 DEF Items

(* Octets that end with a message or with a pair can be taken away.        *)
LEMMA FramedDrop ==
    ASSUME NEW s \in Seq(Octets), Framed(s), NEW n \in 1 .. Len(s), s[n] # CR,
           \A j \in 1 .. n : s[j] \in Messages => j + Len(Encode(s[j])) - 1 <= n
    PROVE  Framed(SubSeq(s, n + 1, Len(s)))
<1> DEFINE t == SubSeq(s, n + 1, Len(s))
<1>1. /\ t \in Seq(Octets) /\ Len(s) \in Nat /\ n \in Nat /\ n >= 1 /\ n <= Len(s)
      /\ Len(t) = Len(s) - n /\ \A i \in 1 .. Len(t) : t[i] = s[n + i]
  OBVIOUS
<1> HIDE DEF t
<1>2. ASSUME NEW j \in 1 .. Len(t), t[j] \in Messages
      PROVE  /\ j + Len(Encode(t[j])) - 1 <= Len(t)
             /\ \A k \in 1 .. Len(Encode(t[j])) : t[j + k - 1] = Encode(t[j])[k]
  <2>1. n + j \in 1 .. Len(s) /\ t[j] = s[n + j]
    BY <1>1
  <2>2. /\ n + j + Len(Encode(t[j])) - 1 <= Len(s)
        /\ \A k \in 1 .. Len(Encode(t[j])) : s[n + j + k - 1] = Encode(t[j])[k]
    BY <1>2, <2>1 DEF Framed
  <2>3. Len(Encode(t[j])) \in Nat
    BY <1>2, Encoded
  <2>4. ASSUME NEW k \in 1 .. Len(Encode(t[j])) PROVE t[j + k - 1] = Encode(t[j])[k]
    <3>1. j + k - 1 \in 1 .. Len(t) /\ n + (j + k - 1) = n + j + k - 1
      BY <1>1, <2>2, <2>3
    <3> QED
      BY <1>1, <2>2, <3>1
  <2> QED
    BY <1>1, <2>2, <2>3, <2>4
<1>3. ASSUME NEW i \in 1 .. Len(t), ~Covered(t, i)
      PROVE  \/ t[i] = CR /\ i < Len(t) /\ t[i + 1] = LF
             \/ i > 1 /\ t[i] = LF /\ t[i - 1] = CR
  <2>1. n + i \in 1 .. Len(s) /\ t[i] = s[n + i]
    BY <1>1
  <2>2. ~Covered(s, n + i)
    <3> SUFFICES ASSUME NEW j \in 1 .. n + i, s[j] \in Messages, n + i < j + Len(Encode(s[j]))
                 PROVE  FALSE
      BY DEF Covered
    <3>1. Len(Encode(s[j])) \in Nat
      BY Encoded
    <3>2. CASE j <= n
      <4>1. j + Len(Encode(s[j])) - 1 <= n
        BY <3>2
      <4> QED
        BY <1>1, <3>1, <4>1
    <3>3. CASE j > n
      <4>1. j - n \in 1 .. i /\ j - n \in 1 .. Len(t) /\ n + (j - n) = j
        BY <1>1, <3>3
      <4>2. t[j - n] = s[j] /\ i < (j - n) + Len(Encode(s[j]))
        BY <1>1, <3>1, <4>1
      <4> QED
        BY <1>3, <4>1, <4>2 DEF Covered
    <3> QED
      BY <1>1, <3>2, <3>3
  <2>3. \/ s[n + i] = CR /\ n + i < Len(s) /\ s[n + i + 1] = LF
        \/ n + i > 1 /\ s[n + i] = LF /\ s[n + i - 1] = CR
    BY <2>1, <2>2 DEF Framed
  <2>4. CASE s[n + i] = CR /\ n + i < Len(s) /\ s[n + i + 1] = LF
    <3>1. i + 1 \in 1 .. Len(t) /\ n + (i + 1) = n + i + 1 /\ i < Len(t)
      BY <1>1, <2>4
    <3>2. t[i + 1] = s[n + i + 1]
      BY <1>1, <3>1
    <3> QED
      BY <2>1, <2>4, <3>1, <3>2
  <2>5. CASE s[n + i] = LF /\ s[n + i - 1] = CR
    <3>1. i # 1
      BY <1>1, <2>5
    <3>2. i - 1 \in 1 .. Len(t) /\ n + (i - 1) = n + i - 1
      BY <1>1, <3>1
    <3> QED
      BY <1>1, <2>1, <2>5, <3>2
  <2> QED
    BY <2>3, <2>4, <2>5
<1>4. Framed(t)
  BY <1>2, <1>3 DEF Framed
<1> QED
  BY <1>4 DEF t

(* Where the octets of two pieces are.                                     *)
LEMMA ConcatAt ==
    ASSUME NEW S, NEW s \in Seq(S), NEW e \in Seq(S)
    PROVE  /\ s \o e \in Seq(S) /\ Len(s \o e) = Len(s) + Len(e)
           /\ \A i \in 1 .. Len(s) : (s \o e)[i] = s[i]
           /\ \A i \in 1 .. Len(e) : (s \o e)[Len(s) + i] = e[i]
<1>1. Len(s) \in Nat /\ Len(e) \in Nat
  OBVIOUS
<1>2. ASSUME NEW i \in 1 .. Len(e) PROVE (s \o e)[Len(s) + i] = e[i]
  OBVIOUS
<1>3. ASSUME NEW i \in 1 .. Len(s) PROVE (s \o e)[i] = s[i]
  OBVIOUS
<1> QED
  BY <1>1, <1>2, <1>3

(* An item written after them keeps them framed.                           *)
LEMMA FramedAppend ==
    ASSUME NEW s \in Seq(Octets), Framed(s), NEW item \in Items
    PROVE  /\ s \o Encode(item) \in Seq(Octets) /\ Encode(item) \in Seq(Octets)
           /\ Framed(s \o Encode(item))
<1> DEFINE e == Encode(item)
           t == s \o e
           n == Len(s)
<1>1. e \in Seq(Octets) /\ Len(e) \in Nat
  BY EncodedTyped
<1>2. n \in Nat
  OBVIOUS
<1> HIDE DEF e
<1>3. /\ t \in Seq(Octets) /\ Len(t) = n + Len(e)
      /\ \A i \in 1 .. n : t[i] = s[i]
      /\ \A i \in 1 .. Len(e) : t[n + i] = e[i]
  BY <1>1, ConcatAt
<1> HIDE DEF t, n
<1>4. ASSUME NEW j \in 1 .. Len(t), j > n
      PROVE  j - n \in 1 .. Len(e) /\ t[j] = e[j - n] /\ n + (j - n) = j
  <2>1. j - n \in 1 .. Len(e) /\ n + (j - n) = j
    BY <1>1, <1>2, <1>3, <1>4
  <2>2. t[n + (j - n)] = e[j - n]
    BY <1>3, <2>1
  <2> QED
    BY <2>1, <2>2
<1>5. ASSUME NEW j \in 1 .. Len(t), t[j] \in Messages
      PROVE  /\ j + Len(Encode(t[j])) - 1 <= Len(t)
             /\ \A k \in 1 .. Len(Encode(t[j])) : t[j + k - 1] = Encode(t[j])[k]
  <2>1. CASE j <= n
    <3>1. j \in 1 .. n /\ t[j] = s[j]
      BY <1>2, <1>3, <2>1
    <3>2. /\ j + Len(Encode(t[j])) - 1 <= n
          /\ \A k \in 1 .. Len(Encode(t[j])) : s[j + k - 1] = Encode(t[j])[k]
      BY <1>5, <3>1 DEF Framed, n
    <3>3. Len(Encode(t[j])) \in Nat
      BY <1>5, Encoded
    <3>4. ASSUME NEW k \in 1 .. Len(Encode(t[j])) PROVE t[j + k - 1] = Encode(t[j])[k]
      <4>1. j + k - 1 \in 1 .. n
        BY <1>2, <3>1, <3>2, <3>3
      <4> QED
        BY <1>3, <3>2, <4>1
    <3> QED
      BY <1>1, <1>2, <1>3, <3>2, <3>3, <3>4
  <2>2. CASE j > n
    <3>1. j - n \in 1 .. Len(e) /\ t[j] = e[j - n] /\ n + (j - n) = j
      BY <1>4, <2>2
    <3>2. item \in Messages
      <4>1. CASE item = Ping
        BY <1>5, <3>1, <4>1, Keepalives DEF e
      <4>2. CASE item = Pong
        BY <1>5, <3>1, <4>2, Keepalives DEF e
      <4> QED
        BY <4>1, <4>2 DEF Items
    <3>3. /\ e = Encode(item) /\ e[1] = item
          /\ \A k \in 2 .. Len(e) : e[k] \notin Messages
      BY <3>2, Encoded DEF e
    <3>4. j - n = 1
      BY <1>1, <1>5, <3>1, <3>3
    <3>5. t[j] = item /\ j = n + 1
      BY <1>2, <3>1, <3>3, <3>4
    <3>6. ASSUME NEW k \in 1 .. Len(e) PROVE t[j + k - 1] = e[k]
      <4>1. j + k - 1 = n + k
        BY <1>2, <3>5
      <4> QED
        BY <1>3, <4>1
    <3> QED
      BY <1>1, <1>2, <1>3, <3>3, <3>5, <3>6
  <2> QED
    BY <1>2, <2>1, <2>2
<1>6. ASSUME NEW i \in 1 .. Len(t), ~Covered(t, i)
      PROVE  \/ t[i] = CR /\ i < Len(t) /\ t[i + 1] = LF
             \/ i > 1 /\ t[i] = LF /\ t[i - 1] = CR
  <2>1. CASE i <= n
    <3>1. i \in 1 .. n /\ t[i] = s[i]
      BY <1>2, <1>3, <2>1
    <3>2. ~Covered(s, i)
      <4> SUFFICES ASSUME NEW j \in 1 .. i, s[j] \in Messages, i < j + Len(Encode(s[j]))
                   PROVE  FALSE
        BY DEF Covered
      <4>1. t[j] = s[j]
        BY <1>2, <1>3, <3>1
      <4> QED
        BY <1>6, <4>1 DEF Covered
    <3>3. \/ s[i] = CR /\ i < n /\ s[i + 1] = LF
          \/ i > 1 /\ s[i] = LF /\ s[i - 1] = CR
      BY <3>1, <3>2 DEF Framed, n
    <3>4. CASE s[i] = CR /\ i < n /\ s[i + 1] = LF
      <4>1. i + 1 \in 1 .. n /\ i < Len(t)
        BY <1>1, <1>2, <1>3, <3>4
      <4>2. t[i + 1] = s[i + 1]
        BY <1>3, <4>1
      <4> QED
        BY <3>1, <3>4, <4>1, <4>2
    <3>5. CASE i > 1 /\ s[i] = LF /\ s[i - 1] = CR
      <4>1. i - 1 \in 1 .. n
        BY <1>2, <3>1, <3>5
      <4>2. t[i - 1] = s[i - 1]
        BY <1>3, <4>1
      <4> QED
        BY <3>1, <3>5, <4>2
    <3> QED
      BY <3>3, <3>4, <3>5
  <2>2. CASE i > n
    <3> DEFINE k == i - n
    <3>1. k \in 1 .. Len(e) /\ t[i] = e[k] /\ n + k = i
      BY <1>4, <2>2
    <3> HIDE DEF k
    <3>2. CASE item \in Messages
      <4>1. e = Encode(item) /\ e[1] = item
        BY <3>2, Encoded DEF e
      <4>2. 1 \in 1 .. Len(e) /\ n + 1 \in 1 .. i /\ i < n + 1 + Len(e)
        BY <1>1, <1>2, <3>1
      <4>3. t[n + 1] = item
        BY <1>3, <4>1, <4>2
      <4> QED
        BY <1>6, <3>2, <4>1, <4>2, <4>3 DEF Covered
    <3>3. CASE item \notin Messages
      <4>1. e = <<CR, LF, CR, LF>> \/ e = <<CR, LF>>
        BY <3>3, Keepalives DEF Items, e
      <4>2. /\ k = 1 \/ k = 2 \/ k = 3 \/ k = 4
            /\ k \in {1, 3} => e[k] = CR /\ k + 1 \in 1 .. Len(e) /\ e[k + 1] = LF
            /\ k \in {2, 4} => e[k] = LF /\ k - 1 \in 1 .. Len(e) /\ e[k - 1] = CR
        <5>1. CASE e = <<CR, LF, CR, LF>>
          <6>1. Len(e) = 4 /\ e[1] = CR /\ e[2] = LF /\ e[3] = CR /\ e[4] = LF
            BY <5>1
          <6>2. k = 1 \/ k = 2 \/ k = 3 \/ k = 4
            BY <3>1, <6>1
          <6> QED
            BY <6>1, <6>2
        <5>2. CASE e = <<CR, LF>>
          <6>1. Len(e) = 2 /\ e[1] = CR /\ e[2] = LF
            BY <5>2
          <6>2. k = 1 \/ k = 2
            BY <3>1, <6>1
          <6> QED
            BY <6>1, <6>2
        <5> QED
          BY <4>1, <5>1, <5>2
      <4>3. CASE k \in {1, 3}
        <5>1. i < Len(t) /\ i + 1 = n + (k + 1)
          BY <1>1, <1>2, <1>3, <3>1, <4>2, <4>3
        <5>2. t[i + 1] = LF
          BY <1>3, <4>2, <4>3, <5>1
        <5> QED
          BY <3>1, <4>2, <4>3, <5>1, <5>2
      <4>4. CASE k \in {2, 4}
        <5>1. i > 1 /\ i - 1 = n + (k - 1)
          BY <1>1, <1>2, <1>3, <3>1, <4>2, <4>4
        <5>2. t[i - 1] = CR
          BY <1>3, <4>2, <4>4, <5>1
        <5> QED
          BY <3>1, <4>2, <4>4, <5>1, <5>2
      <4> QED
        BY <4>2, <4>3, <4>4
    <3> QED
      BY <3>2, <3>3
  <2> QED
    BY <1>2, <2>1, <2>2
<1>7. Framed(t)
  BY <1>5, <1>6 DEF Framed
<1> QED
  BY <1>1, <1>3, <1>7 DEF t, e

(* What is left when the first octets have been taken.                     *)
LEMMA DropAt ==
    ASSUME NEW S, NEW s \in Seq(S), NEW n \in 0 .. Len(s)
    PROVE  /\ SubSeq(s, n + 1, Len(s)) \in Seq(S) /\ Len(s) \in Nat
           /\ Len(SubSeq(s, n + 1, Len(s))) = Len(s) - n
           /\ \A i \in 1 .. Len(s) - n : SubSeq(s, n + 1, Len(s))[i] = s[n + i]
OBVIOUS

(* Octets without a message leave the messages where they are.             *)
LEMMA OrderDrop ==
    ASSUME NEW s \in Seq(Octets), NEW b \in Seq(Messages), NEW d \in 0 .. Len(b),
           NEW n \in 1 .. Len(s), \A k \in 1 .. n : s[k] \notin Messages, InOrder(s, b, d)
    PROVE  InOrder(SubSeq(s, n + 1, Len(s)), b, d)
<1> DEFINE t == SubSeq(s, n + 1, Len(s))
           D == 1 .. Len(b) - d
<1>1. /\ Len(s) \in Nat /\ n \in Nat /\ n <= Len(s) /\ Len(t) = Len(s) - n
      /\ \A i \in 1 .. Len(t) : t[i] = s[n + i]
  BY DropAt
<1>2. \A i \in D : d + i \in 1 .. Len(b) /\ b[d + i] \in Messages
  OBVIOUS
<1> HIDE DEF t, D
<1>3. PICK P \in [D -> 1 .. Len(s)] :
        /\ \A i \in D : s[P[i]] = b[d + i]
        /\ \A i, j \in D : i < j => P[i] < P[j]
        /\ \A k \in 1 .. Len(s) : s[k] \in Messages => \E i \in D : P[i] = k
  BY DEF InOrder, D
<1> DEFINE Q == [i \in D |-> P[i] - n]
<1>4. ASSUME NEW i \in D PROVE P[i] \in Nat /\ P[i] > n /\ P[i] <= Len(s)
  <2>1. P[i] \in 1 .. Len(s) /\ s[P[i]] \in Messages
    BY <1>2, <1>3
  <2>2. P[i] \notin 1 .. n
    BY <2>1
  <2> QED
    BY <1>1, <2>1, <2>2
<1>5. ASSUME NEW i \in D PROVE Q[i] \in 1 .. Len(t) /\ n + Q[i] = P[i] /\ t[Q[i]] = b[d + i]
  <2>1. Q[i] \in 1 .. Len(t) /\ n + Q[i] = P[i]
    BY <1>1, <1>4
  <2> HIDE DEF Q
  <2>2. t[Q[i]] = s[n + Q[i]]
    BY <1>1, <2>1
  <2> QED
    BY <1>3, <2>1, <2>2
<1>6. ASSUME NEW i \in D, NEW j \in D, i < j PROVE Q[i] < Q[j]
  <2>1. P[i] < P[j]
    BY <1>3, <1>6
  <2> QED
    BY <1>1, <1>4, <2>1
<1>7. ASSUME NEW k \in 1 .. Len(t), t[k] \in Messages PROVE \E i \in D : Q[i] = k
  <2>1. n + k \in 1 .. Len(s) /\ s[n + k] \in Messages
    BY <1>1, <1>7
  <2>2. PICK i \in D : P[i] = n + k
    BY <1>3, <2>1
  <2>3. Q[i] = k
    BY <1>1, <2>2
  <2> QED
    BY <2>3
<1>8. Q \in [D -> 1 .. Len(t)]
  BY <1>5
<1> HIDE DEF Q
<1>9. InOrder(t, b, d)
  BY <1>5, <1>6, <1>7, <1>8 DEF InOrder, D
<1> QED
  BY <1>9 DEF t

(* A message at the head is the next of those begun.                       *)
LEMMA OrderTake ==
    ASSUME NEW s \in Seq(Octets), NEW b \in Seq(Messages), NEW d \in 0 .. Len(b),
           NEW n \in 1 .. Len(s), s[1] \in Messages,
           \A k \in 2 .. n : s[k] \notin Messages, InOrder(s, b, d)
    PROVE  /\ d < Len(b) /\ s[1] = b[d + 1]
           /\ InOrder(SubSeq(s, n + 1, Len(s)), b, d + 1)
<1> DEFINE t == SubSeq(s, n + 1, Len(s))
           D == 1 .. Len(b) - d
           E == 1 .. Len(b) - (d + 1)
<1>1. /\ Len(s) \in Nat /\ n \in Nat /\ n >= 1 /\ n <= Len(s) /\ Len(t) = Len(s) - n
      /\ \A i \in 1 .. Len(t) : t[i] = s[n + i]
  BY DropAt
<1>2. /\ \A i \in D : d + i \in 1 .. Len(b) /\ b[d + i] \in Messages /\ i \in Nat /\ i >= 1
      /\ \A i \in E : i \in D /\ i + 1 \in D /\ d + (i + 1) = d + 1 + i
      /\ \A i \in D : i > 1 => i - 1 \in E /\ i - 1 + 1 = i
      /\ Len(b) \in Nat /\ D # {} => 1 \in D /\ d < Len(b)
  OBVIOUS
<1> HIDE DEF t, D, E
<1>3. PICK P \in [D -> 1 .. Len(s)] :
        /\ \A i \in D : s[P[i]] = b[d + i]
        /\ \A i, j \in D : i < j => P[i] < P[j]
        /\ \A k \in 1 .. Len(s) : s[k] \in Messages => \E i \in D : P[i] = k
  BY DEF InOrder, D
<1>4. 1 \in D /\ d < Len(b) /\ P[1] = 1
  <2>1. PICK i \in D : P[i] = 1
    BY <1>1, <1>3
  <2>2. 1 \in D /\ d < Len(b)
    BY <1>2, <2>1
  <2>3. P[1] \in 1 .. Len(s) /\ (1 < i => P[1] < P[i])
    BY <1>3, <2>1, <2>2
  <2>4. i = 1
    BY <1>1, <1>2, <2>1, <2>3
  <2> QED
    BY <2>1, <2>2, <2>4
<1>5. s[1] = b[d + 1]
  BY <1>3, <1>4
<1> DEFINE Q == [i \in E |-> P[i + 1] - n]
<1>6. ASSUME NEW i \in E PROVE P[i + 1] \in Nat /\ P[i + 1] > n /\ P[i + 1] <= Len(s)
  <2>1. i + 1 \in D /\ 1 < i + 1
    BY <1>2
  <2>2. P[i + 1] \in 1 .. Len(s) /\ s[P[i + 1]] \in Messages /\ P[1] < P[i + 1]
    BY <1>2, <1>3, <1>4, <2>1
  <2>3. P[i + 1] \notin 2 .. n
    BY <2>2
  <2> QED
    BY <1>1, <1>4, <2>2, <2>3
<1>7. ASSUME NEW i \in E PROVE Q[i] \in 1 .. Len(t) /\ n + Q[i] = P[i + 1] /\ t[Q[i]] = b[d + 1 + i]
  <2>1. Q[i] \in 1 .. Len(t) /\ n + Q[i] = P[i + 1]
    BY <1>1, <1>6
  <2> HIDE DEF Q
  <2>2. t[Q[i]] = s[P[i + 1]]
    BY <1>1, <2>1
  <2>3. s[P[i + 1]] = b[d + (i + 1)]
    BY <1>2, <1>3
  <2> QED
    BY <1>2, <2>1, <2>2, <2>3
<1>8. ASSUME NEW i \in E, NEW j \in E, i < j PROVE Q[i] < Q[j]
  <2>1. i + 1 \in D /\ j + 1 \in D /\ i + 1 < j + 1
    BY <1>2, <1>8
  <2>2. P[i + 1] < P[j + 1]
    BY <1>3, <2>1
  <2> QED
    BY <1>1, <1>6, <2>2
<1>9. ASSUME NEW k \in 1 .. Len(t), t[k] \in Messages PROVE \E i \in E : Q[i] = k
  <2>1. n + k \in 1 .. Len(s) /\ s[n + k] \in Messages /\ n + k > 1
    BY <1>1, <1>9
  <2>2. PICK i \in D : P[i] = n + k
    BY <1>3, <2>1
  <2>3. i > 1
    BY <1>1, <1>2, <1>4, <2>1, <2>2
  <2>4. i - 1 \in E /\ i - 1 + 1 = i
    BY <1>2, <2>3
  <2>5. Q[i - 1] = P[i] - n
    BY <2>4
  <2>6. Q[i - 1] = k
    BY <1>1, <2>2, <2>5
  <2> QED
    BY <2>4, <2>6
<1>10. Q \in [E -> 1 .. Len(t)]
  BY <1>7
<1> HIDE DEF Q
<1>11. InOrder(t, b, d + 1)
  BY <1>7, <1>8, <1>9, <1>10 DEF InOrder, E
<1> QED
  BY <1>4, <1>5, <1>11 DEF t

(* An item written is the last; a message that is written the last one.    *)
LEMMA OrderAppend ==
    ASSUME NEW s \in Seq(Octets), NEW b \in Seq(Messages), NEW d \in 0 .. Len(b),
           NEW item \in Items, InOrder(s, b, d)
    PROVE  InOrder(s \o Encode(item), IF item \in Messages THEN Append(b, item) ELSE b, d)
<1> DEFINE e == Encode(item)
           t == s \o e
           D == 1 .. Len(b) - d
<1>1. e \in Seq(Octets) /\ Len(e) \in Nat
  BY EncodedTyped
<1> HIDE DEF e
<1>2. /\ Len(t) = Len(s) + Len(e) /\ Len(s) \in Nat
      /\ \A i \in 1 .. Len(s) : t[i] = s[i]
      /\ \A i \in 1 .. Len(e) : t[Len(s) + i] = e[i]
  BY <1>1, ConcatAt
<1>3. \A i \in D : d + i \in 1 .. Len(b) /\ i \in Nat /\ i <= Len(b) - d
  OBVIOUS
<1> HIDE DEF t, D
<1>4. PICK P \in [D -> 1 .. Len(s)] :
        /\ \A i \in D : s[P[i]] = b[d + i]
        /\ \A i, j \in D : i < j => P[i] < P[j]
        /\ \A k \in 1 .. Len(s) : s[k] \in Messages => \E i \in D : P[i] = k
  BY DEF InOrder, D
<1>5. \A i \in D : P[i] \in 1 .. Len(s) /\ P[i] \in 1 .. Len(t) /\ t[P[i]] = s[P[i]]
  <2> TAKE i \in D
  <2>1. P[i] \in 1 .. Len(s)
    BY <1>4
  <2> QED
    BY <1>1, <1>2, <2>1
<1>6. ASSUME NEW k \in 1 .. Len(t) PROVE k \in 1 .. Len(s) \/ k - Len(s) \in 1 .. Len(e)
  BY <1>1, <1>2
<1>7. \A k \in 1 .. Len(s) : t[k] \in Messages => \E i \in D : P[i] = k
  BY <1>2, <1>4
<1>8. CASE item \notin Messages
  <2>1. \A i \in 1 .. Len(e) : e[i] \notin Messages
    <3>1. CASE e = <<CR, LF, CR, LF>>
      BY <3>1, Keepalives
    <3>2. CASE e = <<CR, LF>>
      BY <3>2, Keepalives
    <3> QED
      BY <1>8, <3>1, <3>2, Keepalives DEF Items, e
  <2>2. ASSUME NEW k \in 1 .. Len(t), t[k] \in Messages PROVE \E i \in D : P[i] = k
    <3>1. k \in 1 .. Len(s)
      <4> SUFFICES ASSUME k - Len(s) \in 1 .. Len(e) PROVE FALSE
        BY <1>6
      <4>1. Len(s) + (k - Len(s)) = k
        BY <1>2
      <4>2. t[Len(s) + (k - Len(s))] = e[k - Len(s)]
        BY <1>2
      <4> QED
        BY <2>1, <2>2, <4>1, <4>2
    <3> QED
      BY <1>7, <2>2, <3>1
  <2>3. P \in [D -> 1 .. Len(t)]
    BY <1>5
  <2>4. \A i \in D : t[P[i]] = b[d + i]
    BY <1>4, <1>5
  <2>5. InOrder(t, b, d)
    BY <1>4, <2>2, <2>3, <2>4 DEF InOrder, D
  <2> QED
    BY <1>8, <2>5 DEF t, e
<1>9. CASE item \in Messages
  <2> DEFINE c == Append(b, item)
             m == Len(b) - d + 1
             E == 1 .. Len(c) - d
             Q == [i \in E |-> IF i = m THEN Len(s) + 1 ELSE P[i]]
  <2>1. /\ Len(c) - d = m /\ m \in Nat /\ d + m = Len(b) + 1
        /\ c[Len(b) + 1] = item /\ \A i \in D : c[d + i] = b[d + i]
        /\ \A i \in E : i = m \/ (i \in D /\ i < m)
        /\ m \in E /\ \A i \in D : i \in E /\ i < m /\ i \in Nat
    <3>1. /\ Len(c) = Len(b) + 1 /\ Len(b) \in Nat /\ c[Len(b) + 1] = item
          /\ \A i \in 1 .. Len(b) : c[i] = b[i]
      BY <1>9
    <3> HIDE DEF c
    <3>2. Len(c) - d = m /\ m \in Nat /\ d + m = Len(b) + 1 /\ m >= 1
      BY <3>1
    <3>3. \A i \in D : c[d + i] = b[d + i]
      BY <1>3, <3>1
    <3>4. \A i \in D : i \in E /\ i < m /\ i \in Nat
      BY <3>1, <3>2 DEF D
    <3>5. \A i \in E : i = m \/ (i \in D /\ i < m)
      BY <3>1, <3>2 DEF D
    <3> QED
      <4>1. m \in E
        BY <3>2
      <4> QED
        BY <3>1, <3>2, <3>3, <3>4, <3>5, <4>1
  <2>2. /\ e[1] = item /\ Len(e) >= 1 /\ \A k \in 2 .. Len(e) : e[k] \notin Messages
    <3>1. /\ e[1] = item /\ Len(e) = 5 + Len(Content[item]) /\ Len(Content[item]) \in Nat
          /\ \A k \in 2 .. Len(e) : e[k] \notin Messages
      BY <1>9, Encoded DEF e
    <3> QED
      BY <3>1
  <2>3. Len(s) + 1 \in 1 .. Len(t) /\ t[Len(s) + 1] = item
    BY <1>1, <1>2, <2>2
  <2> HIDE DEF c, m, E
  <2>4. Q[m] = Len(s) + 1 /\ \A i \in D : Q[i] = P[i]
    BY <2>1
  <2>5. Q \in [E -> 1 .. Len(t)]
    BY <1>5, <2>1, <2>3
  <2> HIDE DEF Q
  <2>6. ASSUME NEW i \in E PROVE t[Q[i]] = c[d + i]
    <3>1. CASE i = m
      BY <2>1, <2>3, <2>4, <3>1
    <3>2. CASE i \in D
      BY <1>4, <1>5, <2>1, <2>4, <3>2
    <3> QED
      BY <2>1, <3>1, <3>2
  <2>7. ASSUME NEW i \in E, NEW j \in E, i < j PROVE Q[i] < Q[j]
    <3>1. i \in D
      <4>1. i = m \/ i \in D
        BY <2>1
      <4>2. j = m \/ (j < m /\ j \in Nat)
        BY <2>1
      <4>3. i # m
        BY <2>1, <2>7, <4>2
      <4> QED
        BY <4>1, <4>3
    <3>2. CASE j = m
      BY <1>2, <1>5, <2>4, <3>1, <3>2
    <3>3. CASE j \in D
      BY <1>4, <2>4, <2>7, <3>1, <3>3
    <3> QED
      BY <2>1, <3>2, <3>3
  <2>8. ASSUME NEW k \in 1 .. Len(t), t[k] \in Messages PROVE \E i \in E : Q[i] = k
    <3>1. CASE k \in 1 .. Len(s)
      <4>1. PICK i \in D : P[i] = k
        BY <1>7, <2>8, <3>1
      <4> QED
        BY <2>1, <2>4, <4>1
    <3>2. CASE k - Len(s) \in 1 .. Len(e)
      <4>1. Len(s) + (k - Len(s)) = k
        BY <1>2
      <4>2. t[Len(s) + (k - Len(s))] = e[k - Len(s)]
        BY <1>2, <3>2
      <4>3. k - Len(s) = 1
        BY <1>1, <2>2, <2>8, <3>2, <4>1, <4>2
      <4>4. k = Len(s) + 1
        BY <1>2, <4>3
      <4> QED
        BY <2>1, <2>4, <4>4
    <3> QED
      BY <1>6, <3>1, <3>2
  <2>9. InOrder(t, c, d)
    BY <2>5, <2>6, <2>7, <2>8 DEF InOrder, E
  <2> QED
    BY <1>9, <2>9 DEF t, e, c
<1> QED
  BY <1>8, <1>9

(* Taking octets off the first piece takes them off the whole.             *)
LEMMA DropOfConcat ==
    ASSUME NEW S, NEW s \in Seq(S), NEW e \in Seq(S), NEW n \in 0 .. Len(s)
    PROVE  SubSeq(s, n + 1, Len(s)) \o e = SubSeq(s \o e, n + 1, Len(s \o e))
<1> DEFINE u == SubSeq(s, n + 1, Len(s))
           v == u \o e
           w == s \o e
           x == SubSeq(w, n + 1, Len(w))
<1>1. /\ u \in Seq(S) /\ Len(s) \in Nat /\ Len(e) \in Nat /\ n \in Nat /\ n <= Len(s)
      /\ Len(u) = Len(s) - n /\ \A i \in 1 .. Len(u) : u[i] = s[n + i]
  BY DropAt
<1> HIDE DEF u
<1>2. /\ v \in Seq(S) /\ Len(v) = Len(u) + Len(e)
      /\ \A i \in 1 .. Len(u) : v[i] = u[i]
      /\ \A i \in 1 .. Len(e) : v[Len(u) + i] = e[i]
  <2>1. u \in Seq(S)
    BY <1>1
  <2> QED
    BY ONLY <2>1, e \in Seq(S), ConcatAt
<1>3. /\ w \in Seq(S) /\ Len(w) = Len(s) + Len(e)
      /\ \A i \in 1 .. Len(s) : w[i] = s[i]
      /\ \A i \in 1 .. Len(e) : w[Len(s) + i] = e[i]
  BY ConcatAt
<1> HIDE DEF v, w
<1>4. /\ x \in Seq(S) /\ Len(x) = Len(w) - n /\ \A i \in 1 .. Len(x) : x[i] = w[n + i]
  BY <1>1, <1>3, DropAt
<1> HIDE DEF x
<1>5. ASSUME NEW i \in 1 .. Len(v) PROVE v[i] = x[i]
  <2>1. i \in 1 .. Len(x)
    BY <1>1, <1>2, <1>3, <1>4
  <2>2. CASE i <= Len(u)
    <3>1. i \in 1 .. Len(u) /\ n + i \in 1 .. Len(s)
      BY <1>1, <1>2, <2>2
    <3> QED
      BY <1>1, <1>2, <1>3, <1>4, <2>1, <3>1
  <2>3. CASE i > Len(u)
    <3> DEFINE j == i - Len(u)
    <3>1. j \in 1 .. Len(e) /\ Len(u) + j = i /\ Len(s) + j = n + i
      BY <1>1, <1>2, <2>3
    <3> HIDE DEF j
    <3>2. v[Len(u) + j] = e[j] /\ w[Len(s) + j] = e[j]
      BY <1>2, <1>3, <3>1
    <3> QED
      BY <1>4, <2>1, <3>1, <3>2
  <2> QED
    BY <1>1, <2>2, <2>3
<1>6. Len(v) = Len(x)
  BY <1>1, <1>2, <1>3, <1>4
<1>7. v = x
  BY <1>2, <1>4, <1>5, <1>6, SeqEqual
<1> QED
  BY <1>7 DEF v, x, w, u

(* The buffer is the head of the stream.                                   *)
LEMMA BufferIsHead ==
    ASSUME FramingTypeOK
    PROVE  /\ buffer \in Seq(Octets) /\ onWire \in Seq(Octets) /\ write.left \in Seq(Octets)
           /\ Stream \in Seq(Octets) /\ Len(Stream) \in Nat /\ Len(buffer) \in Nat
           /\ Len(buffer) <= Len(Stream)
           /\ \A i \in 1 .. Len(buffer) : Stream[i] = buffer[i]
<1>1. buffer \in Seq(Octets) /\ onWire \in Seq(Octets) /\ write.left \in Seq(Octets)
  BY DEF FramingTypeOK
<1> DEFINE h == buffer \o onWire
<1>2. /\ h \in Seq(Octets) /\ Len(h) = Len(buffer) + Len(onWire)
      /\ Len(buffer) \in Nat /\ Len(onWire) \in Nat /\ Len(write.left) \in Nat
      /\ \A i \in 1 .. Len(buffer) : h[i] = buffer[i]
  BY <1>1, ConcatAt
<1> HIDE DEF h
<1>3. /\ h \o write.left \in Seq(Octets) /\ Len(h \o write.left) = Len(h) + Len(write.left)
      /\ \A i \in 1 .. Len(h) : (h \o write.left)[i] = h[i]
  <2>1. h \in Seq(Octets) /\ write.left \in Seq(Octets)
    BY <1>1, <1>2
  <2> QED
    BY ONLY <2>1, ConcatAt
<1>4. Stream = h \o write.left
  BY DEF Stream, h
<1>5. ASSUME NEW i \in 1 .. Len(buffer) PROVE i \in 1 .. Len(h)
  BY <1>2
<1> QED
  BY <1>1, <1>2, <1>3, <1>4, <1>5

(* What the decoder takes off the buffer is taken off the stream.          *)
LEMMA BufferTaken ==
    ASSUME FramingTypeOK, NEW n \in 0 .. Len(buffer)
    PROVE  Rest(n) \o onWire \o write.left = SubSeq(Stream, n + 1, Len(Stream))
<1> DEFINE h == buffer \o onWire
<1>1. /\ buffer \in Seq(Octets) /\ onWire \in Seq(Octets) /\ write.left \in Seq(Octets)
      /\ Len(buffer) \in Nat /\ Len(onWire) \in Nat
      /\ h \in Seq(Octets) /\ Len(h) = Len(buffer) + Len(onWire)
  BY BufferIsHead, ConcatAt
<1>2. Rest(n) \o onWire = SubSeq(h, n + 1, Len(h))
  BY <1>1, DropOfConcat DEF Rest
<1> HIDE DEF h
<1>3. n \in 0 .. Len(h)
  BY <1>1
<1>4. SubSeq(h, n + 1, Len(h)) \o write.left
        = SubSeq(h \o write.left, n + 1, Len(h \o write.left))
  BY <1>1, <1>3, DropOfConcat
<1> QED
  BY <1>2, <1>4 DEF Stream, h

(* The blank line starts as no message does.                               *)
LEMMA BlankStarts == BlankLine[1] = CR
BY DEF BlankLine

(* What the buffer starts with.                                            *)
LEMMA Starts ==
    ASSUME FramingTypeOK
    PROVE  /\ StartsWith(<<CR, LF>>) <=> Len(buffer) >= 2 /\ buffer[1] = CR /\ buffer[2] = LF
           /\ StartsWith(BlankLine) <=> /\ Len(buffer) >= 4
                                        /\ buffer[1] = CR /\ buffer[2] = LF
                                        /\ buffer[3] = CR /\ buffer[4] = LF
<1>1. buffer \in Seq(Octets) /\ Len(buffer) \in Nat
  BY DEF FramingTypeOK
<1>2. ASSUME NEW p \in Seq(Octets), Len(p) <= Len(buffer)
      PROVE  StartsWith(p) <=> \A i \in 1 .. Len(p) : buffer[i] = p[i]
  <2> DEFINE q == SubSeq(buffer, 1, Len(p))
  <2>1. /\ q \in Seq(Octets) /\ Len(q) = Len(p) /\ Len(p) \in Nat
        /\ \A i \in 1 .. Len(p) : q[i] = buffer[i]
    BY <1>1, <1>2
  <2>2. SubSeq(p, 1, Len(p)) = p
    BY SubSeqFull
  <2>3. StartsWith(p) <=> p = q
    BY <1>2, <2>2 DEF StartsWith, IsPrefix
  <2> HIDE DEF q
  <2>4. (\A i \in 1 .. Len(p) : p[i] = q[i]) => p = q
    BY <2>1, SeqEqual
  <2> QED
    BY <2>1, <2>3, <2>4
<1>3. ASSUME NEW p, StartsWith(p) PROVE Len(p) <= Len(buffer)
  BY <1>3 DEF StartsWith, IsPrefix
<1>4. /\ <<CR, LF>> \in Seq(Octets) /\ Len(<<CR, LF>>) = 2
      /\ BlankLine \in Seq(Octets) /\ Len(BlankLine) = 4
      /\ <<CR, LF>>[1] = CR /\ <<CR, LF>>[2] = LF
      /\ BlankLine[1] = CR /\ BlankLine[2] = LF /\ BlankLine[3] = CR /\ BlankLine[4] = LF
  BY Keepalives DEF BlankLine
<1>5. \A i \in 1 .. 2 : i = 1 \/ i = 2
  OBVIOUS
<1>6. \A i \in 1 .. 4 : i = 1 \/ i = 2 \/ i = 3 \/ i = 4
  OBVIOUS
<1>7. StartsWith(<<CR, LF>>) <=> Len(buffer) >= 2 /\ buffer[1] = CR /\ buffer[2] = LF
  <2>1. CASE Len(buffer) >= 2
    <3>1. StartsWith(<<CR, LF>>) <=> \A i \in 1 .. 2 : buffer[i] = <<CR, LF>>[i]
      BY <1>1, <1>2, <1>4, <2>1
    <3> QED
      BY <1>4, <1>5, <2>1, <3>1
  <2>2. CASE ~(Len(buffer) >= 2)
    BY <1>1, <1>3, <1>4, <2>2
  <2> QED
    BY <2>1, <2>2
<1>8. StartsWith(BlankLine) <=> /\ Len(buffer) >= 4
                                /\ buffer[1] = CR /\ buffer[2] = LF
                                /\ buffer[3] = CR /\ buffer[4] = LF
  <2>1. CASE Len(buffer) >= 4
    <3>1. StartsWith(BlankLine) <=> \A i \in 1 .. 4 : buffer[i] = BlankLine[i]
      BY <1>1, <1>2, <1>4, <2>1
    <3> QED
      BY <1>4, <1>6, <2>1, <3>1
  <2>2. CASE ~(Len(buffer) >= 4)
    BY <1>1, <1>3, <1>4, <2>2
  <2> QED
    BY <2>1, <2>2
<1> QED
  BY <1>7, <1>8

(* A buffer that starts with no pair starts with a message, and once its   *)
(* length is there the decoder finds all of it.                            *)
LEMMA FindsMessage ==
    ASSUME FramingTypeOK, Framed(Stream), HeadersEnd # 0, Len(buffer) >= TotalLen,
           ~StartsWith(<<CR, LF>>)
    PROVE  /\ Stream[1] \in Messages /\ TotalLen = Len(Encode(Stream[1]))
           /\ TotalLen \in 1 .. Len(buffer)
           /\ Parses(SubSeq(buffer, 1, TotalLen)) = {Stream[1]}
<1> DEFINE Blanks == {n \in 4 .. Len(buffer) : SubSeq(buffer, n - 3, n) = BlankLine}
           m == Stream[1]
<1>1. /\ buffer \in Seq(Octets) /\ Len(buffer) \in Nat /\ Stream \in Seq(Octets)
      /\ Len(Stream) \in Nat /\ Len(buffer) <= Len(Stream)
      /\ \A i \in 1 .. Len(buffer) : Stream[i] = buffer[i]
  BY BufferIsHead
<1>2. Blanks # {} /\ HeadersEnd = Min(Blanks)
  BY DEF HeadersEnd
<1>3. PICK n \in 4 .. Len(buffer) : SubSeq(buffer, n - 3, n) = BlankLine
  BY <1>2
<1>4. Len(buffer) >= 4 /\ n \in Nat
  BY <1>1, <1>3
<1>5. ~(buffer[1] = CR /\ buffer[2] = LF)
  BY <1>4, Starts
<1>6. Stream[1] = buffer[1] /\ Stream[2] = buffer[2] /\ 1 \in 1 .. Len(Stream)
  BY <1>1, <1>4
<1>7. Stream[1] \in Messages
  <2>1. ~(Stream[1] = CR /\ Stream[2] = LF)
    BY <1>5, <1>6
  <2>2. Covered(Stream, 1)
    BY <1>6, <2>1 DEF Framed
  <2>3. PICK j \in 1 .. 1 : Stream[j] \in Messages
    BY <2>2 DEF Covered
  <2> QED
    BY <2>3
<1> HIDE DEF m
<1>8. /\ Len(Encode(m)) = 5 + Len(Content[m]) /\ Len(Content[m]) \in Nat /\ Len(Encode(m)) \in Nat
      /\ Encode(m) \in Seq(Octets)
      /\ Encode(m)[1] = m /\ Encode(m)[2] = CR /\ Encode(m)[3] = LF
      /\ Encode(m)[4] = CR /\ Encode(m)[5] = LF
      /\ \A k \in 2 .. Len(Encode(m)) : Encode(m)[k] \notin Messages
  BY <1>7, Encoded DEF m
<1>9. /\ Len(Encode(m)) <= Len(Stream)
      /\ \A k \in 1 .. Len(Encode(m)) : Stream[k] = Encode(m)[k]
  <2>1. /\ 1 + Len(Encode(m)) - 1 <= Len(Stream)
        /\ \A k \in 1 .. Len(Encode(m)) : Stream[1 + k - 1] = Encode(m)[k]
    BY <1>6, <1>7 DEF Framed, m
  <2>2. \A k \in 1 .. Len(Encode(m)) : 1 + k - 1 = k
    OBVIOUS
  <2> QED
    BY <1>8, <2>1, <2>2
<1>10. \A i \in 1 .. Len(buffer) : i \in 1 .. Len(Encode(m)) => buffer[i] = Encode(m)[i]
  BY <1>1, <1>9
<1>11. buffer[1] = m
  BY <1>6 DEF m
<1>12. 5 <= Len(buffer)
  <2> SUFFICES ASSUME ~(5 <= Len(buffer)) PROVE FALSE
    OBVIOUS
  <2> DEFINE l == Len(buffer)
  <2>5. l \in Nat /\ l >= 4 /\ n \in 4 .. l /\ ~(5 <= l)
    BY <1>1, <1>3, <1>4
  <2> HIDE DEF l
  <2>1. n = 4
    BY <2>5
  <2>2. SubSeq(buffer, 1, 4) = BlankLine
    BY <1>3, <2>1
  <2>3. SubSeq(buffer, 1, 4)[1] = buffer[1]
    BY <1>1, <1>4
  <2>4. buffer[1] = CR
    BY <2>2, <2>3, BlankStarts
  <2> QED
    BY <1>7, <1>11, <2>4, Keepalives DEF m
<1>13. SubSeq(buffer, 2, 5) = BlankLine
  <2>1. /\ SubSeq(buffer, 2, 5) \in Seq(Octets) /\ Len(SubSeq(buffer, 2, 5)) = 4
        /\ SubSeq(buffer, 2, 5)[1] = buffer[2] /\ SubSeq(buffer, 2, 5)[2] = buffer[3]
        /\ SubSeq(buffer, 2, 5)[3] = buffer[4] /\ SubSeq(buffer, 2, 5)[4] = buffer[5]
    <3>1. \A i \in 2 .. 5 : i \in 1 .. Len(buffer) /\ buffer[i] \in Octets
      BY <1>1, <1>12
    <3>2. /\ SubSeq(buffer, 2, 5) \in Seq(Octets) /\ Len(SubSeq(buffer, 2, 5)) = 4
          /\ \A i \in 1 .. 4 : SubSeq(buffer, 2, 5)[i] = buffer[2 + i - 1]
      BY ONLY <3>1, SubSeqProperties
    <3> QED
      BY ONLY <3>2
  <2>2. buffer[2] = CR /\ buffer[3] = LF /\ buffer[4] = CR /\ buffer[5] = LF
    <3>1. \A i \in 2 .. 5 : i \in 1 .. Len(buffer) /\ i \in 1 .. Len(Encode(m))
      BY ONLY <1>1, <1>8, <1>12
    <3>2. \A i \in 2 .. 5 : buffer[i] = Encode(m)[i]
      BY ONLY <1>10, <3>1
    <3> QED
      BY ONLY <1>8, <3>2
  <2>3. /\ BlankLine \in Seq(Octets) /\ Len(BlankLine) = 4
        /\ BlankLine[1] = CR /\ BlankLine[2] = LF /\ BlankLine[3] = CR /\ BlankLine[4] = LF
    BY Keepalives DEF BlankLine
  <2>4. ASSUME NEW i \in 1 .. 4 PROVE SubSeq(buffer, 2, 5)[i] = BlankLine[i]
    <3>1. i = 1 \/ i = 2 \/ i = 3 \/ i = 4
      OBVIOUS
    <3> QED
      BY <2>1, <2>2, <2>3, <3>1
  <2> QED
    BY <2>1, <2>3, <2>4, SeqEqual
<1>14. 5 \in Blanks /\ \A k \in Blanks : k >= 5 /\ k \in Nat
  <2>1. 5 \in Blanks
    BY <1>1, <1>12, <1>13
  <2>2. ASSUME NEW k \in Blanks, k = 4 PROVE FALSE
    <3>1. SubSeq(buffer, 1, 4) = BlankLine
      BY <2>2
    <3>2. SubSeq(buffer, 1, 4)[1] = buffer[1]
      BY <1>1, <1>4
    <3>3. buffer[1] = CR
      BY <3>1, <3>2, BlankStarts
    <3> QED
      BY <1>7, <1>11, <3>3, Keepalives DEF m
  <2>3. \A k \in Blanks : k \in 4 .. Len(buffer)
    OBVIOUS
  <2> HIDE DEF Blanks
  <2> QED
    BY <1>1, <2>1, <2>2, <2>3
<1> HIDE DEF Blanks
<1>15. HeadersEnd = 5
  <2>1. HeadersEnd \in Blanks /\ \A k \in Blanks : HeadersEnd <= k
    BY <1>2, <1>14, LeastOf
  <2> QED
    BY <1>14, <2>1
<1>16. ContentLength = Len(Content[m])
  <2> DEFINE Named == {k \in 1 .. HeadersEnd : buffer[k] \in Messages}
  <2>1. 1 \in Named /\ \A k \in Named : k >= 1 /\ k \in Nat
    BY <1>7, <1>11, <1>15 DEF m
  <2>2. ContentLength = Len(Content[buffer[Min(Named)]])
    BY <2>1 DEF ContentLength
  <2> HIDE DEF Named
  <2>3. Min(Named) \in Named /\ Min(Named) <= 1
    BY <2>1, LeastOf
  <2>4. Min(Named) = 1
    BY <2>1, <2>3
  <2> QED
    BY <1>11, <2>2, <2>4
<1>17. TotalLen = Len(Encode(m)) /\ TotalLen \in 1 .. Len(buffer)
  BY <1>1, <1>8, <1>15, <1>16 DEF TotalLen
<1> DEFINE octets == SubSeq(buffer, 1, TotalLen)
<1>18. octets = Encode(m)
  <2>1. /\ octets \in Seq(Octets) /\ Len(octets) = TotalLen
        /\ \A i \in 1 .. TotalLen : octets[i] = buffer[i]
    BY <1>1, <1>17
  <2> HIDE DEF octets
  <2>2. ASSUME NEW i \in 1 .. TotalLen PROVE octets[i] = Encode(m)[i]
    <3>1. i \in 1 .. Len(buffer) /\ i \in 1 .. Len(Encode(m))
      BY <1>1, <1>17
    <3> QED
      BY <1>10, <2>1, <3>1
  <2>3. \A i \in 1 .. Len(octets) : octets[i] = Encode(m)[i]
    BY <2>1, <2>2
  <2> QED
    BY <1>8, <1>17, <2>1, <2>3, SeqEqual
<1>19. {k \in Messages : Encode(k) = Encode(m)} = {m}
  <2>1. ASSUME NEW k \in Messages, Encode(k) = Encode(m) PROVE k = m
    <3>1. Encode(k)[1] = k
      BY Encoded
    <3> QED
      BY <1>8, <2>1, <3>1
  <2> QED
    BY <1>7, <2>1 DEF m
<1>20. Parses(octets) = {m}
  BY <1>18, <1>19 DEF Parses
<1> QED
  BY <1>7, <1>17, <1>20 DEF m

(* The length the decoder computes is a number.                            *)
LEMMA TotalLenTyped == FramingTypeOK /\ HeadersEnd # 0 => TotalLen \in Nat
<1> SUFFICES ASSUME FramingTypeOK, HeadersEnd # 0 PROVE TotalLen \in Nat
  OBVIOUS
<1> DEFINE Blanks == {n \in 4 .. Len(buffer) : SubSeq(buffer, n - 3, n) = BlankLine}
           Named  == {n \in 1 .. HeadersEnd : buffer[n] \in Messages}
<1>1. HeadersEnd \in Nat
  <2>1. Blanks # {} /\ HeadersEnd = Min(Blanks)
    BY DEF HeadersEnd
  <2>2. Blanks \in SUBSET Nat
    BY DEF FramingTypeOK
  <2> HIDE DEF Blanks
  <2>3. Min(Blanks) \in Blanks
    BY <2>1, <2>2, LeastOf
  <2> QED
    BY <2>1, <2>2, <2>3
<1>2. ContentLength = IF Named = {} THEN 0 ELSE Len(Content[buffer[Min(Named)]])
  BY DEF ContentLength
<1>3. Named \in SUBSET Nat /\ \A n \in Named : buffer[n] \in Messages
  BY <1>1
<1> HIDE DEF Named
<1>4. CASE Named = {}
  BY <1>1, <1>2, <1>4 DEF TotalLen
<1>5. CASE Named # {}
  <2>1. Min(Named) \in Named
    BY <1>3, <1>5, LeastOf
  <2>2. Len(Content[buffer[Min(Named)]]) \in Nat
    BY <1>3, <2>1, Encoded
  <2> QED
    BY <1>1, <1>2, <1>5, <2>2 DEF TotalLen
<1> QED
  BY <1>4, <1>5

(* Types are kept.                                                         *)
LEMMA FramingTyped == FramingTypeOK /\ [FramingNext]_framingVars => FramingTypeOK'
<1> SUFFICES ASSUME FramingTypeOK, [FramingNext]_framingVars PROVE FramingTypeOK'
  OBVIOUS
<1>0. /\ write.at \in {"free", "writing", "written"} /\ write.left \in Seq(Octets)
      /\ sendFut \in Seq(Octets) /\ onWire \in Seq(Octets) /\ buffer \in Seq(Octets)
      /\ Len(buffer) \in Nat /\ Len(onWire) \in Nat
      /\ writes \in 0 .. MaxWrites /\ begun \in Seq(Messages) /\ <<>> \in Seq(Octets)
  BY DEF FramingTypeOK
<1>1. ASSUME NEW i \in Items, Locks(i) PROVE FramingTypeOK'
  <2>1. Encode(i) \in Seq(Octets)
    BY EncodedTyped
  <2>2. writes' \in 0 .. MaxWrites /\ begun' \in Seq(Messages)
    BY <1>0, <1>1, FramingAssumption DEF Locks
  <2>3. write' \in [at : {"free", "writing", "written"}, left : Seq(Octets)]
    BY <1>1, <2>1 DEF Locks
  <2>4. sendFut' \in Seq(Octets)
    BY <1>0, <1>1, <2>1 DEF Locks
  <2> QED
    BY <1>1, <2>2, <2>3, <2>4 DEF Locks, FramingTypeOK
<1>2. CASE WritesAll
  <2>1. onWire' \in Seq(Octets) /\ write' \in [at : {"free", "writing", "written"}, left : Seq(Octets)]
    BY <1>0, <1>2 DEF WritesAll
  <2> QED
    BY <1>2, <2>1 DEF WritesAll, FramingTypeOK
<1>3. CASE SeamSends
  <2>1. onWire' \in Seq(Octets) /\ write' \in [at : {"free", "writing", "written"}, left : Seq(Octets)]
    BY <1>0, <1>3 DEF SeamSends
  <2> QED
    BY <1>0, <1>3, <2>1 DEF SeamSends, FramingTypeOK
<1>4. CASE WriterDropped
  <2> DEFINE left == IF seam THEN sendFut ELSE write.left
  <2>1. left \in Seq(Octets)
    BY <1>0
  <2>2. PICK n \in 0 .. Len(left) - 1 :
          /\ onWire' = onWire \o SubSeq(left, 1, n)
          /\ sendFut' = IF seam THEN SubSeq(left, n + 1, Len(left)) ELSE <<>>
    BY <1>4 DEF WriterDropped
  <2> HIDE DEF left
  <2>3. n \in 0 .. Len(left) /\ Len(left) \in Nat
    BY <2>1
  <2>4. SubSeq(left, 1, n) \in Seq(Octets) /\ SubSeq(left, n + 1, Len(left)) \in Seq(Octets)
    BY <2>1, <2>3
  <2>5. onWire' \in Seq(Octets) /\ sendFut' \in Seq(Octets)
    BY <1>0, <2>2, <2>4
  <2>6. write' \in [at : {"free", "writing", "written"}, left : Seq(Octets)]
    BY <1>0, <1>4 DEF WriterDropped
  <2> QED
    BY <1>4, <2>5, <2>6 DEF WriterDropped, FramingTypeOK
<1>5. CASE Read
  <2>1. PICK n \in 1 .. Len(onWire) :
          /\ buffer' = buffer \o SubSeq(onWire, 1, n)
          /\ onWire' = SubSeq(onWire, n + 1, Len(onWire))
    BY <1>5 DEF Read
  <2>2. SubSeq(onWire, 1, n) \in Seq(Octets) /\ onWire' \in Seq(Octets)
    BY <1>0, <2>1
  <2>3. buffer' \in Seq(Octets)
    BY <1>0, <2>1, <2>2
  <2> QED
    BY <1>5, <2>2, <2>3 DEF Read, FramingTypeOK
<1>6. CASE Decode
  <2>1. /\ loop = "decoding"
        /\ UNCHANGED <<seam, writes, begun, write, sendFut, onWire, torn>>
        /\ \/ DecodesPing /\ StartsWith(BlankLine)
           \/ DecodesPong /\ StartsWith(<<CR, LF>>)
           \/ DecodesMessage
           \/ NeedsMore
    BY <1>6, Zenon DEF Decode
  <2>2. ASSUME NEW n \in Nat PROVE Rest(n) \in Seq(Octets)
    BY <1>0 DEF Rest
  <2>3. CASE DecodesPing
    BY <2>1, <2>2, <2>3 DEF DecodesPing, FramingTypeOK
  <2>4. CASE DecodesPong
    BY <2>1, <2>2, <2>4 DEF DecodesPong, FramingTypeOK
  <2>5. CASE DecodesMessage
    <3>1. PICK m \in Parses(SubSeq(buffer, 1, TotalLen)) :
            IF m = Unparsed THEN loop' = "ended" /\ UNCHANGED <<buffer, delivered>>
            ELSE delivered' = Append(delivered, m) /\ buffer' = Rest(TotalLen) /\ UNCHANGED loop
      BY <2>5 DEF DecodesMessage
    <3>2. m \in Messages \cup {Garbled, Unparsed}
      BY DEF Parses
    <3>3. buffer' \in Seq(Octets)
      <4>1. TotalLen \in Nat
        BY <2>5, TotalLenTyped DEF DecodesMessage
      <4>2. Rest(TotalLen) \in Seq(Octets)
        BY <2>2, <4>1
      <4> QED
        BY <1>0, <3>1, <4>2
    <3>4. delivered' \in Seq(Messages \cup {Garbled})
      <4>1. delivered \in Seq(Messages \cup {Garbled})
        BY DEF FramingTypeOK
      <4>2. CASE m = Unparsed
        BY <3>1, <4>1, <4>2
      <4>3. CASE m # Unparsed
        <5>1. m \in Messages \cup {Garbled} /\ delivered' = Append(delivered, m)
          BY <3>1, <3>2, <4>3
        <5> QED
          BY <4>1, <5>1
      <4> QED
        BY <4>2, <4>3
    <3>5. loop' \in {"decoding", "ended"} /\ UNCHANGED pongs
      BY <2>1, <2>5, <3>1 DEF DecodesMessage
    <3> QED
      BY <2>1, <3>3, <3>4, <3>5 DEF FramingTypeOK
  <2>6. CASE NeedsMore
    BY <1>0, <2>1, <2>6, FramingAssumption DEF NeedsMore, FramingTypeOK
  <2> QED
    BY <2>1, <2>3, <2>4, <2>5, <2>6
<1>7. CASE StreamEnds
  BY <1>7 DEF StreamEnds, FramingTypeOK
<1>8. CASE UNCHANGED framingVars
  BY <1>8 DEF framingVars, FramingTypeOK
<1> QED
  BY <1>1, <1>2, <1>3, <1>4, <1>5, <1>6, <1>7, <1>8 DEF FramingNext

(* After the break nothing is said.                                        *)
LEMMA TornSaysNothing == torn' = TRUE => StreamIsFramed'
BY DEF StreamIsFramed

(* What holds of the octets after a step holds of the stream then.         *)
LEMMA FramedNow == Framed(Stream') => Framed(Stream)'
BY DEF Framed, Covered

(* The same of the order of its messages.                                  *)
LEMMA InOrderNow ==
    InOrder(Stream', begun', Len(delivered')) => InOrder(Stream, begun, Len(delivered))'
BY DEF InOrder

(* A write begins: nobody writes, so all octets of the others are out.     *)
LEMMA LocksKeeps ==
    ASSUME FramingInv, NEW i \in Items, Locks(i)
    PROVE  StreamIsFramed' /\ [Promise!Next]_(Promise!streamVars)
<1>1. /\ write.at # "writing" /\ write' = [at |-> "writing", left |-> Encode(i)]
      /\ begun' = (IF i \in Messages THEN Append(begun, i) ELSE begun)
      /\ sendFut' = (IF seam /\ sendFut = <<>> THEN Encode(i) ELSE sendFut)
      /\ UNCHANGED <<seam, onWire, buffer, loop, delivered, pongs, torn>>
  BY DEF Locks
<1>2. [Promise!Next]_(Promise!streamVars)
  <2>1. CASE i \in Messages
    <3>1. Promise!Send(i)
      BY <1>1, <2>1 DEF Promise!Send
    <3> QED
      BY <2>1, <3>1 DEF Promise!Next
  <2>2. CASE i \notin Messages
    BY <1>1, <2>2 DEF Promise!streamVars
  <2> QED
    BY <2>1, <2>2
<1>3. ASSUME ~torn PROVE StreamIsFramed'
  <2>1. /\ write.left = <<>> /\ sendFut = <<>> /\ Framed(Stream)
        /\ Len(delivered) <= Len(begun) /\ InOrder(Stream, begun, Len(delivered))
    BY <1>1, <1>3 DEF FramingInv, StreamIsFramed
  <2>2. /\ write'.at = "writing" /\ write'.left = Encode(i)
        /\ sendFut' = IF seam' THEN write'.left ELSE <<>>
    BY <1>1, <2>1
  <2>3. /\ begun \in Seq(Messages) /\ Len(begun) \in Nat /\ Len(delivered) \in Nat
        /\ buffer \in Seq(Octets) /\ onWire \in Seq(Octets)
    BY DEF FramingInv, FramingTypeOK
  <2>4. Stream \in Seq(Octets) /\ Stream' = Stream \o Encode(i)
    <3>1. buffer \o onWire \in Seq(Octets)
      BY <2>3
    <3>2. Stream = buffer \o onWire
      BY <2>1, <3>1, ConcatEmptySeq DEF Stream
    <3> QED
      BY <1>1, <2>2, <3>1, <3>2 DEF Stream
  <2>5. Framed(Stream')
    BY <2>1, <2>4, FramedAppend
  <2>6. Len(delivered) \in 0 .. Len(begun)
    BY <2>1, <2>3
  <2>7. InOrder(Stream', begun', Len(delivered))
    BY <1>1, <2>1, <2>3, <2>4, <2>6, OrderAppend
  <2>8. Len(delivered) <= Len(begun')
    <3>1. CASE i \in Messages
      BY <1>1, <2>1, <2>3, <3>1
    <3>2. CASE i \notin Messages
      BY <1>1, <2>1, <3>2
    <3> QED
      BY <3>1, <3>2
  <2>9. Framed(Stream)' /\ InOrder(Stream, begun, Len(delivered))'
    <3>1. InOrder(Stream', begun', Len(delivered'))
      BY <1>1, <2>7
    <3> QED
      BY <2>5, <3>1, FramedNow, InOrderNow
  <2> QED
    BY <1>1, <2>2, <2>8, <2>9 DEF StreamIsFramed
<1>4. CASE torn
  <2>1. torn = TRUE
    BY <1>4 DEF FramingInv, FramingTypeOK
  <2>2. torn' = TRUE
    BY <1>1, <2>1
  <2> QED
    BY <1>2, <2>2, TornSaysNothing
<1> QED
  BY <1>2, <1>3, <1>4

(* A step that moves octets along the stream, or none, and leaves writes   *)
(* and deliveries alone.                                                   *)
LEMMA StreamMoves ==
    ASSUME FramingInv, UNCHANGED <<begun, delivered, torn>>,
           ~torn => /\ Stream' = Stream /\ (write'.at # "writing" => write'.left = <<>>)
                    /\ sendFut' = IF seam' THEN write'.left ELSE <<>>
    PROVE  StreamIsFramed' /\ [Promise!Next]_(Promise!streamVars)
<1>1. [Promise!Next]_(Promise!streamVars)
  BY DEF Promise!streamVars
<1>2. ASSUME ~torn PROVE StreamIsFramed'
  <2>1. /\ Framed(Stream) /\ Len(delivered) <= Len(begun)
        /\ InOrder(Stream, begun, Len(delivered))
    BY <1>2 DEF FramingInv, StreamIsFramed
  <2>3. Stream' = Stream /\ begun' = begun /\ delivered' = delivered
    BY <1>2, Zenon
  <2>4. Framed(Stream') /\ InOrder(Stream', begun', Len(delivered'))
    BY <2>1, <2>3, Zenon
  <2>2. Framed(Stream)' /\ InOrder(Stream, begun, Len(delivered))'
    BY <2>4, FramedNow, InOrderNow
  <2> QED
    BY <1>2, <2>1, <2>2 DEF StreamIsFramed
<1>3. CASE torn
  <2>1. torn = TRUE
    BY <1>3 DEF FramingInv, FramingTypeOK
  <2>2. torn' = TRUE
    BY <2>1
  <2> QED
    BY <1>1, <2>2, TornSaysNothing
<1> QED
  BY <1>1, <1>2, <1>3

(* The breaking step and those after it keep the promise.                  *)
LEMMA TornKeeps ==
    ASSUME torn' = TRUE, UNCHANGED begun, UNCHANGED delivered \/ torn = TRUE
    PROVE  StreamIsFramed' /\ [Promise!Next]_(Promise!streamVars)
<1>1. StreamIsFramed'
  BY TornSaysNothing
<1>2. Promise!Break \/ Promise!Garbles
  BY Zenon DEF Promise!Break, Promise!Garbles
<1> QED
  BY <1>1, <1>2 DEF Promise!Next

(* The decoder takes keepalives and whole messages off the head, the       *)
(* messages in the order in which they were begun.                         *)
LEMMA DecodeKeeps ==
    ASSUME FramingInv, Decode
    PROVE  StreamIsFramed' /\ [Promise!Next]_(Promise!streamVars)
<1>1. UNCHANGED <<seam, writes, begun, write, sendFut, onWire, torn>>
  BY DEF Decode
<1>2. CASE torn
  <2>1. torn = TRUE
    BY <1>2 DEF FramingInv, FramingTypeOK
  <2> QED
    BY <1>1, <2>1, TornKeeps
<1>3. CASE ~torn
  <2>1. /\ write.at # "writing" => write.left = <<>>
        /\ sendFut = (IF seam THEN write.left ELSE <<>>)
        /\ Framed(Stream) /\ Len(delivered) <= Len(begun)
        /\ InOrder(Stream, begun, Len(delivered))
    BY <1>3 DEF FramingInv, StreamIsFramed
  <2>2. /\ write'.at # "writing" => write'.left = <<>>
        /\ sendFut' = IF seam' THEN write'.left ELSE <<>>
    BY <1>1, <2>1
  <2>3. /\ buffer \in Seq(Octets) /\ Len(buffer) \in Nat /\ Stream \in Seq(Octets)
        /\ Len(Stream) \in Nat /\ Len(buffer) <= Len(Stream)
        /\ \A i \in 1 .. Len(buffer) : Stream[i] = buffer[i]
    BY BufferIsHead DEF FramingInv
  <2>4. /\ begun \in Seq(Messages) /\ Len(begun) \in Nat
        /\ delivered \in Seq(Messages \cup {Garbled}) /\ Len(delivered) \in Nat
        /\ Len(delivered) \in 0 .. Len(begun)
    BY <2>1 DEF FramingInv, FramingTypeOK
  <2>5. ASSUME NEW n \in 1 .. Len(buffer), buffer' = Rest(n)
        PROVE  Stream' = SubSeq(Stream, n + 1, Len(Stream)) /\ n \in 1 .. Len(Stream)
    <3>1. n \in 0 .. Len(buffer) /\ n \in 1 .. Len(Stream)
      BY <2>3
    <3>2. Rest(n) \o onWire \o write.left = SubSeq(Stream, n + 1, Len(Stream))
      BY <3>1, BufferTaken DEF FramingInv
    <3> QED
      BY <1>1, <2>5, <3>1, <3>2 DEF Stream
  <2>6. ASSUME NEW n \in 1 .. Len(buffer), buffer' = Rest(n), UNCHANGED delivered,
               Stream[n] = LF, \A k \in 1 .. n : Stream[k] \notin Messages
        PROVE  StreamIsFramed' /\ [Promise!Next]_(Promise!streamVars)
    <3>1. Stream' = SubSeq(Stream, n + 1, Len(Stream)) /\ n \in 1 .. Len(Stream)
      BY <2>5, <2>6
    <3>2. Framed(Stream')
      BY <2>1, <2>3, <2>6, <3>1, FramedDrop, Keepalives
    <3>3. InOrder(Stream', begun, Len(delivered))
      BY <2>1, <2>3, <2>4, <2>6, <3>1, OrderDrop
    <3>4. Framed(Stream)' /\ InOrder(Stream, begun, Len(delivered))'
      <4>1. InOrder(Stream', begun', Len(delivered'))
        BY <1>1, <2>6, <3>3
      <4> QED
        BY <3>2, <4>1, FramedNow, InOrderNow
    <3>5. StreamIsFramed'
      BY <1>1, <2>1, <2>2, <2>6, <3>4 DEF StreamIsFramed
    <3>6. [Promise!Next]_(Promise!streamVars)
      BY <1>1, <2>6 DEF Promise!streamVars
    <3> QED
      BY <3>5, <3>6
  <2>7. CASE StartsWith(BlankLine)
    <3>1. buffer' = Rest(4) /\ UNCHANGED delivered
      BY <2>7 DEF Decode, DecodesPing
    <3>2. 4 \in 1 .. Len(buffer) /\ buffer[1] = CR /\ buffer[2] = LF /\ buffer[3] = CR /\ buffer[4] = LF
      BY <2>3, <2>7, Starts DEF FramingInv
    <3>3. Stream[1] = CR /\ Stream[2] = LF /\ Stream[3] = CR /\ Stream[4] = LF
      BY <2>3, <3>2
    <3>4. \A k \in 1 .. 4 : k = 1 \/ k = 2 \/ k = 3 \/ k = 4
      OBVIOUS
    <3>5. \A k \in 1 .. 4 : Stream[k] \notin Messages
      BY <3>3, <3>4, Keepalives
    <3> QED
      BY <2>6, <3>1, <3>2, <3>3, <3>5
  <2>8. CASE ~StartsWith(BlankLine) /\ StartsWith(<<CR, LF>>)
    <3>1. buffer' = Rest(2) /\ UNCHANGED delivered
      BY <2>8 DEF Decode, DecodesPong
    <3>2. 2 \in 1 .. Len(buffer) /\ buffer[1] = CR /\ buffer[2] = LF
      BY <2>3, <2>8, Starts DEF FramingInv
    <3>3. Stream[1] = CR /\ Stream[2] = LF
      BY <2>3, <3>2
    <3>4. \A k \in 1 .. 2 : k = 1 \/ k = 2
      OBVIOUS
    <3>5. \A k \in 1 .. 2 : Stream[k] \notin Messages
      BY <3>3, <3>4, Keepalives
    <3> QED
      BY <2>6, <3>1, <3>2, <3>3, <3>5
  <2>9. CASE /\ ~StartsWith(<<CR, LF>>) /\ ~StartsWith(BlankLine)
             /\ HeadersEnd # 0 /\ Len(buffer) >= TotalLen
    <3> DEFINE m == Stream[1]
               n == TotalLen
    <3>1. /\ m \in Messages /\ n = Len(Encode(m)) /\ n \in 1 .. Len(buffer)
          /\ Parses(SubSeq(buffer, 1, n)) = {m}
      BY <2>1, <2>9, FindsMessage DEF FramingInv
    <3>2. DecodesMessage
      BY <2>9 DEF Decode
    <3>3. m # Unparsed
      BY <3>1 DEF Messages, Plain, Short, PingBody, Unparsed
    <3>4. delivered' = Append(delivered, m) /\ buffer' = Rest(n)
      BY <3>1, <3>2, <3>3 DEF DecodesMessage
    <3>5. Stream' = SubSeq(Stream, n + 1, Len(Stream)) /\ n \in 1 .. Len(Stream)
      BY <2>5, <3>1, <3>4
    <3> HIDE DEF n
    <3>6. /\ 1 \in 1 .. Len(Stream) /\ n \in Nat
          /\ \A k \in 1 .. n : Stream[k] = Encode(m)[k]
      <4>1. 1 \in 1 .. Len(Stream) /\ n \in Nat
        BY <2>3, <3>5
      <4>2. \A k \in 1 .. n : Stream[1 + k - 1] = Encode(m)[k]
        BY <2>1, <3>1, <4>1 DEF Framed
      <4>3. \A k \in 1 .. n : 1 + k - 1 = k
        BY <4>1
      <4> QED
        BY <4>1, <4>2, <4>3
    <3>7. /\ Encode(m)[n] # CR /\ \A k \in 2 .. n : Encode(m)[k] \notin Messages
      BY <3>1, Encoded
    <3>8. Stream[n] # CR /\ \A k \in 2 .. n : Stream[k] \notin Messages
      <4>1. n \in 1 .. n /\ \A k \in 2 .. n : k \in 1 .. n
        BY <3>5, <3>6
      <4> QED
        BY <3>6, <3>7, <4>1
    <3>9. ASSUME NEW j \in 1 .. n, Stream[j] \in Messages
          PROVE  j + Len(Encode(Stream[j])) - 1 <= n
      <4>1. j = 1
        BY <3>6, <3>8, <3>9
      <4> QED
        BY <3>1, <3>6, <4>1
    <3>10. Framed(Stream')
      BY <2>1, <2>3, <3>5, <3>8, <3>9, FramedDrop
    <3>11. /\ Len(delivered) < Len(begun) /\ m = begun[Len(delivered) + 1]
           /\ InOrder(Stream', begun, Len(delivered) + 1)
      BY <2>1, <2>3, <2>4, <3>1, <3>5, <3>8, OrderTake
    <3>12. Len(delivered') = Len(delivered) + 1
      BY <2>4, <3>1, <3>4
    <3>13. Framed(Stream)' /\ InOrder(Stream, begun, Len(delivered))'
      <4>1. InOrder(Stream', begun', Len(delivered'))
        BY <1>1, <3>11, <3>12
      <4> QED
        BY <3>10, <4>1, FramedNow, InOrderNow
    <3>14. StreamIsFramed'
      BY <1>1, <2>2, <2>4, <3>11, <3>12, <3>13 DEF StreamIsFramed
    <3>15. Promise!Deliver
      BY <1>1, <1>3, <3>4, <3>11 DEF Promise!Deliver
    <3> QED
      BY <3>14, <3>15 DEF Promise!Next
  <2>10. CASE /\ ~StartsWith(<<CR, LF>>) /\ ~StartsWith(BlankLine)
              /\ ~(HeadersEnd # 0 /\ Len(buffer) >= TotalLen)
    <3>1. UNCHANGED <<buffer, delivered>>
      BY <2>10 DEF Decode, NeedsMore
    <3>2. Stream' = Stream
      BY <1>1, <3>1 DEF Stream
    <3> QED
      BY <1>1, <2>2, <3>1, <3>2, StreamMoves
  <2> QED
    BY <2>7, <2>8, <2>9, <2>10
<1> QED
  BY <1>2, <1>3

(* Octets handed from the write to the wire stay in their order.           *)
LEMMA WrittenKeeps ==
    ASSUME FramingInv, Written
    PROVE  StreamIsFramed' /\ [Promise!Next]_(Promise!streamVars)
<1>1. /\ write' = [at |-> "written", left |-> <<>>]
      /\ UNCHANGED <<seam, begun, buffer, delivered, torn>>
  BY DEF Written, WritesAll, SeamSends
<1>2. ASSUME ~torn
      PROVE  /\ Stream' = Stream /\ (write'.at # "writing" => write'.left = <<>>)
             /\ sendFut' = IF seam' THEN write'.left ELSE <<>>
  <2>1. sendFut = IF seam THEN write.left ELSE <<>>
    BY <1>2 DEF FramingInv, StreamIsFramed
  <2>2. onWire' = onWire \o write.left
    BY <2>1, Zenon DEF Written, WritesAll, SeamSends
  <2>3. sendFut' = <<>>
    BY <2>1, Zenon DEF Written, WritesAll, SeamSends
  <2>4. /\ buffer \in Seq(Octets) /\ onWire \in Seq(Octets) /\ write.left \in Seq(Octets)
    BY BufferIsHead DEF FramingInv
  <2>5. buffer \o (onWire \o write.left) = Stream /\ Stream \in Seq(Octets)
    <3>1. (buffer \o onWire) \o write.left = buffer \o (onWire \o write.left)
      <4> DEFINE l == write.left
      <4>1. buffer \in Seq(Octets) /\ onWire \in Seq(Octets) /\ l \in Seq(Octets)
        BY <2>4
      <4> HIDE DEF l
      <4>2. (buffer \o onWire) \o l = buffer \o (onWire \o l)
        BY ONLY <4>1, ConcatAssociative
      <4> QED
        BY <4>2 DEF l
    <3> QED
      BY <3>1, BufferIsHead DEF Stream, FramingInv
  <2>6. Stream \o <<>> = Stream
    BY <2>5, ConcatEmptySeq
  <2>7. Stream' = (buffer \o (onWire \o write.left)) \o <<>>
    BY <1>1, <2>2 DEF Stream
  <2> QED
    BY <1>1, <2>3, <2>5, <2>6, <2>7
<1> QED
  BY <1>1, <1>2, StreamMoves

(* Octets read stay in their order.                                        *)
LEMMA ReadKeeps ==
    ASSUME FramingInv, Read
    PROVE  StreamIsFramed' /\ [Promise!Next]_(Promise!streamVars)
<1>1. PICK n \in 1 .. Len(onWire) :
        /\ buffer' = buffer \o SubSeq(onWire, 1, n)
        /\ onWire' = SubSeq(onWire, n + 1, Len(onWire))
  BY DEF Read
<1>2. UNCHANGED <<seam, begun, write, sendFut, delivered, torn>>
  BY DEF Read
<1>3. ASSUME ~torn
      PROVE  /\ Stream' = Stream /\ (write'.at # "writing" => write'.left = <<>>)
             /\ sendFut' = IF seam' THEN write'.left ELSE <<>>
  <2>1. /\ sendFut = (IF seam THEN write.left ELSE <<>>)
        /\ write.at # "writing" => write.left = <<>>
    BY <1>3 DEF FramingInv, StreamIsFramed
  <2>2. /\ buffer \in Seq(Octets) /\ onWire \in Seq(Octets) /\ Len(onWire) \in Nat
    BY BufferIsHead DEF FramingInv
  <2> DEFINE a == SubSeq(onWire, 1, n)
             b == SubSeq(onWire, n + 1, Len(onWire))
  <2>3. a \in Seq(Octets) /\ b \in Seq(Octets)
    BY <1>1, <2>2
  <2>4. a \o b = onWire
    <3>1. /\ 1 \in 1 .. Len(onWire) + 1 /\ n \in (1 - 1) .. Len(onWire)
          /\ Len(onWire) \in n .. Len(onWire)
      BY <2>2
    <3>2. a \o b = SubSeq(onWire, 1, Len(onWire))
      BY <2>2, <3>1, ConcatAdjacentSubSeq
    <3> QED
      BY <2>2, <3>2, SubSeqFull
  <2> HIDE DEF a, b
  <2>5. (buffer \o a) \o b = buffer \o onWire
    <3>1. buffer \in Seq(Octets)
      BY <2>2
    <3>2. (buffer \o a) \o b = buffer \o (a \o b)
      BY ONLY <2>3, <3>1, ConcatAssociative
    <3> QED
      BY <2>4, <3>2
  <2>6. Stream' = Stream
    BY <1>1, <1>2, <2>5 DEF Stream, a, b
  <2> QED
    BY <1>2, <2>1, <2>6
<1> QED
  BY <1>2, <1>3, StreamMoves

(* Every step keeps the invariant, and is one the promise allows.          *)
LEMMA FramingSteps ==
    FramingInv /\ [FramingNext]_framingVars
        => FramingInv' /\ [Promise!Next]_(Promise!streamVars)
<1> SUFFICES ASSUME FramingInv, [FramingNext]_framingVars
             PROVE  StreamIsFramed' /\ [Promise!Next]_(Promise!streamVars)
  BY FramingTyped DEF FramingInv
<1>1. ASSUME NEW i \in Items, Locks(i)
      PROVE  StreamIsFramed' /\ [Promise!Next]_(Promise!streamVars)
  BY <1>1, LocksKeeps
<1>2. CASE WritesAll \/ SeamSends
  BY <1>2, WrittenKeeps DEF Written
<1>3. CASE WriterDropped
  BY <1>3, TornKeeps DEF WriterDropped
<1>4. CASE Read
  BY <1>4, ReadKeeps
<1>5. CASE Decode
  BY <1>5, DecodeKeeps
<1>6. CASE StreamEnds
  BY <1>6, TornKeeps DEF StreamEnds
<1>7. CASE UNCHANGED framingVars
  <2>1. UNCHANGED <<seam, begun, write, sendFut, buffer, onWire, delivered, torn>>
    BY <1>7 DEF framingVars
  <2>2. ~torn => /\ sendFut = (IF seam THEN write.left ELSE <<>>)
                 /\ write.at # "writing" => write.left = <<>>
    BY DEF FramingInv, StreamIsFramed
  <2>3. Stream' = Stream
    BY <2>1 DEF Stream
  <2> QED
    BY <2>1, <2>2, <2>3, StreamMoves
<1> QED
  BY <1>1, <1>2, <1>3, <1>4, <1>5, <1>6, <1>7 DEF FramingNext

(* Nothing has been written.                                               *)
LEMMA FramingStarts == FramingInit => FramingInv /\ Promise!Init
<1> SUFFICES ASSUME FramingInit PROVE FramingInv /\ Promise!Init
  OBVIOUS
<1>1. /\ write = [at |-> "free", left |-> <<>>] /\ sendFut = <<>> /\ onWire = <<>>
      /\ buffer = <<>> /\ begun = <<>> /\ delivered = <<>> /\ writes = 0 /\ pongs = 0
      /\ loop = "reading"
  BY DEF FramingInit
<1>2. seam \in BOOLEAN /\ torn = FALSE
  BY Zenon DEF FramingInit
<1>3. <<>> \in Seq(Octets) /\ <<>> \in Seq(Messages) /\ <<>> \in Seq(Messages \cup {Garbled})
  OBVIOUS
<1>4. write \in [at : {"free", "writing", "written"}, left : Seq(Octets)]
  BY <1>1, <1>3
<1>5. FramingTypeOK
  <2>1. seam \in BOOLEAN /\ torn \in BOOLEAN
    BY <1>2, Zenon
  <2>2. /\ writes \in 0 .. MaxWrites /\ begun \in Seq(Messages) /\ pongs \in Nat
        /\ Len(buffer) <= MaxSize
    BY <1>1, <1>3, FramingAssumption
  <2>3. /\ sendFut \in Seq(Octets) /\ onWire \in Seq(Octets) /\ buffer \in Seq(Octets)
        /\ loop \in {"reading", "decoding", "ended"}
        /\ delivered \in Seq(Messages \cup {Garbled})
    BY <1>1, <1>3
  <2> QED
    BY <1>4, <2>1, <2>2, <2>3, Zenon DEF FramingTypeOK
<1>6. Stream = <<>>
  BY <1>1, <1>3, ConcatEmptySeq DEF Stream
<1>7. Framed(Stream)
  BY <1>6 DEF Framed
<1>8. InOrder(Stream, begun, Len(delivered))
  <2>1. Len(begun) - Len(delivered) = 0 /\ 1 .. 0 = {} /\ Len(Stream) = 0
    BY <1>1, <1>6
  <2>2. [i \in 1 .. 0 |-> 0] \in [1 .. 0 -> 1 .. 0]
    BY <2>1
  <2> QED
    BY <2>1, <2>2 DEF InOrder
<1>9. Promise!Init
  BY <1>1, <1>2 DEF Promise!Init
<1> QED
  BY <1>1, <1>2, <1>5, <1>7, <1>8, <1>9 DEF FramingInv, StreamIsFramed

(* Types of the stream.                                                    *)
THEOREM FramingTyping == FramingSpec => []FramingTypeOK
<1>1. FramingInv => FramingTypeOK
  BY DEF FramingInv
<1> QED
  BY <1>1, FramingStarts, FramingSteps, PTL DEF FramingSpec

(* The decoder implements the promise, fairness apart: for any number of   *)
(* writes and whatever MAX_SIP_MESSAGE_SIZE is, the messages written to a  *)
(* stream are handed over once each, in order and whole, wherever the      *)
(* network cuts the octets, whatever keepalives lie between them and       *)
(* though a body may look like one, until a write is torn or the stream    *)
(* ends.                                                                   *)
THEOREM FramingKeepsPromise == FramingSpec => Promise!Keeps
BY FramingStarts, FramingSteps, PTL DEF FramingSpec, Promise!Keeps
=============================================================================
