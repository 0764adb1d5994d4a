---------------------------- MODULE StreamFraming ----------------------------
(***************************************************************************)
(* One direction of a stream connection (stream.rs): tasks write messages  *)
(* and keepalives under the lock of the write half, the network cuts the   *)
(* octets anywhere, and the serve loop finds the messages again.           *)
(*                                                                         *)
(* An octet is CR, LF, Body, or a message: the header section of the       *)
(* message up to its empty line, which names its Content-Length.           *)
(***************************************************************************)
EXTENDS Naturals, Sequences, FiniteSets, SequencesExt

CONSTANTS MaxWrites,    \* bound on the writes
          MaxSize       \* MAX_SIP_MESSAGE_SIZE

ASSUME FramingAssumption == MaxWrites \in Nat /\ MaxSize \in Nat

VARIABLES
    seam,       \* a TLS stream of the platform seam: writes go through a future
    writes,     \* number of the writes begun
    begun,      \* history: the messages begun, in order
    write,      \* the write of the task that holds the lock: state, octets left
    sendFut,    \* send_fut of the seam stream: octets it still has to send
    onWire,     \* octets in flight
    buffer,     \* buffer of the serve loop
    loop,       \* "reading", "decoding" or "ended"
    delivered,  \* what the loop handed over
    pongs,      \* keepalive answers written the other way
    torn        \* a write was abandoned, or the network closed the stream

framingVars == <<seam, writes, begun, write, sendFut, onWire, buffer, loop, delivered, pongs, torn>>

CR == 13
LF == 10
Body == 0
BlankLine == <<CR, LF, CR, LF>>

(* Three messages, by body: none, one octet, and four that read as a ping. *)
Plain    == 100
Short    == 101
PingBody == 102
Messages == {Plain, Short, PingBody}
Octets   == {CR, LF, Body} \cup Messages
Content  == [m \in Messages |-> CASE m = Plain -> <<>> [] m = Short -> <<Body>> [] OTHER -> BlankLine]

(* KEEPALIVE_REQUEST, KEEPALIVE_RESPONSE, what octets that are no message  *)
(* may parse as, and an error of the parser.                               *)
Ping     == 200
Pong     == 201
Garbled  == 202
Unparsed == 203
Items   == Messages \cup {Ping, Pong}
Encode(i) == CASE i = Ping -> BlankLine [] i = Pong -> <<CR, LF>>
               [] OTHER -> <<i>> \o BlankLine \o Content[i]

FramingTypeOK ==
    /\ seam \in BOOLEAN /\ torn \in BOOLEAN
    /\ writes \in 0 .. MaxWrites /\ begun \in Seq(Messages)
    /\ write \in [at : {"free", "writing", "written"}, left : Seq(Octets)]
    /\ sendFut \in Seq(Octets) /\ onWire \in Seq(Octets) /\ buffer \in Seq(Octets)
    /\ loop \in {"reading", "decoding", "ended"}
    /\ delivered \in Seq(Messages \cup {Garbled})
    /\ pongs \in Nat
    /\ loop = "reading" => Len(buffer) <= MaxSize

FramingInit ==
    /\ seam \in BOOLEAN
    /\ writes = 0 /\ begun = <<>> /\ sendFut = <<>>
    /\ write = [at |-> "free", left |-> <<>>]
    /\ onWire = <<>> /\ buffer = <<>> /\ loop = "reading"
    /\ delivered = <<>> /\ pongs = 0 /\ torn = FALSE

-----------------------------------------------------------------------------
(***************************************************************************)
(* send_raw_to_stream: lock, write_all, flush, unlock.  On the seam        *)
(* poll_write makes the future of this write unless one is still there.    *)
(***************************************************************************)
Locks(i) ==
    /\ write.at # "writing"
    /\ writes < MaxWrites
    /\ writes' = writes + 1
    /\ begun' = IF i \in Messages THEN Append(begun, i) ELSE begun
    /\ write' = [at |-> "writing", left |-> Encode(i)]
    /\ sendFut' = IF seam /\ sendFut = <<>> THEN Encode(i) ELSE sendFut
    /\ UNCHANGED <<seam, onWire, buffer, loop, delivered, pongs, torn>>

(* poll_write of the socket takes what fits, until nothing is left; where  *)
(* it pauses matters only if the task is dropped there.                    *)
WritesAll ==
    /\ write.at = "writing" /\ ~seam
    /\ onWire' = onWire \o write.left
    /\ write' = [at |-> "written", left |-> <<>>]
    /\ UNCHANGED <<seam, writes, begun, sendFut, buffer, loop, delivered, pongs, torn>>

(* poll_write of the seam polls the future; when it is ready the write     *)
(* reports all of its own octets written.                                  *)
SeamSends ==
    /\ write.at = "writing" /\ seam
    /\ onWire' = onWire \o sendFut
    /\ sendFut' = <<>>
    /\ write' = [at |-> "written", left |-> <<>>]
    /\ UNCHANGED <<seam, writes, begun, buffer, loop, delivered, pongs, torn>>

(* The task is dropped between two polls, and the lock with it: of what    *)
(* was left the first n octets are written.                                *)
WriterDropped ==
    /\ write.at = "writing"
    /\ write' = [at |-> "free", left |-> <<>>]
    /\ torn' = TRUE
    /\ LET left == IF seam THEN sendFut ELSE write.left
       IN  \E n \in 0 .. Len(left) - 1 :
              /\ onWire' = onWire \o SubSeq(left, 1, n)
              /\ sendFut' = IF seam THEN SubSeq(left, n + 1, Len(left)) ELSE <<>>
    /\ UNCHANGED <<seam, writes, begun, buffer, loop, delivered, pongs>>

Written == WritesAll \/ SeamSends

-----------------------------------------------------------------------------
(***************************************************************************)
(* SipCodec::decode on the buffer.                                         *)
(***************************************************************************)
StartsWith(s) == IsPrefix(s, buffer)
Rest(n) == SubSeq(buffer, n + 1, Len(buffer))

(* Where the first blank line ends, 0 if it has not arrived.               *)
HeadersEnd ==
    LET Ends == {n \in 4 .. Len(buffer) : SubSeq(buffer, n - 3, n) = BlankLine}
    IN  IF Ends = {} THEN 0 ELSE Min(Ends)

(* The first Content-Length line of the section counts, 0 without one.     *)
ContentLength ==
    LET Named == {n \in 1 .. HeadersEnd : buffer[n] \in Messages}
    IN  IF Named = {} THEN 0
        ELSE Len(Content[buffer[Min(Named)]])

TotalLen == HeadersEnd + ContentLength

(* What try_from makes of the octets: the message, or, of octets that are  *)
(* no message, an error or another message.                                *)
Parses(octets) ==
    LET Whole == {m \in Messages : Encode(m) = octets}
    IN  IF Whole # {} THEN Whole ELSE {Garbled, Unparsed}

\* Faulty variant: the blank line is not counted in the length.
DecodesShort ==
    /\ HeadersEnd # 0 /\ Len(buffer) >= TotalLen
    /\ \E m \in Parses(SubSeq(buffer, 1, TotalLen)) :
          IF m = Unparsed THEN loop' = "ended" /\ UNCHANGED <<buffer, delivered>>
          ELSE /\ delivered' = Append(delivered, m)
               /\ buffer' = Rest(TotalLen - 4)
               /\ UNCHANGED loop
    /\ UNCHANGED pongs

DecodesMessage ==
    /\ HeadersEnd # 0 /\ Len(buffer) >= TotalLen
    /\ \E m \in Parses(SubSeq(buffer, 1, TotalLen)) :
          IF m = Unparsed THEN loop' = "ended" /\ UNCHANGED <<buffer, delivered>>
          ELSE /\ delivered' = Append(delivered, m)
               /\ buffer' = Rest(TotalLen)
               /\ UNCHANGED loop
    /\ UNCHANGED pongs

DecodesPing ==
    /\ buffer' = Rest(4) /\ pongs' = pongs + 1
    /\ UNCHANGED <<loop, delivered>>

DecodesPong ==
    /\ buffer' = Rest(2)
    /\ UNCHANGED <<loop, delivered, pongs>>

NeedsMore ==
    /\ loop' = IF Len(buffer) > MaxSize THEN "ended" ELSE "reading"
    /\ UNCHANGED <<buffer, delivered, pongs>>

Decode ==
    /\ loop = "decoding"
    /\ IF StartsWith(BlankLine) THEN DecodesPing
       ELSE IF StartsWith(<<CR, LF>>) THEN DecodesPong
       ELSE IF HeadersEnd # 0 /\ Len(buffer) >= TotalLen THEN DecodesMessage
       ELSE NeedsMore
    /\ UNCHANGED <<seam, writes, begun, write, sendFut, onWire, torn>>

(* The serve loop reads what has arrived, or the end of the stream.        *)
Read ==
    /\ loop = "reading"
    /\ \E n \in 1 .. Len(onWire) :
          /\ buffer' = buffer \o SubSeq(onWire, 1, n)
          /\ onWire' = SubSeq(onWire, n + 1, Len(onWire))
    /\ loop' = "decoding"
    /\ UNCHANGED <<seam, writes, begun, write, sendFut, delivered, pongs, torn>>

(* External: the stream ends under the reader.                             *)
StreamEnds ==
    /\ loop = "reading"
    /\ loop' = "ended" /\ torn' = TRUE
    /\ UNCHANGED <<seam, writes, begun, write, sendFut, onWire, buffer, delivered, pongs>>

ServeLoop == Read \/ Decode

FramingNext ==
    \/ \E i \in Items : Locks(i)
    \/ WritesAll \/ SeamSends \/ WriterDropped
    \/ Read \/ Decode \/ StreamEnds

FramingFairness ==
    /\ WF_framingVars(ServeLoop)
    /\ WF_framingVars(Written)

FramingSpec == FramingInit /\ [][FramingNext]_framingVars /\ FramingFairness

-----------------------------------------------------------------------------
(***************************************************************************)
(* The connection implements the promise: the messages begun under the     *)
(* lock, without the keepalives, are those handed over, wherever the       *)
(* network cuts the octets and whatever the bodies look like.              *)
(***************************************************************************)
Promise == INSTANCE MessageStream WITH
               Items  <- Messages,
               sent   <- begun,
               handed <- delivered,
               broken <- torn

FramingImplementsStream == Promise!Spec

=============================================================================
