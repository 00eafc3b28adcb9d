------------------------------ MODULE ReplyParser ------------------------------
(***************************************************************************)
(* SensorHiLinkZw0608::parseReply, byte by byte, and the serial line that  *)
(* feeds it.  The line delivers the packets of the fingerprint module in   *)
(* order; before a packet it may carry the 0x55 the module sends when it   *)
(* has started, and it may lose or corrupt single bytes.                   *)
(* A packet that passes the checksum is handed to the state machine        *)
(* (DataReceivedEvent); what its states read of it is recorded.            *)
(***************************************************************************)
EXTENDS Integers, Sequences, SequencesExt

CONSTANTS
  Packets,      \* what the module may send: [packageId, data]
  NoiseBytes,   \* what the line may make of a byte
  FirstFaulty,  \* the first byte of a packet that may be lost or corrupted
  MaxData,      \* MAX_DATA_SIZE (256 in the source)
  MaxPackets,   \* bound: packets sent
  MaxWakeUps,   \* bound: 0x55 bytes
  MaxLost,      \* bound: bytes that do not arrive
  MaxCorrupted  \* bound: bytes that arrive changed

Byte == {b \in Nat : b < 256}          \* uint8_t
Words == {w \in Nat : w < 65536}       \* uint16_t
Word(w) == w % 65536

CHECKSUM_SIZE == 2
ADDRESS_SIZE == 4
LENGTH_SIZE == 2
DATA_OFFSET == 9
MAX_RX_FRAME_SIZE == DATA_OFFSET + MaxData + CHECKSUM_SIZE

ASSUME ConstantsAssumption ==
  /\ MaxData \in Nat /\ MaxData <= 256
  /\ Packets \subseteq [packageId : Byte, data : Seq(Byte)]
  /\ \A p \in Packets : Len(p.data) \in 1..MaxData
  /\ NoiseBytes \subseteq Byte
  /\ FirstFaulty \in Nat \ {0}
  /\ {MaxPackets, MaxWakeUps, MaxLost, MaxCorrupted} \subseteq Nat

VARIABLES
  parser,     \* parserState, cnt, rollingChecksum, rxFrame and rxData
  line,       \* the current packet's next byte, 0 for none, and the sum so far
  sent,       \* the packets the module has begun to send
  delivered,  \* what the states saw with each DataReceivedEvent
  budget      \* wake-up bytes, losses and corruptions still to come

vars == <<parser, line, sent, delivered, budget>>

------------------------------------------------------------------------------
(* The packet format, as sendPacket writes it; replies have the same.      *)

HighLow(w) == <<w \div 256, w % 256>>

FrameLength(p) == DATA_OFFSET + Len(p.data) + CHECKSUM_SIZE

\* The n-th byte of the frame, when sum is the checksum of those before it.
FrameByte(p, sum, n) ==
  CASE n = 1 -> 239
    [] n = 2 -> 1
    [] n \in 3..6 -> 255
    [] n = 7 -> p.packageId
    [] n \in 8..DATA_OFFSET -> HighLow(Len(p.data) + CHECKSUM_SIZE)[n - 7]
    [] n \in (DATA_OFFSET + 1)..(DATA_OFFSET + Len(p.data)) -> p.data[n - DATA_OFFSET]
    [] OTHER -> HighLow(sum)[n - DATA_OFFSET - Len(p.data)]

\* One turn of the summing loop: identifier, length and data are added up.
calc_checksum(p, sum, n) ==
  IF n \in 7..(DATA_OFFSET + Len(p.data)) THEN Word(sum + FrameByte(p, sum, n)) ELSE sum

------------------------------------------------------------------------------
(* The parser.  rxFrame holds the bytes since frameBytesParsed was last     *)
(* reset and zeros behind them, so a sequence stands for both.             *)

ParserStates == {"NONE", "HEADER", "ADDRESS", "PACKAGE_ID", "PACKET_LENGTH",
                 "DATA", "CHECKSUM", "ERROR"}

InitialParser ==
  [state |-> "NONE", cnt |-> 0, sum |-> 0, rxFrame |-> <<>>,
   packageId |-> 0, packetLength |-> 0, checksum |-> 0]

\* The next phase starts with an empty counter.
Enter(p, state) == [p EXCEPT !.state = state, !.cnt = 0]

\* case HEADER: anything is skipped until the second header byte.
InHeader(p, c) ==
  IF c = 1 THEN Enter(p, "ADDRESS") ELSE [p EXCEPT !.state = "HEADER"]

\* Deliberately wrong, for sensitivity: 0x55 does not reset frameBytesParsed.
InNoneKeepingFrame(p, c) ==
  CASE c = 85 -> p
    [] c = 239 -> [Enter(p, "HEADER") EXCEPT !.packageId = 0, !.packetLength = 0,
                                             !.checksum = 0]
    [] OTHER -> InHeader(p, c)

\* case NONE, which falls through to HEADER for a byte it does not know.
InNone(p, c) ==
  CASE c = 85 -> [p EXCEPT !.rxFrame = <<>>]
    [] c = 239 -> [Enter(p, "HEADER") EXCEPT !.packageId = 0, !.packetLength = 0,
                                             !.checksum = 0]
    [] OTHER -> InHeader(p, c)

InAddress(p) ==
  IF p.cnt + 1 >= ADDRESS_SIZE THEN [Enter(p, "PACKAGE_ID") EXCEPT !.sum = 0]
  ELSE [p EXCEPT !.cnt = @ + 1]

InLength(p, c) ==
  LET q == [p EXCEPT !.packetLength = Word(@ * 256 + c), !.cnt = @ + 1]
  IN IF q.cnt >= LENGTH_SIZE THEN Enter(q, "DATA") ELSE q

\* Deliberately wrong, for sensitivity: the data phase takes one byte too many.
InDataOneMore(p) ==
  LET q == [p EXCEPT !.cnt = @ + 1]
  IN IF p.packetLength >= CHECKSUM_SIZE /\ q.cnt > p.packetLength - CHECKSUM_SIZE
     THEN Enter(q, "CHECKSUM") ELSE q

\* packetLength - CHECKSUM_SIZE is a size_t: below 2 it is out of reach.
InData(p) ==
  LET q == [p EXCEPT !.cnt = @ + 1]
  IN IF p.packetLength >= CHECKSUM_SIZE /\ q.cnt >= p.packetLength - CHECKSUM_SIZE
     THEN Enter(q, "CHECKSUM") ELSE q

\* Deliberately wrong, for sensitivity: DONE does not go back to NONE.
InChecksumStayingDone(p, c) ==
  LET q == [p EXCEPT !.checksum = Word(@ * 256 + c), !.cnt = @ + 1]
  IN CASE q.cnt < CHECKSUM_SIZE -> q
       [] q.cnt >= CHECKSUM_SIZE /\ q.checksum # q.sum -> [q EXCEPT !.state = "ERROR"]
       [] OTHER -> [Enter(q, "DONE") EXCEPT !.rxFrame = <<>>]

\* Deliberately wrong, for sensitivity: DONE does not reset frameBytesParsed.
InChecksumKeepingFrame(p, c) ==
  LET q == [p EXCEPT !.checksum = Word(@ * 256 + c), !.cnt = @ + 1]
  IN CASE q.cnt < CHECKSUM_SIZE -> q
       [] q.cnt >= CHECKSUM_SIZE /\ q.checksum # q.sum -> [q EXCEPT !.state = "ERROR"]
       [] OTHER -> Enter(q, "NONE")

\* cases CHECKSUM, CHECK_CHECKSUM and DONE.
InChecksum(p, c) ==
  LET q == [p EXCEPT !.checksum = Word(@ * 256 + c), !.cnt = @ + 1]
  IN CASE q.cnt < CHECKSUM_SIZE -> q
       [] q.cnt >= CHECKSUM_SIZE /\ q.checksum # q.sum -> [q EXCEPT !.state = "ERROR"]
       [] OTHER -> [Enter(q, "NONE") EXCEPT !.rxFrame = <<>>]

\* One turn of the loop: store the byte, add it up, act on it.
Parse(p, c) ==
  LET q == [p EXCEPT !.rxFrame = Append(@, c),
                     !.sum = IF p.state = "CHECKSUM" THEN @ ELSE Word(@ + c)]
  IN CASE p.state = "NONE" -> InNone(q, c)
       [] p.state = "HEADER" -> InHeader(q, c)
       [] p.state = "ADDRESS" -> InAddress(q)
       [] p.state = "PACKAGE_ID" -> [Enter(q, "PACKET_LENGTH") EXCEPT !.packageId = c]
       [] p.state = "PACKET_LENGTH" -> InLength(q, c)
       [] p.state = "DATA" -> InData(q)
       [] p.state = "CHECKSUM" -> InChecksum(q, c)
       [] p.state = "ERROR" -> q

\* Deliberately wrong, for sensitivity: the checksum is not compared.
CompletesUnchecked(p, c) == p.state = "CHECKSUM" /\ p.cnt + 1 >= CHECKSUM_SIZE

\* The byte that completes a packet with the right checksum.
Completes(p, c) ==
  /\ p.state = "CHECKSUM" /\ p.cnt + 1 >= CHECKSUM_SIZE
  /\ Word(p.checksum * 256 + c) = p.sum

\* What handle(DataReceivedEvent) finds: rxData and rxFrame from DATA_OFFSET on.
Received(p, c) ==
  LET frame == Append(p.rxFrame, c)
      rxFrame(i) == IF i < Len(frame) THEN frame[i + 1] ELSE 0
  IN [packageId |-> p.packageId,
      data |-> [i \in 1..(p.packetLength - CHECKSUM_SIZE) |->
                  rxFrame(DATA_OFFSET + i - 1)]]

\* A byte reaches parseReply.  A write behind rxFrame is undefined behaviour: it
\* is still recorded, and nothing is said about what follows.
Arrives(c) ==
  /\ Len(parser.rxFrame) <= MAX_RX_FRAME_SIZE
  /\ parser' = Parse(parser, c)
  /\ delivered' = IF Completes(parser, c) THEN Append(delivered, Received(parser, c))
                  ELSE delivered

------------------------------------------------------------------------------
(* The line (external).                                                    *)

Idle == [next |-> 0, sum |-> 0]

\* The byte on the line, and the line behind it.
LineByte == FrameByte(Last(sent), line.sum, line.next)

Rest ==
  IF line.next = FrameLength(Last(sent)) THEN Idle
  ELSE [next |-> line.next + 1, sum |-> calc_checksum(Last(sent), line.sum, line.next)]

Init ==
  /\ parser = InitialParser
  /\ line = Idle /\ sent = <<>> /\ delivered = <<>>
  /\ budget = [wakeUp |-> MaxWakeUps, lost |-> MaxLost, corrupted |-> MaxCorrupted]

Send ==
  /\ line.next = 0 /\ Len(sent) < MaxPackets
  /\ \E p \in Packets : sent' = Append(sent, p)
  /\ line' = [next |-> 1, sum |-> 0]
  /\ UNCHANGED <<parser, delivered, budget>>

Arrive ==
  /\ line.next # 0
  /\ Arrives(LineByte) /\ line' = Rest
  /\ UNCHANGED <<sent, budget>>

WakeUp ==
  /\ line.next = 0 /\ budget.wakeUp > 0
  /\ Arrives(85) /\ budget' = [budget EXCEPT !.wakeUp = @ - 1]
  /\ UNCHANGED <<line, sent>>

FaultPossible == line.next # 0 /\ line.next >= FirstFaulty

Lose ==
  /\ FaultPossible /\ budget.lost > 0
  /\ line' = Rest /\ budget' = [budget EXCEPT !.lost = @ - 1]
  /\ UNCHANGED <<parser, sent, delivered>>

Corrupt ==
  /\ FaultPossible /\ budget.corrupted > 0
  /\ \E c \in NoiseBytes \ {LineByte} : Arrives(c)
  /\ line' = Rest /\ budget' = [budget EXCEPT !.corrupted = @ - 1]
  /\ UNCHANGED sent

Next == Send \/ Arrive \/ WakeUp \/ Lose \/ Corrupt

Spec == Init /\ [][Next]_vars

\* The I/O thread polls the serial buffer every tick.
FairSpec == Spec /\ WF_vars(Arrive)

------------------------------------------------------------------------------
(* Properties. *)

\* The parser's fields stay within their C types, and rxFrame within its array.
TypeOK ==
  /\ parser \in [state : ParserStates, cnt : Nat, sum : Words,
                 rxFrame : Seq(Byte), packageId : Byte, packetLength : Words,
                 checksum : Words]
  /\ line \in [next : Nat, sum : Words]
  /\ sent \in Seq(Packets)
  /\ delivered \in Seq([packageId : Byte, data : Seq(Byte)])
  /\ budget \in [wakeUp : 0..MaxWakeUps, lost : 0..MaxLost,
                 corrupted : 0..MaxCorrupted]

\* Nothing has been lost or corrupted yet.
Faultless == budget.lost = MaxLost /\ budget.corrupted = MaxCorrupted

\* As long as the line is faultless, rxFrame[frameBytesParsed++] stays inside the
\* array.
FrameFits == Faultless => Len(parser.rxFrame) <= MAX_RX_FRAME_SIZE

\* As long as the line is faultless, the states see exactly the packets the
\* module sent, in order, whatever their payload looks like.
DeliveredInOrder == Faultless => IsPrefix(delivered, sent)

\* The states never see a packet that the module did not send.  The code does not
\* keep this when bytes are lost.
NothingInvented == \A i \in DOMAIN delivered : \E j \in DOMAIN sent : delivered[i] = sent[j]

\* No byte has been lost yet.
NothingLost == budget.lost = MaxLost

\* A byte changed behind the length field never makes the states see a packet that
\* the module did not send, as long as no byte has been lost: the checksum differs,
\* and the parser goes to ERROR.
ChangeNoticed == NothingLost => NothingInvented

\* Every packet is delivered, unless something is lost or corrupted.
AllDelivered ==
  \A n \in 1..MaxPackets : Len(sent) = n ~> Len(delivered) >= n \/ ~Faultless

================================================================================
