--------------------------- MODULE ReplyParserProofs ---------------------------
(***************************************************************************)
(* Theorems about ReplyParser, for packets of any content and length and   *)
(* any number of packets, wake-up bytes and faults.                        *)
(***************************************************************************)
EXTENDS ReplyParser, TLAPS

------------------------------------------------------------------------------
(* The invariants. *)

Parsers == [state : ParserStates, cnt : Nat, sum : Words,
            rxFrame : Seq(Byte), packageId : Byte, packetLength : Words,
            checksum : Words]

\* The line is somewhere in the packet that was sent last.
OnTheLine == line.next # 0 => sent # <<>> /\ line.next \in 1..FrameLength(Last(sent))

TypeInv == TypeOK /\ OnTheLine

\* Parser q expects byte n of the frame of packet p: the bytes of its current
\* field so far have been counted, the fields before it have been taken over, and
\* sum is the checksum both have computed.
InStep(q, p, n, sum) ==
  /\ Len(q.rxFrame) = n - 1
  /\ n = 1 => q.state = "NONE"
  /\ n = 2 => q.state = "HEADER"
  /\ n \in 3..6 => q.state = "ADDRESS" /\ q.cnt = n - 3
  /\ n = 7 => q.state = "PACKAGE_ID"
  /\ n \in 8..9 => q.state = "PACKET_LENGTH" /\ q.cnt = n - 8
  /\ n \in 10..(9 + Len(p.data)) => q.state = "DATA" /\ q.cnt = n - 10
  /\ n >= 10 + Len(p.data) => q.state = "CHECKSUM" /\ q.cnt = n - 10 - Len(p.data)
  /\ n \in 2..8 => q.packetLength = 0
  /\ n = 9 => q.packetLength = (Len(p.data) + 2) \div 256
  /\ n >= 10 => q.packetLength = Len(p.data) + 2
  /\ n \in 2..(10 + Len(p.data)) => q.checksum = 0
  /\ n = 11 + Len(p.data) => q.checksum = sum \div 256
  /\ n >= 8 => q.packageId = p.packageId
  /\ n <= 7 => sum = 0
  /\ n >= 7 => q.sum = sum
  /\ \A i \in 1..Len(p.data) : 9 + i < n => q.rxFrame[9 + i] = p.data[i]

\* As long as nothing is lost or corrupted, the parser keeps step with the line,
\* and everything sent before the current packet has been delivered.
LockStep ==
  Faultless =>
    IF line.next = 0
    THEN parser.state = "NONE" /\ parser.rxFrame = <<>> /\ delivered = sent
    ELSE /\ InStep(parser, Last(sent), line.next, line.sum)
         /\ sent = Append(delivered, Last(sent))

LineInv == TypeInv /\ LockStep

------------------------------------------------------------------------------
(* The constants and the frame. *)

USE DEF CHECKSUM_SIZE, ADDRESS_SIZE, LENGTH_SIZE, DATA_OFFSET

\* A packet fits the frame, and its length one byte and a bit.
LEMMA PacketFacts ==
  ASSUME NEW p \in Packets
  PROVE  /\ p = [packageId |-> p.packageId, data |-> p.data]
         /\ p.packageId \in Byte /\ p.data \in Seq(Byte)
         /\ Len(p.data) \in Nat /\ Len(p.data) > 0 /\ Len(p.data) <= MaxData
         /\ MaxData \in Nat /\ MaxData <= 256
         /\ \A i \in 1..Len(p.data) : p.data[i] \in Byte
BY ConstantsAssumption

\* The bounds are natural numbers.
LEMMA Bounds ==
  /\ MaxPackets \in Nat /\ MaxWakeUps \in Nat /\ MaxLost \in Nat
  /\ MaxCorrupted \in Nat /\ MaxData \in Nat /\ MaxData <= 256 /\ NoiseBytes \subseteq Byte
BY ConstantsAssumption

\* A word is made of its high and its low byte.
LEMMA DivMod ==
  ASSUME NEW w \in Words
  PROVE  \E k \in Byte, r \in Byte : w \div 256 = k /\ w % 256 = r /\ w = 256 * k + r
<1>1. w \in Nat /\ w < 65536
  BY DEF Words
<1>2. w \div 256 \in Int
  BY <1>1
<1>3. 256 * (w \div 256) <= w /\ w < 256 * (w \div 256) + 256
  BY <1>1
<1>4. PICK k \in Int : w \div 256 = k
  BY <1>2
<1>5. PICK r \in Nat : w = 256 * k + r /\ r < 256
  BY <1>1, <1>3, <1>4
<1>6. w % 256 = r
  BY <1>1, <1>5
<1>7. k \in Byte /\ r \in Byte
  BY <1>1, <1>5 DEF Byte
<1> QED BY <1>4, <1>5, <1>6, <1>7, Zenon

LEMMA HighLowType ==
  ASSUME NEW w \in Words, NEW i \in 1..2
  PROVE  HighLow(w)[i] \in Byte
<1>1. PICK k \in Byte, r \in Byte : w \div 256 = k /\ w % 256 = r
  BY DivMod
<1>2. HighLow(w) = <<k, r>>
  BY <1>1, Zenon DEF HighLow
<1> QED BY <1>2

\* The sums that are stored in a word, and the numbers that fit one.
LEMMA WordType ==
  /\ \A w \in Nat : Word(w) \in Words
  /\ \A w \in Words : Word(w) = w /\ w \in Nat
  /\ Byte \subseteq Words /\ \A k \in Nat : k <= 300 => k \in Words
BY DEF Word, Words, Byte

\* The values of an empty field.
LEMMA Zeros == 0 \in Byte /\ 0 \in Words /\ <<>> \in Seq(Byte)
BY DEF Byte, Words

\* A frame consists of bytes.
LEMMA FrameByteType ==
  ASSUME NEW p \in Packets, NEW sum \in Words, NEW n \in 1..FrameLength(p)
  PROVE  FrameByte(p, sum, n) \in Byte
<1>1. n \in 1..(11 + Len(p.data))
  BY PacketFacts DEF FrameLength
<1>6. Len(p.data) + 2 \in Words
  BY PacketFacts DEF Words
<1>2. CASE n \in 1..7
  <2>1. 239 \in Byte /\ 1 \in Byte /\ 255 \in Byte
    BY DEF Byte
  <2>2. FrameByte(p, sum, n) \in {239, 1, 255, p.packageId}
    BY <1>2 DEF FrameByte
  <2> QED BY <2>1, <2>2, PacketFacts
<1>3. CASE n \in 8..9
  <2>1. FrameByte(p, sum, n) = HighLow(Len(p.data) + 2)[n - 7]
    BY <1>3 DEF FrameByte
  <2>2. n - 7 \in 1..2
    BY <1>3
  <2> QED BY <1>6, <2>1, <2>2, HighLowType
<1>4. CASE n \in 10..(9 + Len(p.data))
  <2>1. FrameByte(p, sum, n) = p.data[n - 9]
    BY <1>4, PacketFacts DEF FrameByte
  <2>2. n - 9 \in 1..Len(p.data)
    BY <1>4, PacketFacts
  <2> QED BY <2>1, <2>2, PacketFacts
<1>5. CASE n \in (10 + Len(p.data))..(11 + Len(p.data))
  <2>1. FrameByte(p, sum, n) = HighLow(sum)[n - 9 - Len(p.data)]
    BY <1>5, PacketFacts DEF FrameByte
  <2>2. n - 9 - Len(p.data) \in 1..2
    BY <1>5, PacketFacts
  <2> QED BY <2>1, <2>2, HighLowType
<1> QED BY <1>1, <1>2, <1>3, <1>4, <1>5, PacketFacts

\* The checksum stays a word.
LEMMA ChecksumType ==
  ASSUME NEW p \in Packets, NEW sum \in Words, NEW n \in 1..FrameLength(p)
  PROVE  calc_checksum(p, sum, n) \in Words
<1>1. FrameByte(p, sum, n) \in Nat /\ sum \in Nat
  BY FrameByteType, WordType DEF Byte
<1> QED BY <1>1, WordType DEF calc_checksum

------------------------------------------------------------------------------
(* Types. *)

\* The step of each phase keeps the types.
LEMMA EnterType ==
  ASSUME NEW q \in Parsers, NEW s \in ParserStates PROVE Enter(q, s) \in Parsers
BY DEF Enter, Parsers

LEMMA HeaderType ==
  ASSUME NEW q \in Parsers, NEW c \in Byte PROVE InHeader(q, c) \in Parsers
BY EnterType DEF InHeader, Parsers, ParserStates

LEMMA NoneType ==
  ASSUME NEW q \in Parsers, NEW c \in Byte PROVE InNone(q, c) \in Parsers
<1>1. [q EXCEPT !.rxFrame = <<>>] \in Parsers
  BY Zeros DEF Parsers
<1>2. \A r \in Parsers :
        [r EXCEPT !.packageId = 0, !.packetLength = 0, !.checksum = 0] \in Parsers
  BY Zeros DEF Parsers
<1>3. Enter(q, "HEADER") \in Parsers
  BY EnterType DEF ParserStates
<1> QED BY <1>1, <1>2, <1>3, HeaderType DEF InNone

LEMMA AddressType ==
  ASSUME NEW q \in Parsers PROVE InAddress(q) \in Parsers
<1>1. [q EXCEPT !.cnt = @ + 1] \in Parsers
  BY DEF Parsers
<1>2. \A r \in Parsers : [r EXCEPT !.sum = 0] \in Parsers
  BY Zeros DEF Parsers
<1>3. Enter(q, "PACKAGE_ID") \in Parsers
  BY EnterType DEF ParserStates
<1> QED BY <1>1, <1>2, <1>3 DEF InAddress

LEMMA LengthType ==
  ASSUME NEW q \in Parsers, NEW c \in Byte PROVE InLength(q, c) \in Parsers
<1>1. [q EXCEPT !.packetLength = Word(@ * 256 + c), !.cnt = @ + 1] \in Parsers
  <2>1. PICK w \in Words : w = Word(q.packetLength * 256 + c)
    <3>1. q.packetLength * 256 + c \in Nat
      BY WordType DEF Parsers, Byte
    <3> QED BY <3>1, WordType
  <2>2. \A k \in Nat : [q EXCEPT !.packetLength = w, !.cnt = k] \in Parsers
    BY DEF Parsers
  <2>3. q.cnt + 1 \in Nat
    BY DEF Parsers
  <2> QED BY <2>1, <2>2, <2>3
<1> QED BY <1>1, EnterType DEF InLength, ParserStates

LEMMA DataType ==
  ASSUME NEW q \in Parsers PROVE InData(q) \in Parsers
<1>1. [q EXCEPT !.cnt = @ + 1] \in Parsers
  BY DEF Parsers
<1> QED BY <1>1, EnterType DEF InData, ParserStates

LEMMA ChecksumPhaseType ==
  ASSUME NEW q \in Parsers, NEW c \in Byte PROVE InChecksum(q, c) \in Parsers
<1>1. PICK r : r = [q EXCEPT !.checksum = Word(@ * 256 + c), !.cnt = @ + 1]
  OBVIOUS
<1>2. r \in Parsers
  <2>1. PICK w \in Words : w = Word(q.checksum * 256 + c)
    <3>1. q.checksum * 256 + c \in Nat
      BY WordType DEF Parsers, Byte
    <3> QED BY <3>1, WordType
  <2>2. \A k \in Nat : [q EXCEPT !.checksum = w, !.cnt = k] \in Parsers
    BY DEF Parsers
  <2>3. q.cnt + 1 \in Nat
    BY DEF Parsers
  <2> QED BY <1>1, <2>1, <2>2, <2>3
<1>3. [r EXCEPT !.state = "ERROR"] \in Parsers
  BY <1>2 DEF Parsers, ParserStates
<1>4. \A t \in Parsers : [t EXCEPT !.rxFrame = <<>>] \in Parsers
  BY Zeros DEF Parsers
<1>5. Enter(r, "NONE") \in Parsers
  BY <1>2, EnterType DEF ParserStates
<1>6. InChecksum(q, c) =
        CASE r.cnt < CHECKSUM_SIZE -> r
          [] r.cnt >= CHECKSUM_SIZE /\ r.checksum # r.sum -> [r EXCEPT !.state = "ERROR"]
          [] OTHER -> [Enter(r, "NONE") EXCEPT !.rxFrame = <<>>]
  BY <1>1 DEF InChecksum
<1> QED BY <1>2, <1>3, <1>4, <1>5, <1>6

\* Every turn of the loop begins by storing the byte and adding it up.
Stored(p, c) ==
  [p EXCEPT !.rxFrame = Append(@, c),
            !.sum = IF p.state = "CHECKSUM" THEN @ ELSE Word(@ + c)]

LEMMA ParseCases ==
  ASSUME NEW p, NEW c
  PROVE  Parse(p, c) =
           CASE p.state = "NONE" -> InNone(Stored(p, c), c)
             [] p.state = "HEADER" -> InHeader(Stored(p, c), c)
             [] p.state = "ADDRESS" -> InAddress(Stored(p, c))
             [] p.state = "PACKAGE_ID" ->
                  [Enter(Stored(p, c), "PACKET_LENGTH") EXCEPT !.packageId = c]
             [] p.state = "PACKET_LENGTH" -> InLength(Stored(p, c), c)
             [] p.state = "DATA" -> InData(Stored(p, c))
             [] p.state = "CHECKSUM" -> InChecksum(Stored(p, c), c)
             [] p.state = "ERROR" -> Stored(p, c)
BY DEF Parse, Stored

LEMMA StoredType ==
  ASSUME NEW p \in Parsers, NEW c \in Byte
  PROVE  Stored(p, c) \in Parsers
<1>1. PICK w \in Words : w = IF p.state = "CHECKSUM" THEN p.sum ELSE Word(p.sum + c)
  <2>1. p.sum + c \in Nat /\ p.sum \in Words
    BY WordType DEF Parsers, Byte
  <2> QED BY <2>1, WordType
<1>2. Append(p.rxFrame, c) \in Seq(Byte)
  BY DEF Parsers
<1>3. [p EXCEPT !.rxFrame = Append(@, c), !.sum = w] \in Parsers
  BY <1>2 DEF Parsers
<1> QED BY <1>1, <1>3 DEF Stored

\* Whatever byte comes, the parser's fields keep their types.
LEMMA ParseType ==
  ASSUME NEW p \in Parsers, NEW c \in Byte
  PROVE  Parse(p, c) \in Parsers
<1>1. Stored(p, c) \in Parsers
  BY StoredType
<1>2. \A r \in Parsers : [r EXCEPT !.packageId = c] \in Parsers
  BY DEF Parsers
<1>3. [Enter(Stored(p, c), "PACKET_LENGTH") EXCEPT !.packageId = c] \in Parsers
  BY <1>1, <1>2, EnterType DEF ParserStates
<1>4. p.state \in ParserStates
  BY DEF Parsers
<1> QED
  BY <1>1, <1>3, <1>4, NoneType, HeaderType, AddressType, LengthType, DataType,
     ChecksumPhaseType, ParseCases DEF ParserStates

Deliveries == [packageId : Byte, data : Seq(Byte)]

\* What is handed to the handlers consists of bytes, of rxFrame or zeros behind it.
LEMMA ReceivedType ==
  ASSUME NEW p \in Parsers, NEW c \in Byte
  PROVE  Received(p, c) \in Deliveries
<1> DEFINE frame == Append(p.rxFrame, c)
           rxFrame(i) == IF i < Len(frame) THEN frame[i + 1] ELSE 0
           data == [i \in 1..(p.packetLength - 2) |-> rxFrame(9 + i - 1)]
<1>1. frame \in Seq(Byte)
  BY DEF Parsers
<1>2. PICK m \in Nat : 1..(p.packetLength - 2) = 1..m
  <2>1. p.packetLength \in Nat
    BY WordType DEF Parsers
  <2>2. CASE p.packetLength >= 2
    BY <2>1, <2>2
  <2>3. CASE p.packetLength < 2
    <3>1. 1..(p.packetLength - 2) = 1..0
      BY <2>1, <2>3
    <3> QED BY <3>1
  <2> QED BY <2>1, <2>2, <2>3
<1> HIDE DEF frame
<1>3. \A i \in 1..m : rxFrame(9 + i - 1) \in Byte
  <2> TAKE i \in 1..m
  <2>1. CASE 9 + i - 1 < Len(frame)
    BY <1>1, <2>1
  <2>2. CASE ~(9 + i - 1 < Len(frame))
    BY <2>2, Zeros
  <2> QED BY <2>1, <2>2
<1>4. data \in [1..m -> Byte]
  BY <1>2, <1>3
<1>5. data \in Seq(Byte)
  <2>1. PICK d : d = data
    OBVIOUS
  <2>2. d \in [1..m -> Byte]
    BY <1>4, <2>1
  <2>3. d \in Seq(Byte)
    BY <2>2
  <2> QED BY <2>1, <2>3
<1>6. Received(p, c) = [packageId |-> p.packageId, data |-> data]
  BY DEF Received, frame
<1> HIDE DEF data
<1> QED BY <1>5, <1>6 DEF Parsers, Deliveries

\* The type invariant, in terms of the sets above.
LEMMA TypeOKParts ==
  TypeOK <=> /\ parser \in Parsers /\ line \in [next : Nat, sum : Words]
             /\ sent \in Seq(Packets) /\ delivered \in Seq(Deliveries)
             /\ budget \in [wakeUp : 0..MaxWakeUps, lost : 0..MaxLost,
                            corrupted : 0..MaxCorrupted]
BY DEF TypeOK, Parsers, Deliveries

\* The current packet is one of Packets, and its next byte a byte.
LEMMA Current ==
  ASSUME TypeInv, line.next # 0
  PROVE  /\ Last(sent) \in Packets /\ line.sum \in Words
         /\ line.next \in 1..FrameLength(Last(sent))
         /\ LineByte \in Byte
<1>1. sent \in Seq(Packets) /\ sent # <<>> /\ line.sum \in Words
  BY TypeOKParts DEF TypeInv, OnTheLine
<1>2. Last(sent) \in Packets
  BY <1>1 DEF Last
<1>3. line.next \in 1..FrameLength(Last(sent))
  BY DEF TypeInv, OnTheLine
<1> QED BY <1>1, <1>2, <1>3, FrameByteType DEF LineByte

\* What is left of the line is somewhere in the same packet, or nothing.
LEMMA RestType ==
  ASSUME TypeInv, line.next # 0
  PROVE  /\ Rest \in [next : Nat, sum : Words]
         /\ Rest.next # 0 => Rest.next \in 1..FrameLength(Last(sent))
<1>1. FrameLength(Last(sent)) \in Nat
  BY Current, PacketFacts DEF FrameLength
<1>2. CASE line.next = FrameLength(Last(sent))
  BY <1>2, Zeros DEF Rest, Idle
<1>3. CASE line.next # FrameLength(Last(sent))
  <2>1. calc_checksum(Last(sent), line.sum, line.next) \in Words
    BY Current, ChecksumType
  <2>2. Rest = [next |-> line.next + 1,
                sum |-> calc_checksum(Last(sent), line.sum, line.next)]
    BY <1>3 DEF Rest
  <2> QED BY <1>1, <1>3, <2>1, <2>2, Current
<1> QED BY <1>2, <1>3

\* A byte that arrives, whatever it is, leaves the parser's types alone.
LEMMA ArrivesType ==
  ASSUME TypeInv, NEW c \in Byte, Arrives(c)
  PROVE  parser' \in Parsers /\ delivered' \in Seq(Deliveries)
<1>1. parser \in Parsers /\ delivered \in Seq(Deliveries)
  BY TypeOKParts DEF TypeInv
<1>2. Received(parser, c) \in Deliveries /\ Parse(parser, c) \in Parsers
  BY <1>1, ReceivedType, ParseType
<1>3. Append(delivered, Received(parser, c)) \in Seq(Deliveries)
  BY <1>1, <1>2
<1> QED BY <1>1, <1>2, <1>3 DEF Arrives

\* The types hold initially.
LEMMA InitType == Init => TypeInv
<1> SUFFICES ASSUME Init PROVE TypeInv
  OBVIOUS
<1>1. InitialParser \in Parsers
  BY Zeros DEF InitialParser, Parsers, ParserStates
<1>2. Idle \in [next : Nat, sum : Words]
  BY Zeros DEF Idle
<1>3. budget \in [wakeUp : 0..MaxWakeUps, lost : 0..MaxLost, corrupted : 0..MaxCorrupted]
  BY Bounds DEF Init
<1>4. <<>> \in Seq(Packets) /\ <<>> \in Seq(Deliveries)
  OBVIOUS
<1>5. TypeOK
  BY <1>1, <1>2, <1>3, <1>4, TypeOKParts DEF Init
<1> QED BY <1>5 DEF TypeInv, OnTheLine, Init, Idle

\* Every step keeps the types.
LEMMA NextType == TypeInv /\ [Next]_vars => TypeInv'
<1> SUFFICES ASSUME TypeInv, [Next]_vars PROVE TypeInv'
  OBVIOUS
<1>0. /\ parser \in Parsers /\ line \in [next : Nat, sum : Words]
      /\ sent \in Seq(Packets) /\ delivered \in Seq(Deliveries)
      /\ budget \in [wakeUp : 0..MaxWakeUps, lost : 0..MaxLost, corrupted : 0..MaxCorrupted]
  BY TypeOKParts DEF TypeInv
<1> SUFFICES /\ parser' \in Parsers /\ line' \in [next : Nat, sum : Words]
             /\ sent' \in Seq(Packets) /\ delivered' \in Seq(Deliveries)
             /\ budget' \in [wakeUp : 0..MaxWakeUps, lost : 0..MaxLost,
                             corrupted : 0..MaxCorrupted]
             /\ OnTheLine'
  BY DEF TypeInv, TypeOK, Parsers, Deliveries
<1>1. CASE Send
  <2>1. PICK p \in Packets : sent' = Append(sent, p)
    BY <1>1 DEF Send
  <2>2. sent' \in Seq(Packets) /\ sent' # <<>> /\ Last(sent') = p
    BY <1>0, <2>1 DEF Last
  <2>3. line' = [next |-> 1, sum |-> 0] /\ line' \in [next : Nat, sum : Words]
    BY <1>1, Zeros DEF Send
  <2>4. OnTheLine'
    BY <2>2, <2>3, PacketFacts DEF OnTheLine, FrameLength
  <2> QED BY <1>0, <1>1, <2>2, <2>3, <2>4 DEF Send
<1>2. ASSUME line.next # 0, line' = Rest, UNCHANGED sent
      PROVE  line' \in [next : Nat, sum : Words] /\ OnTheLine'
  BY <1>2, RestType DEF OnTheLine, TypeInv
<1>3. CASE Arrive
  BY <1>0, <1>2, <1>3, Current, ArrivesType DEF Arrive
<1>4. CASE WakeUp
  <2>1. 85 \in Byte
    BY DEF Byte
  <2>2. budget' \in [wakeUp : 0..MaxWakeUps, lost : 0..MaxLost, corrupted : 0..MaxCorrupted]
    BY <1>0, <1>4, Bounds DEF WakeUp
  <2>3. OnTheLine'
    BY <1>4 DEF WakeUp, OnTheLine
  <2> QED BY <1>0, <1>4, <2>1, <2>2, <2>3, ArrivesType DEF WakeUp
<1>5. CASE Lose
  <2>1. budget' \in [wakeUp : 0..MaxWakeUps, lost : 0..MaxLost, corrupted : 0..MaxCorrupted]
    BY <1>0, <1>5, Bounds DEF Lose
  <2> QED BY <1>0, <1>2, <1>5, <2>1 DEF Lose, FaultPossible
<1>6. CASE Corrupt
  <2>1. budget' \in [wakeUp : 0..MaxWakeUps, lost : 0..MaxLost, corrupted : 0..MaxCorrupted]
    BY <1>0, <1>6, Bounds DEF Corrupt
  <2>2. PICK c \in NoiseBytes : Arrives(c)
    BY <1>6 DEF Corrupt
  <2>3. parser' \in Parsers /\ delivered' \in Seq(Deliveries)
    BY <2>2, Bounds, ArrivesType
  <2> QED BY <1>0, <1>2, <1>6, <2>1, <2>3 DEF Corrupt, FaultPossible
<1>7. CASE UNCHANGED vars
  BY <1>0, <1>7 DEF vars, TypeInv, OnTheLine
<1> QED BY <1>1, <1>3, <1>4, <1>5, <1>6, <1>7 DEF Next

\* The parser's fields stay within their C types, whatever bytes arrive, for
\* packets of any length: parseReply and sendPacket never leave a uint8_t or a
\* uint16_t, and the buffer holds bytes.
THEOREM TypeCorrect == Spec => []TypeOK
<1>1. Spec => []TypeInv
  BY InitType, NextType, PTL DEF Spec
<1>2. TypeInv => TypeOK
  BY DEF TypeInv
<1> QED BY <1>1, <1>2, PTL

------------------------------------------------------------------------------
(* Lock step. *)

\* Storing the expected byte: the frame grows by it, and both ends have added it
\* up, or neither.
LEMMA StoredInStep ==
  ASSUME NEW p \in Packets, NEW sum \in Words, NEW n \in 1..FrameLength(p),
         NEW q \in Parsers, InStep(q, p, n, sum), NEW c, c = FrameByte(p, sum, n),
         NEW t, t = Stored(q, c)
  PROVE  /\ t \in Parsers /\ c \in Byte
         /\ t.state = q.state /\ t.cnt = q.cnt /\ t.packageId = q.packageId
         /\ t.packetLength = q.packetLength /\ t.checksum = q.checksum
         /\ Len(t.rxFrame) = n
         /\ \A i \in 1..Len(p.data) : 9 + i < n + 1 => t.rxFrame[9 + i] = p.data[i]
         /\ n <= 6 => calc_checksum(p, sum, n) = 0
         /\ n >= 7 => t.sum = calc_checksum(p, sum, n)
<1>1. c \in Byte /\ t \in Parsers
  BY FrameByteType, StoredType
<1>2. /\ t.state = q.state /\ t.cnt = q.cnt /\ t.packageId = q.packageId
      /\ t.packetLength = q.packetLength /\ t.checksum = q.checksum
      /\ t.rxFrame = Append(q.rxFrame, c)
      /\ t.sum = IF q.state = "CHECKSUM" THEN q.sum ELSE Word(q.sum + c)
  BY DEF Stored, Parsers
<1>3. q.rxFrame \in Seq(Byte) /\ Len(q.rxFrame) = n - 1 /\ n \in Nat
  BY DEF InStep, Parsers
<1>4. Len(t.rxFrame) = n
  BY <1>1, <1>2, <1>3
<1>5. ASSUME NEW i \in 1..Len(p.data), 9 + i < n + 1 PROVE t.rxFrame[9 + i] = p.data[i]
  <2>1. CASE 9 + i < n
    <3>1. q.rxFrame[9 + i] = p.data[i]
      BY <2>1 DEF InStep
    <3>2. 9 + i \in 1..Len(q.rxFrame)
      BY <1>3, <2>1, PacketFacts
    <3> QED BY <1>1, <1>2, <1>3, <3>1, <3>2
  <2>2. CASE n = 9 + i
    <3>1. c = p.data[i]
      BY <2>2, PacketFacts DEF FrameByte
    <3> QED BY <1>1, <1>2, <1>3, <2>2, <3>1
  <2> QED BY <1>3, <1>5, <2>1, <2>2, PacketFacts
<1>6. n <= 6 => calc_checksum(p, sum, n) = 0
  BY DEF calc_checksum, InStep
<1>7. ASSUME n >= 7 PROVE t.sum = calc_checksum(p, sum, n)
  <2>1. q.sum = sum
    BY <1>7 DEF InStep
  <2>2. CASE n <= 9 + Len(p.data)
    <3>1. q.state # "CHECKSUM"
      BY <1>3, <1>7, <2>2, PacketFacts DEF InStep
    <3>2. n \in 7..(9 + Len(p.data))
      BY <1>3, <1>7, <2>2, PacketFacts
    <3> QED BY <1>2, <2>1, <3>1, <3>2 DEF calc_checksum
  <2>3. CASE n >= 10 + Len(p.data)
    <3>1. q.state = "CHECKSUM"
      BY <2>3 DEF InStep
    <3>2. n \notin 7..(9 + Len(p.data))
      BY <1>3, <2>3, PacketFacts
    <3> QED BY <1>2, <2>1, <3>1, <3>2 DEF calc_checksum
  <2> QED BY <1>3, <2>2, <2>3, PacketFacts
<1> QED BY <1>1, <1>2, <1>4, <1>5, <1>6, <1>7


\* Changing a field of a parser leaves the others alone.
LEMMA EnterFields ==
  ASSUME NEW t \in Parsers, NEW s
  PROVE  /\ Enter(t, s).state = s /\ Enter(t, s).cnt = 0 /\ Enter(t, s).sum = t.sum
         /\ Enter(t, s).rxFrame = t.rxFrame /\ Enter(t, s).packageId = t.packageId
         /\ Enter(t, s).packetLength = t.packetLength
         /\ Enter(t, s).checksum = t.checksum
BY DEF Enter, Parsers

\* The header bytes.
LEMMA HeaderInStep ==
  ASSUME NEW p \in Packets, NEW sum \in Words, NEW n \in 1..2,
         NEW q \in Parsers, InStep(q, p, n, sum), NEW c, c = FrameByte(p, sum, n),
         NEW t, t = Stored(q, c), NEW r, r = Parse(q, c),
         NEW added, added = calc_checksum(p, sum, n),
         NEW m, n + 1 = m, NEW L, Len(p.data) = L
  PROVE  InStep(r, p, m, added)
<1>1. n \in 1..FrameLength(p) /\ L \in Nat /\ L > 0
  BY PacketFacts DEF FrameLength
<1>2. /\ t \in Parsers /\ t.packetLength = q.packetLength /\ t.checksum = q.checksum
      /\ Len(t.rxFrame) = m - 1 /\ added = 0
  BY <1>1, StoredInStep
<1>3. CASE n = 1
  <2>1. c = 239 /\ q.state = "NONE"
    BY <1>3 DEF FrameByte, InStep
  <2>2. r = [Enter(t, "HEADER") EXCEPT !.packageId = 0, !.packetLength = 0, !.checksum = 0]
    <3>1. r = InNone(t, c)
      BY <2>1, ParseCases
    <3> QED BY <2>1, <3>1 DEF InNone
  <2>3. Enter(t, "HEADER") \in Parsers
    BY <1>2, EnterType DEF ParserStates
  <2>4. /\ r.state = "HEADER" /\ r.rxFrame = t.rxFrame /\ r.packetLength = 0
        /\ r.checksum = 0
    BY <1>2, <2>2, <2>3, EnterFields DEF Parsers
  <2>8. m = 2
    BY <1>3
  <2>9. \A i \in 1..L : 9 + i < m => r.rxFrame[9 + i] = p.data[i]
    BY <1>3, <2>8
  <2> QED BY <1>1, <1>2, <2>4, <2>8, <2>9 DEF InStep
<1>4. CASE n = 2
  <2>1. c = 1 /\ q.state = "HEADER"
    BY <1>4 DEF FrameByte, InStep
  <2>2. r = Enter(t, "ADDRESS")
    BY <2>1, ParseCases DEF InHeader
  <2>3. /\ r.state = "ADDRESS" /\ r.cnt = 0 /\ r.rxFrame = t.rxFrame
        /\ r.packetLength = 0 /\ r.checksum = 0
    BY <1>1, <1>2, <1>4, <2>2, EnterFields DEF InStep
  <2>8. m = 3
    BY <1>4
  <2>9. \A i \in 1..L : 9 + i < m => r.rxFrame[9 + i] = p.data[i]
    BY <1>4, <2>8
  <2> QED BY <1>1, <1>2, <2>3, <2>8, <2>9 DEF InStep
<1> QED BY <1>3, <1>4

\* The address bytes; the last of them starts the checksum.
LEMMA AddressInStep ==
  ASSUME NEW p \in Packets, NEW sum \in Words, NEW n \in 3..6,
         NEW q \in Parsers, InStep(q, p, n, sum), NEW c, c = FrameByte(p, sum, n),
         NEW t, t = Stored(q, c), NEW r, r = Parse(q, c),
         NEW added, added = calc_checksum(p, sum, n),
         NEW m, n + 1 = m, NEW L, Len(p.data) = L
  PROVE  InStep(r, p, m, added)
<1>1. n \in 1..FrameLength(p) /\ L \in Nat /\ L > 0
  BY PacketFacts DEF FrameLength
<1>2. /\ t \in Parsers /\ t.packetLength = q.packetLength /\ t.checksum = q.checksum
      /\ t.cnt = q.cnt /\ t.state = q.state
      /\ Len(t.rxFrame) = m - 1 /\ added = 0
  BY <1>1, StoredInStep
<1>3. /\ q.state = "ADDRESS" /\ q.cnt = n - 3 /\ q.packetLength = 0 /\ q.checksum = 0
  BY <1>1 DEF InStep
<1>4. r = InAddress(t)
  BY <1>3, ParseCases
<1>5. CASE n = 6
  <2>1. r = [Enter(t, "PACKAGE_ID") EXCEPT !.sum = 0]
    BY <1>2, <1>3, <1>4, <1>5 DEF InAddress
  <2>2. Enter(t, "PACKAGE_ID") \in Parsers
    BY <1>2, EnterType DEF ParserStates
  <2>3. /\ r.state = "PACKAGE_ID" /\ r.rxFrame = t.rxFrame /\ r.sum = 0
        /\ r.packetLength = 0 /\ r.checksum = 0
    BY <1>2, <1>3, <2>1, <2>2, EnterFields DEF Parsers
  <2>8. m = 7
    BY <1>5
  <2>9. \A i \in 1..L : 9 + i < m => r.rxFrame[9 + i] = p.data[i]
    BY <1>5, <2>8
  <2> QED BY <1>1, <1>2, <2>3, <2>8, <2>9 DEF InStep
<1>6. CASE n # 6
  <2>1. r = [t EXCEPT !.cnt = @ + 1]
    BY <1>2, <1>3, <1>4, <1>6 DEF InAddress
  <2>2. /\ r.state = "ADDRESS" /\ r.cnt = m - 3 /\ r.rxFrame = t.rxFrame
        /\ r.packetLength = 0 /\ r.checksum = 0
    BY <1>2, <1>3, <2>1 DEF Parsers
  <2>8. m \in 4..6
    BY <1>6
  <2>9. \A i \in 1..L : 9 + i < m => r.rxFrame[9 + i] = p.data[i]
    BY <2>8
  <2> QED BY <1>1, <1>2, <2>2, <2>8, <2>9 DEF InStep
<1> QED BY <1>5, <1>6

\* The package identifier.
LEMMA IdentifierInStep ==
  ASSUME NEW p \in Packets, NEW sum \in Words, NEW n \in 7..7,
         NEW q \in Parsers, InStep(q, p, n, sum), NEW c, c = FrameByte(p, sum, n),
         NEW t, t = Stored(q, c), NEW r, r = Parse(q, c),
         NEW added, added = calc_checksum(p, sum, n),
         NEW m, n + 1 = m, NEW L, Len(p.data) = L
  PROVE  InStep(r, p, m, added)
<1>1. n \in 1..FrameLength(p) /\ L \in Nat /\ L > 0
  BY PacketFacts DEF FrameLength
<1>2. /\ t \in Parsers /\ t.packetLength = q.packetLength /\ t.checksum = q.checksum
      /\ Len(t.rxFrame) = m - 1 /\ t.sum = added
  BY <1>1, StoredInStep
<1>3. /\ q.state = "PACKAGE_ID" /\ q.packetLength = 0 /\ q.checksum = 0
      /\ c = p.packageId
  BY <1>1 DEF InStep, FrameByte
<1>4. r = [Enter(t, "PACKET_LENGTH") EXCEPT !.packageId = c]
  BY <1>3, ParseCases
<1>5. Enter(t, "PACKET_LENGTH") \in Parsers
  BY <1>2, EnterType DEF ParserStates
<1>6. /\ r.state = "PACKET_LENGTH" /\ r.cnt = 0 /\ r.rxFrame = t.rxFrame
      /\ r.sum = added /\ r.packetLength = 0 /\ r.checksum = 0 /\ r.packageId = p.packageId
  BY <1>2, <1>3, <1>4, <1>5, EnterFields DEF Parsers
<1>7. m = 8
  OBVIOUS
<1>8. \A i \in 1..L : 9 + i < m => r.rxFrame[9 + i] = p.data[i]
  BY <1>7
<1> QED BY <1>1, <1>2, <1>6, <1>7, <1>8 DEF InStep

\* Setting the length and the counter keeps the types.
LEMMA LengthField ==
  ASSUME NEW t \in Parsers, NEW v \in Words, NEW k \in Nat
  PROVE  [t EXCEPT !.packetLength = v, !.cnt = k] \in Parsers
BY DEF Parsers

\* The length of the packet, high byte first.
LEMMA LengthInStep ==
  ASSUME NEW p \in Packets, NEW sum \in Words, NEW n \in 8..9,
         NEW q \in Parsers, InStep(q, p, n, sum), NEW c, c = FrameByte(p, sum, n),
         NEW t, t = Stored(q, c), NEW r, r = Parse(q, c),
         NEW added, added = calc_checksum(p, sum, n),
         NEW m, n + 1 = m, NEW L, Len(p.data) = L
  PROVE  InStep(r, p, m, added)
<1>0. PICK u : u = [t EXCEPT !.packetLength = Word(@ * 256 + c), !.cnt = @ + 1]
  OBVIOUS
<1>1. /\ n \in 1..FrameLength(p) /\ L \in Nat /\ L > 0
      /\ L <= 256
  BY PacketFacts DEF FrameLength
<1>2. /\ t \in Parsers /\ t.packetLength = q.packetLength /\ t.checksum = q.checksum
      /\ t.cnt = q.cnt /\ t.state = q.state /\ t.packageId = q.packageId
      /\ Len(t.rxFrame) = m - 1 /\ t.sum = added
  BY <1>1, StoredInStep
<1>3. /\ q.state = "PACKET_LENGTH" /\ q.cnt = n - 8 /\ q.checksum = 0
      /\ q.packageId = p.packageId
  BY <1>1 DEF InStep
<1>4. PICK w : w = L + 2
  OBVIOUS
<1>5. PICK h \in Byte, l \in Byte : w \div 256 = h /\ w % 256 = l /\ w = 256 * h + l
  <2>1. w \in Words
    BY <1>1, <1>4, WordType
  <2> QED BY <2>1, DivMod
<1>6. HighLow(w) = <<h, l>> /\ w \in Words
  <2>1. HighLow(w) = <<h, l>>
    BY <1>5, Zenon DEF HighLow
  <2> QED BY <1>1, <1>4, <2>1, WordType
<1>7. c = HighLow(w)[n - 7]
  BY <1>4 DEF FrameByte
<1>8. r = InLength(t, c) /\ InLength(t, c) = IF u.cnt >= 2 THEN Enter(u, "DATA") ELSE u
  <2>1. r = InLength(t, c)
    BY <1>3, ParseCases
  <2> QED BY <1>0, <2>1 DEF InLength
<1>9. \A v \in Words :
        Word(t.packetLength * 256 + c) = v =>
          /\ u \in Parsers /\ u.packetLength = v /\ u.cnt = n - 7
          /\ u.state = "PACKET_LENGTH" /\ u.checksum = 0 /\ u.packageId = p.packageId
          /\ u.rxFrame = t.rxFrame /\ u.sum = added
  <2> TAKE v \in Words
  <2> HAVE Word(t.packetLength * 256 + c) = v
  <2>1. u = [t EXCEPT !.packetLength = v, !.cnt = n - 7]
    <3>1. t.cnt + 1 = n - 7
      BY <1>2, <1>3
    <3> QED BY <1>0, <3>1
  <2>2. PICK k \in Nat : n - 7 = k
    BY <1>1
  <2>3. u \in Parsers
    <3>1. t \in Parsers
      BY <1>2
    <3>2. [t EXCEPT !.packetLength = v, !.cnt = k] \in Parsers
      BY <3>1, LengthField
    <3> QED BY <2>1, <2>2, <3>2
  <2> QED BY <1>2, <1>3, <2>1, <2>3 DEF Parsers
<1>10. CASE n = 8
  <2>1. c = h /\ t.packetLength = 0 /\ h \in Nat /\ h \in Words
    BY <1>2, <1>6, <1>7, <1>10, <1>1, WordType DEF InStep, Byte
  <2>2. Word(t.packetLength * 256 + c) = h
    <3>1. t.packetLength * 256 + c = h
      BY <2>1
    <3> QED BY <2>1, <3>1, WordType
  <2>3. r = u
    BY <1>8, <1>9, <1>10, <2>1, <2>2
  <2>4. /\ r.packetLength = h /\ r.cnt = 1 /\ r.state = "PACKET_LENGTH"
        /\ r.checksum = 0 /\ r.packageId = p.packageId /\ r.sum = added
        /\ Len(r.rxFrame) = m - 1
    BY <1>2, <1>9, <1>10, <2>1, <2>2, <2>3
  <2>5. h = (L + 2) \div 256
    BY <1>4, <1>5
  <2>8. m = 9
    BY <1>10
  <2>9. \A i \in 1..L : 9 + i < m => r.rxFrame[9 + i] = p.data[i]
    BY <1>10, <2>8
  <2> QED BY <1>1, <2>4, <2>5, <2>8, <2>9 DEF InStep
<1>11. CASE n = 9
  <2>1. c = l /\ t.packetLength = h /\ h \in Nat /\ l \in Nat
    <3>1. c = l
      BY <1>6, <1>7, <1>11
    <3>2. t.packetLength = h
      BY <1>1, <1>2, <1>4, <1>5, <1>11 DEF InStep
    <3> QED BY <3>1, <3>2 DEF Byte
  <2>2. Word(t.packetLength * 256 + c) = w
    <3>1. t.packetLength * 256 + c = w
      BY <1>5, <2>1
    <3> QED BY <1>6, <3>1, WordType
  <2>3. r = Enter(u, "DATA") /\ u \in Parsers
    BY <1>6, <1>8, <1>9, <1>11, <2>2
  <2>4. /\ r.packetLength = w /\ r.cnt = 0 /\ r.state = "DATA"
        /\ r.checksum = 0 /\ r.packageId = p.packageId /\ r.sum = added
        /\ Len(r.rxFrame) = m - 1
    BY <1>2, <1>6, <1>9, <1>11, <2>2, <2>3, EnterFields
  <2>8. m = 10
    BY <1>11
  <2>9. \A i \in 1..L : 9 + i < m => r.rxFrame[9 + i] = p.data[i]
    BY <1>11, <2>8, <1>1
  <2> QED BY <1>1, <1>4, <2>4, <2>8, <2>9 DEF InStep
<1> QED BY <1>10, <1>11

\* The data, as many bytes as the length says.
LEMMA DataInStep ==
  ASSUME NEW p \in Packets, NEW sum \in Words, NEW n \in 10..(9 + Len(p.data)),
         NEW q \in Parsers, InStep(q, p, n, sum), NEW c, c = FrameByte(p, sum, n),
         NEW t, t = Stored(q, c), NEW r, r = Parse(q, c),
         NEW added, added = calc_checksum(p, sum, n),
         NEW m, n + 1 = m, NEW L, Len(p.data) = L
  PROVE  InStep(r, p, m, added)
<1>0. PICK u : u = [t EXCEPT !.cnt = @ + 1]
  OBVIOUS
<1>1. /\ n \in 1..FrameLength(p) /\ L \in Nat /\ L > 0
      /\ L <= 256 /\ n \in Nat /\ n >= 10 /\ n <= 9 + L
  BY PacketFacts DEF FrameLength
<1>2. /\ t \in Parsers /\ t.packetLength = q.packetLength /\ t.checksum = q.checksum
      /\ t.cnt = q.cnt /\ t.state = q.state /\ t.packageId = q.packageId
      /\ Len(t.rxFrame) = m - 1 /\ t.sum = added
      /\ \A i \in 1..L : 9 + i < m => t.rxFrame[9 + i] = p.data[i]
  BY <1>1, StoredInStep
<1>3. /\ q.state = "DATA" /\ q.cnt = n - 10 /\ q.checksum = 0
      /\ q.packageId = p.packageId /\ q.packetLength = L + 2
  BY <1>1 DEF InStep
<1>4. /\ u \in Parsers /\ u.cnt = m - 10 /\ u.state = "DATA" /\ u.checksum = 0
      /\ u.packageId = p.packageId /\ u.packetLength = L + 2
      /\ u.sum = added /\ u.rxFrame = t.rxFrame
  <2>1. u = [t EXCEPT !.cnt = m - 10] /\ m - 10 \in Nat
    <3>1. t.cnt + 1 = m - 10
      BY <1>1, <1>2, <1>3
    <3>2. m - 10 \in Nat
      BY <1>1
    <3> QED BY <1>0, <3>1, <3>2
  <2> QED BY <1>2, <1>3, <2>1 DEF Parsers
<1>5. r = InData(t) /\ InData(t) = IF m - 10 >= L THEN Enter(u, "CHECKSUM") ELSE u
  <2>1. r = InData(t)
    BY <1>3, ParseCases
  <2>2. t.packetLength = L + 2 /\ t.packetLength - 2 = L
    BY <1>1, <1>2, <1>3
  <2> QED BY <1>0, <1>1, <1>4, <2>1, <2>2 DEF InData
<1>6. CASE n = 9 + L
  <2>1. r = Enter(u, "CHECKSUM")
    BY <1>1, <1>5, <1>6
  <2>2. /\ r.cnt = 0 /\ r.state = "CHECKSUM" /\ r.checksum = 0
        /\ r.packageId = p.packageId /\ r.packetLength = L + 2
        /\ r.sum = added /\ r.rxFrame = t.rxFrame
    BY <1>4, <2>1, EnterFields
  <2>8. m = 10 + L
    BY <1>1, <1>6
  <2>9. \A i \in 1..L : 9 + i < m => r.rxFrame[9 + i] = p.data[i]
    BY <1>1, <1>6, <2>8, <1>2, <2>2
  <2> QED BY <1>1, <1>2, <2>2, <2>8, <2>9 DEF InStep
<1>7. CASE n < 9 + L
  <2>1. r = u
    BY <1>1, <1>5, <1>7
  <2>8. m \in 11..(9 + L)
    BY <1>1, <1>7
  <2>9. \A i \in 1..L : 9 + i < m => r.rxFrame[9 + i] = p.data[i]
    BY <1>1, <1>7, <2>8, <1>2, <1>4, <2>1
  <2> QED BY <1>1, <1>2, <1>4, <2>1, <2>8, <2>9 DEF InStep
<1> QED BY <1>1, <1>6, <1>7

\* The first byte of the checksum.
LEMMA ChecksumInStep ==
  ASSUME NEW p \in Packets, NEW sum \in Words, NEW n, 10 + Len(p.data) = n,
         NEW q \in Parsers, InStep(q, p, n, sum), NEW c, c = FrameByte(p, sum, n),
         NEW t, t = Stored(q, c), NEW r, r = Parse(q, c),
         NEW added, added = calc_checksum(p, sum, n),
         NEW m, n + 1 = m, NEW L, Len(p.data) = L
  PROVE  InStep(r, p, m, added)
<1>0. PICK u : u = [t EXCEPT !.checksum = Word(@ * 256 + c), !.cnt = @ + 1]
  OBVIOUS
<1>1. /\ n \in 1..FrameLength(p) /\ L \in Nat /\ L > 0 /\ n \in Nat
  BY PacketFacts DEF FrameLength
<1>2. /\ t \in Parsers /\ t.packetLength = q.packetLength /\ t.checksum = q.checksum
      /\ t.cnt = q.cnt /\ t.state = q.state /\ t.packageId = q.packageId
      /\ Len(t.rxFrame) = m - 1 /\ t.sum = added
      /\ \A i \in 1..L : 9 + i < m => t.rxFrame[9 + i] = p.data[i]
  BY <1>1, StoredInStep
<1>3. /\ q.state = "CHECKSUM" /\ q.cnt = 0 /\ q.checksum = 0
      /\ q.packageId = p.packageId /\ q.packetLength = L + 2
  BY <1>1 DEF InStep
<1>4. added = sum
  BY <1>1 DEF calc_checksum
<1>5. PICK h \in Byte : c = h /\ h = sum \div 256
  <2>1. PICK h \in Byte, l \in Byte : sum \div 256 = h /\ sum % 256 = l
    BY DivMod
  <2>2. HighLow(sum) = <<h, l>>
    BY <2>1, Zenon DEF HighLow
  <2>3. c = HighLow(sum)[1]
    BY <1>1 DEF FrameByte
  <2> QED BY <2>1, <2>2, <2>3
<1>6. Word(t.checksum * 256 + c) = h
  <2>1. t.checksum * 256 + c = h /\ h \in Words
    BY <1>2, <1>3, <1>5, WordType DEF Byte
  <2> QED BY <2>1, WordType
<1>7. u = [t EXCEPT !.checksum = h, !.cnt = 1]
  <2>1. t.cnt + 1 = 1
    BY <1>2, <1>3
  <2> QED BY <1>0, <1>6, <2>1
<1>8. /\ u.cnt = 1 /\ u.checksum = h /\ u.state = "CHECKSUM" /\ u.packageId = p.packageId
      /\ u.packetLength = L + 2 /\ u.sum = sum /\ u.rxFrame = t.rxFrame
  <2> QED BY <1>2, <1>3, <1>4, <1>7 DEF Parsers
<1>9. r = u
  <2>1. r = InChecksum(t, c)
    BY <1>3, ParseCases
  <2>2. InChecksum(t, c) =
          CASE u.cnt < CHECKSUM_SIZE -> u
            [] u.cnt >= CHECKSUM_SIZE /\ u.checksum # u.sum -> [u EXCEPT !.state = "ERROR"]
            [] OTHER -> [Enter(u, "NONE") EXCEPT !.rxFrame = <<>>]
    BY <1>0 DEF InChecksum
  <2>3. u.cnt < CHECKSUM_SIZE /\ ~(u.cnt >= CHECKSUM_SIZE)
    BY <1>8
  <2> QED BY <2>1, <2>2, <2>3
<1>10. m = 11 + L
  BY <1>1
<1>11. \A i \in 1..L : 9 + i < m => r.rxFrame[9 + i] = p.data[i]
  BY <1>2, <1>8, <1>9
<1> QED BY <1>1, <1>2, <1>4, <1>5, <1>8, <1>9, <1>10, <1>11 DEF InStep

\* Any byte but the last: the parser stays in step and completes nothing.
LEMMA StaysInStep ==
  ASSUME NEW p \in Packets, NEW sum \in Words, NEW n \in 1..FrameLength(p),
         n # FrameLength(p),
         NEW q \in Parsers, InStep(q, p, n, sum), NEW c, c = FrameByte(p, sum, n)
  PROVE  /\ InStep(Parse(q, c), p, n + 1, calc_checksum(p, sum, n))
         /\ ~Completes(q, c)
<1>1. PICK L \in Nat : Len(p.data) = L /\ FrameLength(p) = 11 + L /\ L > 0
  BY PacketFacts DEF FrameLength
<1>2. n \in Nat /\ n >= 1 /\ n <= 10 + L
  BY <1>1
<1>3. CASE n \in 1..2
  <2>1. q.state # "CHECKSUM"
    BY <1>3 DEF InStep
  <2> QED BY <1>3, <2>1, HeaderInStep DEF Completes
<1>4. CASE n \in 3..6
  <2>1. q.state # "CHECKSUM"
    BY <1>4 DEF InStep
  <2> QED BY <1>4, <2>1, AddressInStep DEF Completes
<1>5. CASE n \in 7..7
  <2>1. q.state # "CHECKSUM"
    BY <1>5 DEF InStep
  <2> QED BY <1>5, <2>1, IdentifierInStep DEF Completes
<1>6. CASE n \in 8..9
  <2>1. q.state # "CHECKSUM"
    BY <1>6 DEF InStep
  <2> QED BY <1>6, <2>1, LengthInStep DEF Completes
<1>7. CASE n \in 10..(9 + Len(p.data))
  <2>1. q.state # "CHECKSUM"
    BY <1>7 DEF InStep
  <2> QED BY <1>7, <2>1, DataInStep DEF Completes
<1>8. CASE n = 10 + Len(p.data)
  <2>1. q.cnt = 0
    BY <1>1, <1>8 DEF InStep
  <2>2. ~Completes(q, c)
    BY <2>1 DEF Completes
  <2>3. InStep(Parse(q, c), p, n + 1, calc_checksum(p, sum, n))
    BY <1>8, ChecksumInStep
  <2> QED BY <2>2, <2>3
<1> QED BY <1>1, <1>2, <1>3, <1>4, <1>5, <1>6, <1>7, <1>8

\* The last byte completes the packet, which is the one that was sent.
LEMMA EndsInStep ==
  ASSUME NEW p \in Packets, NEW sum \in Words, NEW n, FrameLength(p) = n,
         NEW q \in Parsers, InStep(q, p, n, sum), NEW c, c = FrameByte(p, sum, n)
  PROVE  /\ Completes(q, c) /\ Received(q, c) = p
         /\ Parse(q, c).state = "NONE" /\ Parse(q, c).rxFrame = <<>>
<1>1. PICK L \in Nat : Len(p.data) = L /\ n = 11 + L /\ L > 0 /\ n \in 1..FrameLength(p)
  BY PacketFacts DEF FrameLength
<1>2. PICK t : t = Stored(q, c)
  OBVIOUS
<1>3. /\ t \in Parsers /\ c \in Byte /\ t.packetLength = q.packetLength
      /\ t.checksum = q.checksum /\ t.cnt = q.cnt /\ t.packageId = q.packageId
      /\ Len(t.rxFrame) = n /\ t.state = q.state
      /\ \A i \in 1..L : 9 + i < n + 1 => t.rxFrame[9 + i] = p.data[i]
  BY <1>1, <1>2, StoredInStep
<1>4. t.rxFrame = Append(q.rxFrame, c) /\ (q.state = "CHECKSUM" => t.sum = q.sum)
  BY <1>2 DEF Stored, Parsers
<1>5. /\ q.state = "CHECKSUM" /\ q.cnt = 1 /\ q.checksum = sum \div 256
      /\ q.packageId = p.packageId /\ q.packetLength = L + 2 /\ q.sum = sum
  BY <1>1 DEF InStep
<1>6. Word(q.checksum * 256 + c) = sum
  <2>1. PICK h \in Byte, l \in Byte : sum \div 256 = h /\ sum % 256 = l /\ sum = 256 * h + l
    BY DivMod
  <2>2. HighLow(sum) = <<h, l>>
    BY <2>1, Zenon DEF HighLow
  <2>3. c = HighLow(sum)[2]
    BY <1>1 DEF FrameByte
  <2>4. q.checksum * 256 + c = sum
    BY <1>5, <2>1, <2>2, <2>3 DEF Byte
  <2> QED BY <2>4, WordType
<1>7. Completes(q, c)
  BY <1>5, <1>6 DEF Completes
<1>8. Received(q, c) = p
  <2> DEFINE frame == Append(q.rxFrame, c)
             rxFrame(i) == IF i < Len(frame) THEN frame[i + 1] ELSE 0
             data == [i \in 1..L |-> rxFrame(9 + i - 1)]
  <2>1. \A i \in 1..L : rxFrame(9 + i - 1) = p.data[i]
    <3> TAKE i \in 1..L
    <3>1. 9 + i - 1 < Len(frame) /\ (9 + i - 1) + 1 = 9 + i
      BY <1>1, <1>3, <1>4
    <3>2. frame[9 + i] = p.data[i]
      BY <1>1, <1>3, <1>4
    <3> QED BY <3>1, <3>2
  <2>2. q.packetLength - 2 = L
    BY <1>5
  <2>3. Received(q, c) = [packageId |-> q.packageId, data |-> data]
    BY <2>2 DEF Received
  <2> HIDE DEF rxFrame, frame
  <2>4. data = [i \in 1..L |-> p.data[i]]
    BY <2>1
  <2>5. p.data = [i \in 1..L |-> p.data[i]]
    BY <1>1, PacketFacts
  <2> HIDE DEF data
  <2>6. p = [packageId |-> p.packageId, data |-> p.data]
    BY PacketFacts
  <2> QED BY <1>5, <2>3, <2>4, <2>5, <2>6
<1>9. Parse(q, c).state = "NONE" /\ Parse(q, c).rxFrame = <<>>
  <2>1. PICK u : u = [t EXCEPT !.checksum = Word(@ * 256 + c), !.cnt = @ + 1]
    OBVIOUS
  <2>2. Word(t.checksum * 256 + c) = sum /\ t.cnt + 1 = 2
    BY <1>3, <1>5, <1>6
  <2>3. u = [t EXCEPT !.checksum = sum, !.cnt = 2]
    BY <2>1, <2>2
  <2>4. u \in Parsers /\ u.cnt = 2 /\ u.checksum = u.sum
    BY <1>3, <1>4, <1>5, <2>3 DEF Parsers
  <2>5. Parse(q, c) = InChecksum(t, c)
    BY <1>2, <1>5, ParseCases
  <2>6. InChecksum(t, c) =
          CASE u.cnt < CHECKSUM_SIZE -> u
            [] u.cnt >= CHECKSUM_SIZE /\ u.checksum # u.sum -> [u EXCEPT !.state = "ERROR"]
            [] OTHER -> [Enter(u, "NONE") EXCEPT !.rxFrame = <<>>]
    BY <2>1 DEF InChecksum
  <2>7. Parse(q, c) = [Enter(u, "NONE") EXCEPT !.rxFrame = <<>>]
    BY <2>4, <2>5, <2>6
  <2>8. Enter(u, "NONE") \in Parsers
    BY <2>4, EnterType DEF ParserStates
  <2> QED BY <2>4, <2>7, <2>8, EnterFields DEF Parsers
<1> QED BY <1>7, <1>8, <1>9

\* Between packets the wake-up byte changes nothing the next packet depends on.
LEMMA WakeUpKeeps ==
  ASSUME NEW q \in Parsers, q.state = "NONE"
  PROVE  /\ Parse(q, 85).state = "NONE" /\ Parse(q, 85).rxFrame = <<>>
         /\ ~Completes(q, 85)
<1>1. PICK t : t = Stored(q, 85)
  OBVIOUS
<1>2. t \in Parsers /\ t.state = "NONE"
  <2>1. 85 \in Byte
    BY DEF Byte
  <2> QED BY <1>1, <2>1, StoredType DEF Stored, Parsers
<1>3. Parse(q, 85) = InNone(t, 85)
  BY <1>1, ParseCases
<1>4. Parse(q, 85) = [t EXCEPT !.rxFrame = <<>>]
  BY <1>3 DEF InNone
<1> QED BY <1>2, <1>4 DEF Parsers, Completes

------------------------------------------------------------------------------
(* The line. *)

\* The byte that arrives is the one the parser is in step for.
LEMMA ArriveLock ==
  ASSUME TypeInv, LockStep, Arrive PROVE LockStep'
<1> SUFFICES ASSUME Faultless' PROVE
      IF line'.next = 0
      THEN parser'.state = "NONE" /\ parser'.rxFrame = <<>> /\ delivered' = sent'
      ELSE /\ InStep(parser', Last(sent'), line'.next, line'.sum)
           /\ sent' = Append(delivered', Last(sent'))
  BY DEF LockStep
<1>1. /\ line.next # 0 /\ line' = Rest /\ sent' = sent /\ budget' = budget
      /\ parser' = Parse(parser, LineByte)
      /\ delivered' = IF Completes(parser, LineByte)
                      THEN Append(delivered, Received(parser, LineByte)) ELSE delivered
  BY DEF Arrive, Arrives
<1>2. Faultless
  BY <1>1 DEF Faultless
<1> DEFINE p == Last(sent)
           n == line.next
<1>3. InStep(parser, p, n, line.sum) /\ sent = Append(delivered, p)
  BY <1>1, <1>2 DEF LockStep
<1>4. /\ p \in Packets /\ line.sum \in Words /\ n \in 1..FrameLength(p)
      /\ LineByte = FrameByte(p, line.sum, n) /\ parser \in Parsers
  BY <1>1, Current, TypeOKParts DEF TypeInv, LineByte
<1>5. CASE n = FrameLength(p)
  <2>1. /\ Completes(parser, LineByte) /\ Received(parser, LineByte) = p
        /\ parser'.state = "NONE" /\ parser'.rxFrame = <<>>
    BY <1>1, <1>3, <1>4, <1>5, EndsInStep
  <2>2. line'.next = 0
    BY <1>1, <1>5 DEF Rest, Idle
  <2> QED BY <1>1, <1>3, <2>1, <2>2
<1>6. CASE n # FrameLength(p)
  <2>1. /\ InStep(parser', p, n + 1, calc_checksum(p, line.sum, n))
        /\ ~Completes(parser, LineByte)
    BY <1>1, <1>3, <1>4, <1>6, StaysInStep
  <2>2. /\ line'.next = n + 1 /\ line'.next # 0
        /\ line'.sum = calc_checksum(p, line.sum, n)
    BY <1>1, <1>4, <1>6 DEF Rest
  <2> QED BY <1>1, <1>3, <2>1, <2>2
<1> QED BY <1>5, <1>6

\* A new packet starts where the parser waits for one.
LEMMA SendLock ==
  ASSUME TypeInv, LockStep, Send PROVE LockStep'
<1>1. PICK p \in Packets : sent' = Append(sent, p)
  BY DEF Send
<1>2. /\ line.next = 0 /\ line' = [next |-> 1, sum |-> 0] /\ budget' = budget
      /\ parser' = parser /\ delivered' = delivered
  BY DEF Send
<1>3. sent \in Seq(Packets) /\ parser \in Parsers
  BY TypeOKParts DEF TypeInv
<1>4. Last(sent') = p
  BY <1>1, <1>3 DEF Last
<1>5. ASSUME Faultless'
      PROVE  InStep(parser', p, 1, 0) /\ sent' = Append(delivered', p)
  <2>1. parser.state = "NONE" /\ parser.rxFrame = <<>> /\ delivered = sent
    BY <1>2, <1>5 DEF LockStep, Faultless
  <2>2. PICK L \in Nat : Len(p.data) = L /\ L > 0
    BY PacketFacts
  <2>3. Len(parser.rxFrame) = 0
    BY <2>1
  <2>4. InStep(parser, p, 1, 0)
    BY <2>1, <2>2, <2>3 DEF InStep
  <2> QED BY <1>1, <1>2, <2>1, <2>4
<1> QED BY <1>2, <1>4, <1>5 DEF LockStep

\* The wake-up byte comes between packets only.
LEMMA WakeUpLock ==
  ASSUME TypeInv, LockStep, WakeUp PROVE LockStep'
<1>1. /\ line.next = 0 /\ line' = line /\ sent' = sent
      /\ budget' = [budget EXCEPT !.wakeUp = @ - 1]
      /\ parser' = Parse(parser, 85)
      /\ delivered' = IF Completes(parser, 85)
                      THEN Append(delivered, Received(parser, 85)) ELSE delivered
  BY DEF WakeUp, Arrives
<1>2. parser \in Parsers /\ budget'.lost = budget.lost /\ budget'.corrupted = budget.corrupted
  BY <1>1, TypeOKParts DEF TypeInv
<1>3. ASSUME Faultless'
      PROVE  parser'.state = "NONE" /\ parser'.rxFrame = <<>> /\ delivered' = sent'
  <2>1. parser.state = "NONE" /\ delivered = sent
    BY <1>1, <1>2, <1>3 DEF LockStep, Faultless
  <2> QED BY <1>1, <1>2, <2>1, WakeUpKeeps
<1> QED BY <1>1, <1>3 DEF LockStep

\* After a fault nothing is claimed.
LEMMA FaultLock ==
  ASSUME TypeInv, Lose \/ Corrupt PROVE ~Faultless'
<1>1. budget \in [wakeUp : 0..MaxWakeUps, lost : 0..MaxLost, corrupted : 0..MaxCorrupted]
  BY TypeOKParts DEF TypeInv
<1>2. CASE Lose
  <2>1. budget' = [budget EXCEPT !.lost = @ - 1]
    BY <1>2 DEF Lose
  <2>2. budget'.lost = budget.lost - 1
    BY <1>1, <2>1
  <2> QED BY <1>1, <2>2, Bounds DEF Faultless
<1>3. CASE Corrupt
  <2>1. budget' = [budget EXCEPT !.corrupted = @ - 1]
    BY <1>3 DEF Corrupt
  <2>2. budget'.corrupted = budget.corrupted - 1
    BY <1>1, <2>1
  <2> QED BY <1>1, <2>2, Bounds DEF Faultless
<1> QED BY <1>2, <1>3

\* The parser and the line start together.
LEMMA InitLine == Init => LineInv
<1>1. Init => LockStep
  BY DEF Init, LockStep, InitialParser, Idle
<1> QED BY <1>1, InitType DEF LineInv

\* Every step keeps them together, as long as nothing is lost or corrupted.
LEMMA NextLine == LineInv /\ [Next]_vars => LineInv'
<1> SUFFICES ASSUME TypeInv, LockStep, [Next]_vars PROVE LockStep'
  BY NextType DEF LineInv
<1>1. CASE Send
  BY <1>1, SendLock
<1>2. CASE Arrive
  BY <1>2, ArriveLock
<1>3. CASE WakeUp
  BY <1>3, WakeUpLock
<1>4. CASE Lose \/ Corrupt
  BY <1>4, FaultLock DEF LockStep
<1>5. CASE UNCHANGED vars
  BY <1>5 DEF vars, LockStep, Faultless
<1> QED BY <1>1, <1>2, <1>3, <1>4, <1>5 DEF Next

\* What LineInv says about the deliveries.
LEMMA LineDelivers == LineInv => DeliveredInOrder
<1> SUFFICES ASSUME LineInv, Faultless PROVE IsPrefix(delivered, sent)
  BY DEF DeliveredInOrder
<1>1. delivered \in Seq(Deliveries) /\ sent \in Seq(Packets)
  BY TypeOKParts DEF LineInv, TypeInv
<1>2. CASE delivered = sent
  BY <1>1, <1>2 DEF IsPrefix
<1>3. CASE sent = Append(delivered, Last(sent))
  <2>1. Len(delivered) <= Len(sent)
    BY <1>1, <1>3
  <2>2. \A i \in 1..Len(delivered) : delivered[i] = sent[i]
    BY <1>1, <1>3
  <2> QED BY <1>1, <2>1, <2>2 DEF IsPrefix
<1> QED BY <1>2, <1>3 DEF LineInv, LockStep

\* As long as nothing is lost or corrupted, the states see exactly the packets the
\* module sent, in order: parseReply takes apart what sendPacket's format puts
\* together, for every content, every length up to MAX_DATA_SIZE and any number of
\* packets.
THEOREM Ordered == Spec => []DeliveredInOrder
<1>1. Spec => []LineInv
  BY InitLine, NextLine, PTL DEF Spec
<1> QED BY <1>1, LineDelivers, PTL

\* As long as nothing is lost or corrupted, parseReply stores no byte behind
\* rxFrame, however many packets and wake-up bytes come.
THEOREM Fits == Spec => []FrameFits
<1>1. Spec => []LineInv
  BY InitLine, NextLine, PTL DEF Spec
<1>2. LineInv => FrameFits
  <2> SUFFICES ASSUME LineInv, Faultless PROVE Len(parser.rxFrame) <= MAX_RX_FRAME_SIZE
    BY DEF FrameFits
  <2>1. CASE line.next = 0
    <3>1. Len(parser.rxFrame) = 0
      BY <2>1 DEF LineInv, LockStep
    <3> QED BY <3>1, Bounds DEF MAX_RX_FRAME_SIZE
  <2>2. CASE line.next # 0
    <3>1. Len(parser.rxFrame) = line.next - 1
      BY <2>2 DEF LineInv, LockStep, InStep
    <3>2. /\ Last(sent) \in Packets /\ line.next \in 1..FrameLength(Last(sent))
      BY <2>2, Current DEF LineInv
    <3>3. FrameLength(Last(sent)) <= MAX_RX_FRAME_SIZE /\ FrameLength(Last(sent)) \in Nat
      BY <3>2, PacketFacts DEF FrameLength, MAX_RX_FRAME_SIZE
    <3> QED BY <3>1, <3>2, <3>3, Bounds DEF MAX_RX_FRAME_SIZE
  <2> QED BY <2>1, <2>2
<1> QED BY <1>1, <1>2, PTL

================================================================================
