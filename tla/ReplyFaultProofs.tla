---------------------------- MODULE ReplyFaultProofs ----------------------------
(***************************************************************************)
(* A theorem about ReplyParser on a faulty line: what calc_checksum is for *)
(* is to notice a byte that was changed.                                   *)
(***************************************************************************)
EXTENDS ReplyParserProofs

------------------------------------------------------------------------------
(* The invariant. *)

\* At most one byte is changed, and faults come behind the length field.
OneWrongByte == MaxCorrupted <= 1 /\ FirstFaulty > DATA_OFFSET

\* Parser q expects byte n of the frame of packet p, and the checksum it will
\* compare is not the one the line will deliver.
OutOfStep(q, p, n, sum) ==
  /\ n \in (DATA_OFFSET + 2)..FrameLength(p)
  /\ q.packetLength = Len(p.data) + 2
  /\ n <= 9 + Len(p.data) => q.state = "DATA" /\ q.cnt = n - 10
  /\ n >= 10 + Len(p.data) => q.state = "CHECKSUM" /\ q.cnt = n - 10 - Len(p.data)
  /\ n <= 10 + Len(p.data) => q.sum # sum /\ q.checksum = 0
  /\ n = 11 + Len(p.data) => Word(q.checksum * 256 + (sum % 256)) # q.sum

\* Once the byte has been changed, the packet is on its way to be refused, or it
\* has been, and the parser takes nothing more.
Caught ==
  ~Faultless => \/ parser.state = "ERROR"
                \/ line.next # 0 /\ OutOfStep(parser, Last(sent), line.next, line.sum)

\* Nothing of this outlives the loss of a byte.
FaultInv == LineInv /\ (NothingLost => Caught /\ NothingInvented)

------------------------------------------------------------------------------
(* Sums. *)

USE DEF CHECKSUM_SIZE, DATA_OFFSET

\* Sums of words that differ by less than a word differ as words.
LEMMA SumsDiffer ==
  ASSUME NEW a \in Nat, NEW b \in Nat, a < b, b < a + 65536
  PROVE  Word(a) # Word(b)
BY DEF Word

\* Adding the same byte keeps sums apart; adding different bytes sets them apart.
LEMMA AddedApart ==
  ASSUME NEW a \in Words, NEW b \in Words, NEW c \in Byte, NEW d \in Byte,
         (a = b /\ c # d) \/ (a # b /\ c = d)
  PROVE  Word(a + c) # Word(b + d)
<1>1. /\ a \in Nat /\ b \in Nat /\ c \in Nat /\ d \in Nat
      /\ a < 65536 /\ b < 65536 /\ c < 256 /\ d < 256
  BY DEF Words, Byte
<1>2. PICK x \in Nat, y \in Nat : x = a + c /\ y = b + d
  BY <1>1
<1>3. x < y \/ y < x
  BY <1>1, <1>2
<1>4. x < y + 65536 /\ y < x + 65536
  BY <1>1, <1>2
<1>5. Word(x) # Word(y)
  BY <1>3, <1>4, SumsDiffer
<1> QED BY <1>2, <1>5

------------------------------------------------------------------------------
(* What the phases behind the length do with any byte. *)

\* A byte of data is counted and added up.
LEMMA DataByte ==
  ASSUME NEW q \in Parsers, NEW c \in Byte, NEW L \in Nat, NEW k \in Nat, NEW r,
         q.state = "DATA", q.cnt = k, q.packetLength = L + 2, r = Parse(q, c)
  PROVE  /\ r.sum = Word(q.sum + c) /\ r.checksum = q.checksum
         /\ r.packetLength = L + 2 /\ ~Completes(q, c)
         /\ k + 1 < L => r.state = "DATA" /\ r.cnt = k + 1
         /\ k + 1 >= L => r.state = "CHECKSUM" /\ r.cnt = 0
<1>1. PICK t : t = Stored(q, c)
  OBVIOUS
<1>2. /\ t \in Parsers /\ t.state = "DATA" /\ t.cnt = k /\ t.packetLength = L + 2
      /\ t.checksum = q.checksum /\ t.sum = Word(q.sum + c)
  <2>1. t \in Parsers
    BY <1>1, StoredType
  <2> QED BY <1>1, <2>1 DEF Stored, Parsers
<1>3. PICK u : u = [t EXCEPT !.cnt = @ + 1]
  OBVIOUS
<1>4. /\ u \in Parsers /\ u.state = "DATA" /\ u.cnt = k + 1 /\ u.packetLength = L + 2
      /\ u.checksum = q.checksum /\ u.sum = Word(q.sum + c)
  <2>1. u = [t EXCEPT !.cnt = k + 1] /\ k + 1 \in Nat
    BY <1>2, <1>3
  <2> QED BY <1>2, <2>1 DEF Parsers
<1>5. r = IF k + 1 >= L THEN Enter(u, "CHECKSUM") ELSE u
  <2>1. r = InData(t)
    BY <1>1, ParseCases
  <2>2. t.packetLength >= 2 /\ t.packetLength - 2 = L
    BY <1>2
  <2> QED BY <1>3, <1>4, <2>1, <2>2 DEF InData
<1>6. ~Completes(q, c)
  BY DEF Completes
<1>7. CASE k + 1 >= L
  BY <1>4, <1>5, <1>6, <1>7, EnterFields
<1>8. CASE k + 1 < L
  BY <1>4, <1>5, <1>6, <1>8
<1> QED BY <1>7, <1>8

\* The first byte of the checksum is kept, the second decides.
LEMMA ChecksumByte ==
  ASSUME NEW q \in Parsers, NEW c \in Byte, NEW r,
         q.state = "CHECKSUM", r = Parse(q, c)
  PROVE  /\ q.cnt = 0 => /\ r.state = "CHECKSUM" /\ r.cnt = 1 /\ r.sum = q.sum
                         /\ r.checksum = Word(q.checksum * 256 + c)
                         /\ r.packetLength = q.packetLength /\ ~Completes(q, c)
         /\ q.cnt = 1 /\ Word(q.checksum * 256 + c) # q.sum =>
              r.state = "ERROR" /\ ~Completes(q, c)
<1>1. PICK t : t = Stored(q, c)
  OBVIOUS
<1>2. /\ t \in Parsers /\ t.state = "CHECKSUM" /\ t.cnt = q.cnt /\ t.sum = q.sum
      /\ t.checksum = q.checksum /\ t.packetLength = q.packetLength
  <2>1. t \in Parsers
    BY <1>1, StoredType
  <2> QED BY <1>1, <2>1 DEF Stored, Parsers
<1>3. PICK w \in Words : w = Word(q.checksum * 256 + c)
  <2>1. q.checksum * 256 + c \in Nat
    BY WordType DEF Parsers, Byte
  <2> QED BY <2>1, WordType
<1>4. PICK u : u = [t EXCEPT !.checksum = Word(@ * 256 + c), !.cnt = @ + 1]
  OBVIOUS
<1>5. /\ u \in Parsers /\ u.state = "CHECKSUM" /\ u.cnt = q.cnt + 1 /\ u.sum = q.sum
      /\ u.checksum = w /\ u.packetLength = q.packetLength
  <2>1. u = [t EXCEPT !.checksum = w, !.cnt = q.cnt + 1]
    BY <1>2, <1>3, <1>4
  <2>2. q.cnt + 1 \in Nat
    BY DEF Parsers
  <2> QED BY <1>2, <2>1, <2>2 DEF Parsers
<1>6. r = CASE u.cnt < CHECKSUM_SIZE -> u
            [] u.cnt >= CHECKSUM_SIZE /\ u.checksum # u.sum -> [u EXCEPT !.state = "ERROR"]
            [] OTHER -> [Enter(u, "NONE") EXCEPT !.rxFrame = <<>>]
  <2>1. r = InChecksum(t, c)
    BY <1>1, ParseCases
  <2> QED BY <1>4, <2>1 DEF InChecksum
<1>7. CASE q.cnt = 0
  <2>1. r = u
    BY <1>5, <1>6, <1>7
  <2> QED BY <1>3, <1>5, <1>7, <2>1 DEF Completes
<1>8. CASE q.cnt = 1 /\ w # q.sum
  <2>1. r = [u EXCEPT !.state = "ERROR"]
    BY <1>5, <1>6, <1>8
  <2> QED BY <1>3, <1>5, <1>8, <2>1 DEF Parsers, Completes
<1> QED BY <1>3, <1>7, <1>8

\* There is no way out of ERROR.
LEMMA ErrorByte ==
  ASSUME NEW q \in Parsers, NEW c, q.state = "ERROR"
  PROVE  Parse(q, c).state = "ERROR" /\ ~Completes(q, c)
<1>1. Parse(q, c) = Stored(q, c)
  BY ParseCases
<1> QED BY <1>1 DEF Stored, Completes, Parsers

------------------------------------------------------------------------------
(* The frame behind the length field. *)

\* What comes there, and what it adds to the checksum of the line.
LEMMA FrameTail ==
  ASSUME NEW p \in Packets, NEW sum \in Words, NEW n \in 1..FrameLength(p), n >= 10,
         NEW d, d = FrameByte(p, sum, n), NEW added, added = calc_checksum(p, sum, n)
  PROVE  /\ d \in Byte /\ added \in Words
         /\ n <= 9 + Len(p.data) => added = Word(sum + d)
         /\ n >= 10 + Len(p.data) => added = sum
         /\ n = 10 + Len(p.data) => d = sum \div 256
         /\ n = 11 + Len(p.data) => d = sum % 256
<1>1. PICK L \in Nat : Len(p.data) = L /\ L > 0
  BY PacketFacts
<1>2. d \in Byte /\ added \in Words /\ n \in Nat /\ n <= 11 + L
  BY <1>1, FrameByteType, ChecksumType DEF FrameLength
<1>3. /\ n <= 9 + L => added = Word(sum + d)
      /\ n >= 10 + L => added = sum
  BY <1>1, <1>2 DEF calc_checksum
<1>4. n >= 10 + L => d = HighLow(sum)[n - 9 - L]
  BY <1>1, <1>2 DEF FrameByte
<1>5. PICK h, l : h = sum \div 256 /\ l = sum % 256
  OBVIOUS
<1>6. HighLow(sum) = <<h, l>>
  BY <1>5, Zenon DEF HighLow
<1>7. n = 10 + L => d = h
  BY <1>1, <1>4, <1>6
<1>8. n = 11 + L => d = l
  BY <1>1, <1>4, <1>6
<1> QED BY <1>1, <1>2, <1>3, <1>5, <1>7, <1>8

\* A changed byte behind the length field: the packet will be refused, or is.
LEMMA ChangedByte ==
  ASSUME NEW p \in Packets, NEW sum \in Words, NEW n \in 1..FrameLength(p), n >= 10,
         NEW q \in Parsers, InStep(q, p, n, sum), NEW d, d = FrameByte(p, sum, n),
         NEW c \in Byte, c # d, NEW r, r = Parse(q, c),
         NEW added, added = calc_checksum(p, sum, n), NEW m, n + 1 = m
  PROVE  /\ ~Completes(q, c)
         /\ \/ r.state = "ERROR"
            \/ n # FrameLength(p) /\ OutOfStep(r, p, m, added)
<1>1. PICK L \in Nat : Len(p.data) = L /\ L > 0 /\ FrameLength(p) = 11 + L
  BY PacketFacts DEF FrameLength
<1>2. /\ d \in Byte /\ added \in Words /\ n \in Nat /\ n <= 11 + L
      /\ n <= 9 + L => added = Word(sum + d)
      /\ n >= 10 + L => added = sum
      /\ n = 10 + L => d = sum \div 256
      /\ n = 11 + L => d = sum % 256
  BY <1>1, FrameTail
<1>3. PICK h \in Byte, l \in Byte :
        sum \div 256 = h /\ sum % 256 = l /\ sum = 256 * h + l
  BY DivMod
<1>4. q.sum = sum /\ q.packetLength = L + 2
  BY <1>1, <1>2 DEF InStep
<1>5. CASE n <= 9 + L
  <2>1. q.state = "DATA" /\ q.cnt = n - 10 /\ q.checksum = 0 /\ n - 10 \in Nat
    BY <1>1, <1>2, <1>5 DEF InStep
  <2>2. /\ r.sum = Word(sum + c) /\ r.checksum = 0 /\ r.packetLength = L + 2
        /\ ~Completes(q, c)
        /\ n - 10 + 1 < L => r.state = "DATA" /\ r.cnt = n - 10 + 1
        /\ n - 10 + 1 >= L => r.state = "CHECKSUM" /\ r.cnt = 0
    BY <1>4, <2>1, DataByte
  <2>3. r.sum # added
    <3>1. Word(sum + c) # Word(sum + d)
      BY <1>2, AddedApart
    <3> QED BY <1>2, <1>5, <2>2, <3>1
  <2>4. m \in 11..(10 + L) /\ m - 10 = n - 10 + 1
    BY <1>1, <1>2, <1>5
  <2>5. OutOfStep(r, p, m, added)
    BY <1>1, <2>2, <2>3, <2>4 DEF OutOfStep
  <2> QED BY <1>1, <1>2, <1>5, <2>2, <2>5
<1>6. CASE n = 10 + L
  <2>1. q.state = "CHECKSUM" /\ q.cnt = 0 /\ q.checksum = 0
    BY <1>1, <1>2, <1>6 DEF InStep
  <2>2. /\ r.state = "CHECKSUM" /\ r.cnt = 1 /\ r.sum = sum
        /\ r.checksum = Word(0 * 256 + c) /\ r.packetLength = L + 2 /\ ~Completes(q, c)
    BY <1>4, <2>1, ChecksumByte
  <2>3. r.checksum = c
    <3>1. 0 * 256 + c = c /\ c \in Words
      BY WordType DEF Byte
    <3> QED BY <2>2, <3>1, WordType
  <2>4. Word(c * 256 + l) # sum
    <3>1. /\ c \in Nat /\ h \in Nat /\ l \in Nat /\ c # h /\ c < 256 /\ h < 256 /\ l < 256
      BY <1>2, <1>3, <1>6 DEF Byte
    <3>2. PICK x \in Nat : x = c * 256 + l
      BY <3>1
    <3>3. x < 65536 /\ x # sum
      BY <1>3, <3>1, <3>2
    <3>4. Word(x) = x
      BY <3>3, WordType DEF Words
    <3> QED BY <3>2, <3>3, <3>4
  <2>5. m = 11 + L
    BY <1>6
  <2>6. OutOfStep(r, p, m, added)
    BY <1>1, <1>2, <1>3, <1>6, <2>2, <2>3, <2>4, <2>5 DEF OutOfStep
  <2> QED BY <1>1, <1>6, <2>2, <2>6
<1>7. CASE n = 11 + L
  <2>1. q.state = "CHECKSUM" /\ q.cnt = 1 /\ q.checksum = h
    BY <1>1, <1>2, <1>3, <1>7 DEF InStep
  <2>2. Word(h * 256 + c) # sum
    <3>1. /\ c \in Nat /\ h \in Nat /\ l \in Nat /\ c # l /\ c < 256 /\ h < 256 /\ l < 256
      BY <1>2, <1>3, <1>7 DEF Byte
    <3>2. PICK x \in Nat : x = h * 256 + c
      BY <3>1
    <3>3. x < 65536 /\ x # sum
      BY <1>3, <3>1, <3>2
    <3>4. Word(x) = x
      BY <3>3, WordType DEF Words
    <3> QED BY <3>2, <3>3, <3>4
  <2>3. Word(q.checksum * 256 + c) # q.sum
    BY <1>4, <2>1, <2>2
  <2>4. r.state = "ERROR" /\ ~Completes(q, c)
    BY <2>1, <2>3, ChecksumByte
  <2> QED BY <2>4
<1> QED BY <1>1, <1>2, <1>5, <1>6, <1>7

\* The bytes that follow it do not bring the checksums together again.
LEMMA LaterByte ==
  ASSUME NEW p \in Packets, NEW sum \in Words, NEW n \in 1..FrameLength(p),
         NEW q \in Parsers, OutOfStep(q, p, n, sum), NEW d, d = FrameByte(p, sum, n),
         NEW r, r = Parse(q, d),
         NEW added, added = calc_checksum(p, sum, n), NEW m, n + 1 = m
  PROVE  /\ ~Completes(q, d)
         /\ \/ r.state = "ERROR"
            \/ n # FrameLength(p) /\ OutOfStep(r, p, m, added)
<1>1. PICK L \in Nat : Len(p.data) = L /\ L > 0 /\ FrameLength(p) = 11 + L
  BY PacketFacts DEF FrameLength
<1>0. n >= 11 /\ q.packetLength = L + 2 /\ q.sum \in Words
  BY <1>1 DEF OutOfStep, Parsers
<1>2. /\ d \in Byte /\ added \in Words /\ n \in Nat /\ n <= 11 + L
      /\ n <= 9 + L => added = Word(sum + d)
      /\ n >= 10 + L => added = sum
      /\ n = 10 + L => d = sum \div 256
      /\ n = 11 + L => d = sum % 256
  BY <1>0, <1>1, FrameTail
<1>3. PICK h \in Byte, l \in Byte :
        sum \div 256 = h /\ sum % 256 = l /\ sum = 256 * h + l
  BY DivMod
<1>5. CASE n <= 9 + L
  <2>1. /\ q.state = "DATA" /\ q.cnt = n - 10 /\ q.checksum = 0 /\ n - 10 \in Nat
        /\ q.sum # sum
    BY <1>0, <1>1, <1>2, <1>5 DEF OutOfStep
  <2>2. /\ r.sum = Word(q.sum + d) /\ r.checksum = 0 /\ r.packetLength = L + 2
        /\ ~Completes(q, d)
        /\ n - 10 + 1 < L => r.state = "DATA" /\ r.cnt = n - 10 + 1
        /\ n - 10 + 1 >= L => r.state = "CHECKSUM" /\ r.cnt = 0
    BY <1>0, <1>2, <2>1, DataByte
  <2>3. r.sum # added
    BY <1>0, <1>2, <1>5, <2>1, <2>2, AddedApart
  <2>4. m \in 11..(10 + L) /\ m - 10 = n - 10 + 1
    BY <1>0, <1>1, <1>2, <1>5
  <2>5. OutOfStep(r, p, m, added)
    BY <1>1, <2>2, <2>3, <2>4 DEF OutOfStep
  <2> QED BY <1>1, <1>2, <1>5, <2>2, <2>5
<1>6. CASE n = 10 + L
  <2>1. q.state = "CHECKSUM" /\ q.cnt = 0 /\ q.checksum = 0 /\ q.sum # sum
    BY <1>1, <1>2, <1>6 DEF OutOfStep
  <2>2. /\ r.state = "CHECKSUM" /\ r.cnt = 1 /\ r.sum = q.sum
        /\ r.checksum = Word(0 * 256 + d) /\ r.packetLength = L + 2 /\ ~Completes(q, d)
    BY <1>0, <1>2, <2>1, ChecksumByte
  <2>3. r.checksum = h
    <3>1. d = h /\ h \in Words
      BY <1>2, <1>3, <1>6, WordType
    <3>2. 0 * 256 + d = h
      BY <3>1 DEF Byte
    <3> QED BY <2>2, <3>1, <3>2, WordType
  <2>4. Word(h * 256 + l) = sum
    <3>1. h * 256 + l = sum
      BY <1>3 DEF Byte
    <3> QED BY <3>1, WordType
  <2>5. m = 11 + L
    BY <1>6
  <2>6. OutOfStep(r, p, m, added)
    BY <1>1, <1>2, <1>3, <1>6, <2>1, <2>2, <2>3, <2>4, <2>5 DEF OutOfStep
  <2> QED BY <1>1, <1>6, <2>2, <2>6
<1>7. CASE n = 11 + L
  <2>1. q.state = "CHECKSUM" /\ q.cnt = 1 /\ Word(q.checksum * 256 + d) # q.sum
    BY <1>1, <1>2, <1>7 DEF OutOfStep
  <2>2. r.state = "ERROR" /\ ~Completes(q, d)
    BY <1>2, <2>1, ChecksumByte
  <2> QED BY <2>2
<1> QED BY <1>1, <1>2, <1>5, <1>6, <1>7

------------------------------------------------------------------------------
(* The line. *)

\* Packets that have been delivered as they were sent stay so when more are sent.
LEMMA SentGrows ==
  ASSUME TypeInv, NothingInvented, NEW p \in Packets, sent' = Append(sent, p),
         delivered' = delivered
  PROVE  NothingInvented'
<1>1. sent \in Seq(Packets)
  BY TypeOKParts DEF TypeInv
<1>2. ASSUME NEW i \in DOMAIN delivered PROVE \E j \in DOMAIN sent' : delivered[i] = sent'[j]
  <2>1. PICK j \in DOMAIN sent : delivered[i] = sent[j]
    BY DEF NothingInvented
  <2>2. j \in DOMAIN sent' /\ sent'[j] = sent[j]
    BY <1>1, <2>1
  <2> QED BY <2>1, <2>2
<1> QED BY <1>2 DEF NothingInvented

\* What keeps step with the line delivers what was sent.
LEMMA LockStepDelivers == LineInv /\ Faultless => NothingInvented
<1> SUFFICES ASSUME LineInv, Faultless PROVE NothingInvented
  OBVIOUS
<1>1. delivered \in Seq(Deliveries) /\ sent \in Seq(Packets)
  BY TypeOKParts DEF LineInv, TypeInv
<1>2. CASE delivered = sent
  BY <1>2 DEF NothingInvented
<1>3. CASE sent = Append(delivered, Last(sent))
  <2>1. \A i \in DOMAIN delivered : i \in DOMAIN sent /\ delivered[i] = sent[i]
    BY <1>1, <1>3
  <2> QED BY <2>1 DEF NothingInvented
<1> QED BY <1>2, <1>3 DEF LineInv, LockStep

\* While nothing has been changed, Corrupt begins the end of the current packet.
LEMMA CorruptIsCaught ==
  ASSUME OneWrongByte, FaultInv, NothingLost, Corrupt PROVE Caught' /\ NothingInvented'
<1>1. PICK c \in NoiseBytes \ {LineByte} : Arrives(c)
  BY DEF Corrupt
<1>2. /\ line.next # 0 /\ line.next >= FirstFaulty /\ line' = Rest /\ sent' = sent
      /\ budget.corrupted > 0
  BY DEF Corrupt, FaultPossible
<1> DEFINE p == Last(sent)
           n == line.next
<1>3. /\ p \in Packets /\ line.sum \in Words /\ n \in 1..FrameLength(p)
      /\ LineByte = FrameByte(p, line.sum, n) /\ parser \in Parsers /\ c \in Byte
  BY <1>2, Current, TypeOKParts, Bounds DEF FaultInv, LineInv, TypeInv, LineByte
<1>4. n >= 10
  BY <1>2, <1>3, ConstantsAssumption DEF OneWrongByte
<1>5. budget.corrupted = MaxCorrupted /\ budget.lost = MaxLost
  <2>1. /\ budget.lost \in 0..MaxLost /\ budget.corrupted \in 0..MaxCorrupted
    BY TypeOKParts DEF FaultInv, LineInv, TypeInv
  <2> QED BY <1>2, <2>1, Bounds DEF OneWrongByte, NothingLost
<1>6. InStep(parser, p, n, line.sum)
  BY <1>2, <1>5 DEF FaultInv, LineInv, LockStep, Faultless
<1>7. /\ ~Completes(parser, c)
      /\ \/ Parse(parser, c).state = "ERROR"
         \/ /\ n # FrameLength(p)
            /\ OutOfStep(Parse(parser, c), p, n + 1, calc_checksum(p, line.sum, n))
  BY <1>1, <1>3, <1>4, <1>6, ChangedByte
<1>8. parser' = Parse(parser, c) /\ delivered' = delivered
  BY <1>1, <1>7 DEF Arrives
<1>9. n # FrameLength(p) =>
        line'.next = n + 1 /\ line'.next # 0 /\ line'.sum = calc_checksum(p, line.sum, n)
  BY <1>2, <1>3 DEF Rest
<1>10. Caught'
  BY <1>2, <1>7, <1>8, <1>9 DEF Caught
<1>11. NothingInvented'
  BY <1>2, <1>8 DEF FaultInv, NothingInvented
<1> QED BY <1>10, <1>11

\* After that, what arrives of the packet completes nothing.
LEMMA ArriveIsCaught ==
  ASSUME FaultInv, NothingLost, ~Faultless, Arrive PROVE Caught' /\ NothingInvented'
<1>1. line.next # 0 /\ Arrives(LineByte) /\ line' = Rest /\ sent' = sent
  BY DEF Arrive
<1> DEFINE p == Last(sent)
           n == line.next
<1>2. /\ p \in Packets /\ line.sum \in Words /\ n \in 1..FrameLength(p)
      /\ LineByte = FrameByte(p, line.sum, n) /\ parser \in Parsers
  BY <1>1, Current, TypeOKParts DEF FaultInv, LineInv, TypeInv, LineByte
<1>3. /\ ~Completes(parser, LineByte)
      /\ \/ Parse(parser, LineByte).state = "ERROR"
         \/ /\ n # FrameLength(p)
            /\ OutOfStep(Parse(parser, LineByte), p, n + 1, calc_checksum(p, line.sum, n))
  <2>1. CASE parser.state = "ERROR"
    BY <1>2, <2>1, ErrorByte
  <2>2. CASE OutOfStep(parser, p, n, line.sum)
    BY <1>2, <2>2, LaterByte
  <2> QED BY <2>1, <2>2 DEF FaultInv, Caught
<1>4. parser' = Parse(parser, LineByte) /\ delivered' = delivered
  BY <1>1, <1>3 DEF Arrives
<1>5. n # FrameLength(p) =>
        line'.next = n + 1 /\ line'.next # 0 /\ line'.sum = calc_checksum(p, line.sum, n)
  BY <1>1, <1>2 DEF Rest
<1>6. Caught'
  BY <1>1, <1>3, <1>4, <1>5 DEF Caught
<1>7. NothingInvented'
  BY <1>1, <1>4 DEF FaultInv, NothingInvented
<1> QED BY <1>6, <1>7

\* What has been lost stays lost.
LEMMA LostForEver ==
  ASSUME TypeInv, [Next]_vars, NothingLost' PROVE NothingLost /\ ~Lose
<1>1. budget \in [wakeUp : 0..MaxWakeUps, lost : 0..MaxLost, corrupted : 0..MaxCorrupted]
  BY TypeOKParts DEF TypeInv
<1>2. CASE Lose
  <2>1. budget.lost > 0 /\ budget'.lost = budget.lost - 1
    BY <1>1, <1>2 DEF Lose
  <2> QED BY <1>1, <2>1, Bounds DEF NothingLost
<1>3. CASE Send \/ Arrive \/ WakeUp \/ Corrupt \/ UNCHANGED vars
  <2>1. budget'.lost = budget.lost
    BY <1>1, <1>3 DEF Send, Arrive, WakeUp, Corrupt, vars
  <2> QED BY <1>2, <2>1 DEF NothingLost
<1> QED BY <1>2, <1>3 DEF Next

\* Every step keeps the invariant.
LEMMA NextFault == OneWrongByte /\ FaultInv /\ [Next]_vars => FaultInv'
<1> SUFFICES ASSUME OneWrongByte, FaultInv, [Next]_vars PROVE FaultInv'
  OBVIOUS
<1>1. LineInv'
  BY NextLine DEF FaultInv
<1>2. Faultless' => Caught' /\ NothingInvented'
  <2>1. LineInv' /\ Faultless' => NothingInvented'
    BY LockStepDelivers, PTL
  <2> QED BY <1>1, <2>1 DEF Caught
<1>3. ASSUME ~Faultless', NothingLost' PROVE Caught' /\ NothingInvented'
  <2>0. NothingLost /\ ~Lose /\ Caught /\ NothingInvented
    BY <1>3, LostForEver DEF FaultInv, LineInv
  <2>1. CASE Send
    <3>1. PICK p \in Packets : sent' = Append(sent, p)
      BY <2>1 DEF Send
    <3>2. line.next = 0 /\ parser' = parser /\ delivered' = delivered /\ budget' = budget
      BY <2>1 DEF Send
    <3>3. parser.state = "ERROR"
      BY <1>3, <2>0, <3>2 DEF Caught, Faultless
    <3>4. NothingInvented'
      BY <2>0, <3>1, <3>2, SentGrows DEF FaultInv, LineInv
    <3> QED BY <3>2, <3>3, <3>4 DEF Caught
  <2>2. CASE Arrive
    <3>1. ~Faultless
      BY <1>3, <2>2 DEF Arrive, Faultless
    <3> QED BY <2>0, <2>2, <3>1, ArriveIsCaught
  <2>3. CASE WakeUp
    <3>1. /\ line.next = 0 /\ Arrives(85) /\ line' = line /\ sent' = sent
          /\ budget' = [budget EXCEPT !.wakeUp = @ - 1]
      BY <2>3 DEF WakeUp
    <3>2. budget'.lost = budget.lost /\ budget'.corrupted = budget.corrupted
      BY <3>1, TypeOKParts DEF FaultInv, LineInv, TypeInv
    <3>3. parser.state = "ERROR" /\ parser \in Parsers
      BY <1>3, <2>0, <3>1, <3>2, TypeOKParts DEF FaultInv, LineInv, TypeInv, Caught, Faultless
    <3>4. parser'.state = "ERROR" /\ delivered' = delivered
      BY <3>1, <3>3, ErrorByte DEF Arrives
    <3> QED BY <2>0, <3>1, <3>4 DEF Caught, NothingInvented
  <2>4. CASE Corrupt
    BY <2>0, <2>4, CorruptIsCaught
  <2>5. CASE UNCHANGED vars
    BY <1>3, <2>0, <2>5 DEF vars, Caught, Faultless, NothingInvented
  <2> QED BY <2>0, <2>1, <2>2, <2>3, <2>4, <2>5 DEF Next
<1> QED BY <1>1, <1>2, <1>3 DEF FaultInv

\* As long as nothing has been lost, and when at most one byte is changed, behind the
\* length field, parseReply never hands over a packet that was not sent, whatever the
\* packets and the changed byte are: the checksum differs, and ERROR is for ever.  A
\* byte that is lost, or a changed length, moves the checksum to other bytes, and two
\* changed bytes may cancel out.
THEOREM ChangeIsNoticed ==
  ASSUME OneWrongByte PROVE Spec => []ChangeNoticed
<1>1. Init => FaultInv
  <2>1. Init => LineInv /\ Faultless
    BY InitLine DEF Init, Faultless
  <2> QED BY <2>1, LockStepDelivers DEF FaultInv, Caught
<1>2. FaultInv /\ [Next]_vars => FaultInv'
  BY NextFault
<1>3. FaultInv => ChangeNoticed
  BY DEF FaultInv, ChangeNoticed
<1> QED BY <1>1, <1>2, <1>3, PTL DEF Spec

================================================================================
