----------------------------- MODULE ReadoutProofs -----------------------------
(***************************************************************************)
(* Theorems about Readout, for buffers, frames and transfers of any        *)
(* length, any set of methods and any number of calls.                     *)
(***************************************************************************)
EXTENDS Readout, TLAPS

------------------------------------------------------------------------------
(* The invariant. *)

\* Who is at work: the queue, then a waiting state, then the caller again.
Handshake ==
  /\ event # "none" =>
       /\ caller.pc = "await" /\ ~ready /\ state = "Ready" /\ event = caller.kind
       /\ job.step = 0 /\ io.pc \in {"idle", "clear"}
  /\ state # "Ready" => /\ caller.pc = "await" /\ ~ready /\ event = "none"
                        /\ state = caller.kind /\ job.call = caller.call
  /\ state = "Ready" => job.step = 0 /\ io.pc \in {"idle", "clear"}
  /\ caller.pc = "await" /\ ~ready => event # "none" \/ state # "Ready"
  /\ job.step > 1 => state \in Bulk
  /\ io.pc = "enter" \/ (io.pc = "handle" /\ Done(io.packet)) => job.step = 0

\* Whose bytes are in rxFrame.
FrameInv ==
  /\ io.pc = "idle" => rxFrame = Empty
  /\ event = "none" /\ (state = "Ready" \/ io.pc \in {"handle", "enter"}) =>
       \A i \in Payload : rxFrame[i] = Zero \/ rxFrame[i].call = caller.call

\* How far a transfer is: what the module has sent and the handler has not seen
\* is the packet in rxFrame; the buffer holds what came before it, as far as it
\* fits, and the offset stays at the end of the buffer once that is reached.
TransferInv ==
  /\ state \in Uploads =>
       /\ bufferOffset = IF downloadSize <= Capacity THEN downloadSize ELSE Capacity
       /\ \A i \in 1..bufferOffset : buffer[i] = Cell(caller.call, i)
       /\ (io.pc # "enter" \/ ~sent.complete) => size = Capacity
       /\ io.pc # "handle" => downloadSize = sent.count
       /\ sent.complete => job.step = 0 /\ io.pc \in {"handle", "enter"}
       /\ job.step = 1 => sent.count = 0 /\ ~sent.complete
       /\ io.pc = "handle" /\ io.packet.pid = "ack" =>
            sent.count = 0 /\ downloadSize = 0 /\ ~sent.complete
       /\ io.pc = "handle" /\ io.packet.pid # "ack" =>
            /\ sent.count = downloadSize + io.packet.len
            /\ sent.complete <=> io.packet.pid = "end"
            /\ \A i \in 1..io.packet.len : rxFrame[i] = Cell(caller.call, downloadSize + i)
  /\ event # "none" => sent.count = 0 /\ ~sent.complete
  /\ event \in Uploads => size = Capacity
  /\ caller.kind \in Uploads /\ sent.complete /\ io.pc # "handle" =>
       /\ size = sent.count
       /\ \A i \in 1..Capacity : i <= sent.count => buffer[i] = Cell(caller.call, i)

\* A method reads as many bytes as it returns, and begins with none.
Reading ==
  /\ caller.pc = "read" => Len(result) < Fields
  /\ caller.pc = "await" /\ caller.kind \in Readers => result = <<>>

ReadoutInv ==
  TypeOK /\ WithinBuffer /\ NeverForeign /\ Handshake /\ FrameInv /\ TransferInv /\ Reading

------------------------------------------------------------------------------
(* The constants. *)

\* The bounds are natural numbers, and the names of the methods are distinct from
\* the other values of state and event.
LEMMA Bounds ==
  /\ MaxCalls \in Nat /\ Word \in Nat /\ Capacity \in Nat /\ Capacity < Word
  /\ Fields \in Nat /\ Fields > 0 /\ PayloadSize \in Nat /\ PayloadSize > Fields
  /\ "none" \notin Kinds /\ "Ready" \notin Kinds
  /\ "none" \notin Uploads /\ "Ready" \notin Uploads
  /\ Uploads \cap Readers = {} /\ "readSysPara" \notin Uploads
BY ConstantsAssumption DEF Uploads, Readers

\* What an empty buffer and an empty frame are made of.
LEMMA ZeroType == Zero \in Cells /\ Empty \in [Payload -> Cells] /\ 0 \in Calls
BY Bounds DEF Zero, Cell, Cells, Calls, Empty

------------------------------------------------------------------------------
(* One lemma per action. *)

\* Initially nobody is at work.
LEMMA InitInv == Init => ReadoutInv
<1> SUFFICES ASSUME Init PROVE ReadoutInv
  OBVIOUS
<1> USE Bounds, ZeroType DEF Init
<1>1. TypeOK
  <2>1. NoPacket \in Packets
    BY DEF NoPacket, Packet, Packets, Payload, Confs
  <2>2. <<>> \in Seq(Cells) /\ Len(<<>>) = 0
    OBVIOUS
  <2> QED BY <2>1, <2>2 DEF TypeOK, Confs
<1>2. WithinBuffer /\ Reading
  BY DEF WithinBuffer, Reading, Readers
<1>3. NeverForeign
  BY DEF NeverForeign
<1>4. Handshake
  BY DEF Handshake
<1>5. FrameInv
  BY DEF FrameInv, Empty
<1>6. TransferInv
  BY DEF TransferInv
<1> QED BY <1>1, <1>2, <1>3, <1>4, <1>5, <1>6 DEF ReadoutInv

\* A call finds the machine at rest, and leaves it so until Enter.
LEMMA CallInv == ASSUME ReadoutInv, Call PROVE ReadoutInv'
<1> USE Bounds, ZeroType DEF ReadoutInv
<1>1. PICK k \in Kinds :
        /\ caller' = [pc |-> "await", call |-> caller.call + 1, kind |-> k, ok |-> FALSE]
        /\ event' = k
        /\ size' = IF k \in Uploads THEN Capacity ELSE size
        /\ buffer' = IF k = "upChar" THEN [i \in 1..Capacity |-> Zero] ELSE buffer
  BY DEF Call
<1>2. /\ caller.pc = "idle" /\ caller.call < MaxCalls
      /\ lcc' = "UNKNOWN" /\ ready' = FALSE /\ result' = <<>>
      /\ sent' = [count |-> 0, complete |-> FALSE]
      /\ UNCHANGED <<state, bufferOffset, downloadSize, rxFrame, io, job>>
  BY DEF Call
<1>3. state = "Ready" /\ event = "none" /\ job.step = 0 /\ io.pc \in {"idle", "clear"}
  BY <1>2 DEF Handshake
<1>4. TypeOK'
  <2>1. <<>> \in Seq(Cells) /\ Len(<<>>) = 0
    OBVIOUS
  <2>2. caller' \in [pc : {"idle", "await", "read"}, call : Calls,
                     kind : Kinds \union {"none"}, ok : BOOLEAN]
    BY <1>1, <1>2 DEF TypeOK, Calls
  <2>3. size' \in Nat /\ event' \in Kinds
    BY <1>1 DEF TypeOK
  <2>4. sent' \in [count : Nat, complete : BOOLEAN] /\ ready' \in BOOLEAN
    BY <1>2
  <2> QED BY <1>2, <2>1, <2>2, <2>3, <2>4 DEF TypeOK
<1>5. WithinBuffer'
  BY <1>1 DEF WithinBuffer
<1>6. NeverForeign' /\ Reading'
  BY <1>1, <1>2 DEF NeverForeign, Reading
<1>7. Handshake'
  BY <1>1, <1>2, <1>3 DEF Handshake
<1>8. FrameInv'
  BY <1>1, <1>2 DEF FrameInv
<1>9. TransferInv'
  BY <1>1, <1>2, <1>3 DEF TransferInv
<1> QED BY <1>4, <1>5, <1>6, <1>7, <1>8, <1>9

\* A woken caller finds the machine at rest, and the frame its own or cleared.
LEMMA WokenInv == ASSUME ReadoutInv, Woken PROVE ReadoutInv'
<1> USE Bounds DEF ReadoutInv
<1>1. /\ caller.pc = "await" /\ ready
      /\ caller' = [caller EXCEPT
           !.ok = (lcc = "OK"),
           !.pc = IF lcc = "OK" /\ caller.kind \in Readers THEN "read" ELSE "idle"]
      /\ UNCHANGED <<event, machine, memory, rxFrame, io, job, sent>>
  BY DEF Woken
<1>2. /\ caller'.call = caller.call /\ caller'.kind = caller.kind
      /\ caller'.pc \in {"read", "idle"}
      /\ caller'.pc = "read" => caller.kind \in Readers
      /\ caller' \in [pc : {"idle", "await", "read"}, call : Calls,
                      kind : Kinds \union {"none"}, ok : BOOLEAN]
  BY <1>1 DEF TypeOK
<1>3. state = "Ready" /\ event = "none"
  BY <1>1 DEF Handshake
<1>4. TypeOK' /\ WithinBuffer'
  BY <1>1, <1>2 DEF TypeOK, WithinBuffer, machine, memory
<1>5. NeverForeign' /\ Reading'
  BY <1>1, <1>2 DEF NeverForeign, Reading, memory
<1>6. Handshake'
  BY <1>1, <1>2, <1>3 DEF Handshake, machine, Done
<1>7. FrameInv'
  BY <1>1, <1>2, <1>3 DEF FrameInv, machine
<1>8. TransferInv'
  BY <1>1, <1>2, <1>3 DEF TransferInv, machine, memory
<1> QED BY <1>4, <1>5, <1>6, <1>7, <1>8

\* A read byte is one of the caller's own reply or a cleared one.
LEMMA ReadFieldInv == ASSUME ReadoutInv, ReadField PROVE ReadoutInv'
<1> USE Bounds DEF ReadoutInv
<1> DEFINE c == rxFrame[FirstField(caller.kind) + Len(result)]
<1>1. /\ caller.pc = "read" /\ result' = Append(result, c)
      /\ caller' = IF Len(result) + 1 = Fields THEN [caller EXCEPT !.pc = "idle"] ELSE caller
      /\ UNCHANGED <<event, machine, size, buffer, rxFrame, io, job, sent>>
  BY DEF ReadField
<1>2. result \in Seq(Cells) /\ Len(result) \in Nat /\ Len(result) < Fields
  BY <1>1 DEF Reading, TypeOK
<1>3. FirstField(caller.kind) + Len(result) \in Payload
  BY <1>2 DEF FirstField, Payload
<1>4. state = "Ready" /\ event = "none"
  BY <1>1 DEF Handshake
<1>5. c \in Cells /\ (c = Zero \/ c.call = caller.call)
  BY <1>3, <1>4 DEF FrameInv, TypeOK
<1> HIDE DEF c
<1>6. /\ caller'.call = caller.call /\ caller'.kind = caller.kind
      /\ caller'.pc = (IF Len(result) + 1 = Fields THEN "idle" ELSE "read")
      /\ caller' \in [pc : {"idle", "await", "read"}, call : Calls,
                      kind : Kinds \union {"none"}, ok : BOOLEAN]
  BY <1>1 DEF TypeOK
<1>7. result' \in Seq(Cells) /\ Len(result') = Len(result) + 1
      /\ \A i \in DOMAIN result' : result'[i] = c \/ (i \in DOMAIN result /\ result'[i] = result[i])
  BY <1>1, <1>2, <1>5
<1>8. TypeOK' /\ WithinBuffer'
  BY <1>1, <1>2, <1>6, <1>7 DEF TypeOK, WithinBuffer, machine
<1>9. NeverForeign'
  BY <1>5, <1>6, <1>7 DEF NeverForeign
<1>10. Reading'
  BY <1>2, <1>6, <1>7 DEF Reading
<1>11. Handshake'
  BY <1>1, <1>4, <1>6 DEF Handshake, machine, Done
<1>12. FrameInv' /\ TransferInv'
  BY <1>1, <1>4, <1>6 DEF FrameInv, TransferInv, machine
<1> QED BY <1>8, <1>9, <1>10, <1>11, <1>12

\* onEnter begins a transfer with nothing sent and nothing copied.
LEMMA EnterInv == ASSUME ReadoutInv, Enter PROVE ReadoutInv'
<1> USE Bounds DEF ReadoutInv
<1>1. /\ event # "none" /\ state = "Ready"
      /\ state' = event /\ event' = "none"
      /\ event \in Uploads => bufferOffset' = 0 /\ downloadSize' = 0
      /\ event \notin Uploads => UNCHANGED <<bufferOffset, downloadSize>>
      /\ job' = [step |-> 1, call |-> caller.call]
      /\ UNCHANGED <<caller, ready, lcc, memory, rxFrame, io, sent>>
  BY DEF Enter
<1>2. /\ caller.pc = "await" /\ ~ready /\ event = caller.kind
      /\ io.pc \in {"idle", "clear"} /\ event \in Kinds
  BY <1>1 DEF Handshake, TypeOK
<1>3. bufferOffset' \in Nat /\ downloadSize' \in Nat
  BY <1>1 DEF TypeOK
<1>4. TypeOK'
  <2>1. job' \in [step : Nat, call : Calls]
    BY <1>1 DEF TypeOK
  <2> QED BY <1>1, <1>2, <1>3, <2>1 DEF TypeOK, memory
<1>5. WithinBuffer' /\ NeverForeign' /\ Reading'
  BY <1>1, <1>2 DEF WithinBuffer, NeverForeign, Reading, memory
<1>6. Handshake'
  BY <1>1, <1>2 DEF Handshake
<1>7. FrameInv'
  BY <1>1, <1>2 DEF FrameInv
<1>8. TransferInv'
  BY <1>1, <1>2 DEF TransferInv, memory
<1> QED BY <1>4, <1>5, <1>6, <1>7, <1>8

\* A time-out comes only when nothing of the reply is left anywhere.
LEMMA TimeOutInv == ASSUME ReadoutInv, TimeOut PROVE ReadoutInv'
<1> USE Bounds DEF ReadoutInv
<1>1. /\ state # "Ready" /\ job.step = 0 /\ io.pc = "idle"
      /\ state' = "Ready" /\ ready' = TRUE
      /\ UNCHANGED <<caller, event, lcc, bufferOffset, downloadSize, memory, rxFrame,
                     io, job, sent>>
  BY DEF TimeOut
<1>2. caller.pc = "await" /\ event = "none"
  BY <1>1 DEF Handshake
<1>3. TypeOK' /\ WithinBuffer' /\ NeverForeign' /\ Reading'
  BY <1>1 DEF TypeOK, WithinBuffer, NeverForeign, Reading, memory
<1>4. Handshake'
  BY <1>1, <1>2 DEF Handshake
<1>5. FrameInv'
  BY <1>1 DEF FrameInv, Empty
<1>6. TransferInv'
  BY <1>1, <1>2 DEF TransferInv, memory
<1> QED BY <1>3, <1>4, <1>5, <1>6

\* A packet arrives in an empty frame, after everything sent before was handled.
LEMMA ArriveInv == ASSUME ReadoutInv, Arrive PROVE ReadoutInv'
<1> USE Bounds DEF ReadoutInv
<1>1. io.pc = "idle" /\ job.step > 0 /\ UNCHANGED <<caller, event, machine, memory>>
  BY DEF Arrive
<1> DEFINE First(p) == IF p.pid = "ack" THEN 0 ELSE sent.count
<1>2. PICK r \in Replies :
        /\ io' = [pc |-> "handle", packet |-> r.packet]
        /\ rxFrame' = [i \in Payload |->
             IF i <= r.packet.len THEN Cell(job.call, First(r.packet) + i) ELSE rxFrame[i]]
        /\ sent' = [count |-> First(r.packet)
                              + (IF r.packet.pid = "ack" THEN 0 ELSE r.packet.len),
                    complete |-> r.packet.pid = "end"]
        /\ job' = [job EXCEPT !.step = r.step]
  BY DEF Arrive
<1> DEFINE p == r.packet
<1>3. /\ state # "Ready" /\ event = "none" /\ caller.pc = "await" /\ ~ready
      /\ job.call = caller.call /\ state = caller.kind /\ rxFrame = Empty
  BY <1>1 DEF Handshake, FrameInv
<1>4. /\ p \in Packets /\ r.step \in Nat /\ r.step # 1
      /\ p.pid = "ack" => job.step = 1 /\ (r.step # 0 => state \in Bulk /\ p.conf = "OK")
      /\ p.pid # "ack" => job.step # 1 /\ state \in Bulk
      /\ p.pid = "end" => r.step = 0
  <2>1. job.step \in Nat
    BY DEF TypeOK
  <2>2. CASE job.step = 1
    BY <2>2 DEF Replies, Packet, Packets, Confs
  <2>3. CASE job.step # 1
    <3>1. state \in Bulk
      BY <1>1, <2>1, <2>3 DEF Handshake
    <3> QED BY <1>1, <2>1, <2>3, <3>1 DEF Replies, Packet, Packets, Confs
  <2> QED BY <2>2, <2>3
<1> HIDE DEF p
<1>5. /\ p.pid \in {"ack", "data", "end"} /\ p.len \in Payload /\ p.len \in Nat
      /\ sent.count \in Nat /\ First(p) \in Nat
  BY <1>4 DEF Packets, Payload, TypeOK
<1>6. /\ io'.pc = "handle" /\ io'.packet = p
      /\ sent'.count = First(p) + (IF p.pid = "ack" THEN 0 ELSE p.len)
      /\ sent'.complete = (p.pid = "end")
      /\ job'.step = r.step /\ job'.call = job.call
      /\ \A i \in Payload : rxFrame'[i] = IF i <= p.len THEN Cell(job.call, First(p) + i)
                                          ELSE rxFrame[i]
  BY <1>2 DEF p, TypeOK
<1>7. TypeOK'
  <2>1. rxFrame' \in [Payload -> Cells]
    BY <1>2, <1>5 DEF TypeOK, Cell, Cells, Payload, p
  <2>2. io' \in [pc : {"idle", "handle", "enter", "clear"}, packet : Packets]
    BY <1>2, <1>4 DEF p
  <2>3. sent' \in [count : Nat, complete : BOOLEAN]
    BY <1>2, <1>5 DEF p
  <2>4. job' \in [step : Nat, call : Calls]
    BY <1>2, <1>4 DEF TypeOK
  <2> QED BY <1>1, <2>1, <2>2, <2>3, <2>4 DEF TypeOK, machine, memory
<1>8. WithinBuffer' /\ NeverForeign' /\ Reading'
  BY <1>1 DEF WithinBuffer, NeverForeign, Reading, memory
<1>9. Handshake'
  <2>1. Done(p) => r.step = 0
    BY <1>3, <1>4, <1>5 DEF Done, Bulk, Uploads
  <2>2. Done(io.packet)' <=> Done(p)
    BY <1>1, <1>2 DEF Done, machine, p
  <2>3. r.step > 1 => state \in Bulk
    BY <1>4, <1>5
  <2> HIDE DEF First
  <2>4. /\ state' = state /\ event' = "none" /\ caller' = caller /\ ~ready'
        /\ job'.call = caller.call /\ job'.step = r.step /\ io'.pc = "handle"
    BY <1>1, <1>3, <1>6 DEF machine
  <2> QED BY <1>3, <2>1, <2>2, <2>3, <2>4 DEF Handshake
<1>10. FrameInv'
  <2>1. ASSUME NEW i \in Payload
        PROVE  rxFrame'[i] = Zero \/ rxFrame'[i].call = caller.call
    <3>1. CASE i <= p.len
      <4>1. rxFrame'[i] = Cell(job.call, First(p) + i)
        BY <1>6, <3>1
      <4> QED BY <1>3, <4>1 DEF Cell
    <3>2. CASE ~(i <= p.len)
      <4>1. rxFrame'[i] = rxFrame[i]
        BY <1>6, <3>2
      <4>2. rxFrame[i] = Zero
        BY <1>3 DEF Empty
      <4> QED BY <4>1, <4>2
    <3> QED BY <3>1, <3>2
  <2> QED BY <1>1, <1>6, <2>1 DEF FrameInv
<1>11. TransferInv'
  <2>1. CASE state \in Uploads
    <3>1. /\ bufferOffset = IF downloadSize <= Capacity THEN downloadSize ELSE Capacity
          /\ \A i \in 1..bufferOffset : buffer[i] = Cell(caller.call, i)
          /\ size = Capacity /\ downloadSize = sent.count /\ ~sent.complete
          /\ job.step = 1 => sent.count = 0
      BY <1>1, <2>1 DEF TransferInv
    <3>2. p.pid = "ack" => sent'.count = 0 /\ downloadSize = 0
      BY <1>4, <1>6, <3>1
    <3>3. p.pid # "ack" =>
            /\ sent'.count = downloadSize + p.len
            /\ \A i \in 1..p.len : rxFrame'[i] = Cell(caller.call, downloadSize + i)
      BY <1>3, <1>5, <1>6, <3>1 DEF Payload
    <3> QED BY <1>1, <1>3, <1>4, <1>6, <2>1, <3>1, <3>2, <3>3 DEF TransferInv, machine, memory
  <2>2. CASE state \notin Uploads
    BY <1>1, <1>3, <1>6, <2>2 DEF TransferInv, machine, memory
  <2> QED BY <2>1, <2>2
<1> QED BY <1>7, <1>8, <1>9, <1>10, <1>11

\* Nothing that is dropped was expected by the invariant.
LEMMA SilentInv == ASSUME ReadoutInv, Silent PROVE ReadoutInv'
<1> USE Bounds DEF ReadoutInv
<1>1. /\ job' = [job EXCEPT !.step = 0]
      /\ UNCHANGED <<caller, event, machine, memory, rxFrame, io, sent>>
  BY DEF Silent
<1>2. job' \in [step : Nat, call : Calls] /\ job'.step = 0 /\ job'.call = job.call
  BY <1>1 DEF TypeOK
<1>3. TypeOK' /\ WithinBuffer' /\ NeverForeign' /\ Reading'
  BY <1>1, <1>2 DEF TypeOK, WithinBuffer, NeverForeign, Reading, machine, memory
<1>4. Handshake' /\ FrameInv' /\ TransferInv'
  BY <1>1, <1>2 DEF Handshake, FrameInv, TransferInv, machine, memory
<1> QED BY <1>3, <1>4

\* What is copied fits into the buffer, and is all of the packet unless the buffer
\* ends within it.
LEMMA CopySizeIs ==
  ASSUME ReadoutInv, io.pc = "handle", state \in Uploads
  PROVE  /\ CopySize(io.packet) \in Nat /\ bufferOffset \in Nat
         /\ bufferOffset + CopySize(io.packet) <= Capacity
         /\ CopySize(io.packet) <= io.packet.len /\ io.packet.len \in Payload
         /\ bufferOffset + CopySize(io.packet) =
              IF downloadSize + io.packet.len <= Capacity
              THEN downloadSize + io.packet.len ELSE Capacity
         /\ CopySize(io.packet) > 0 => bufferOffset = downloadSize
<1>1. /\ bufferOffset = IF downloadSize <= Capacity THEN downloadSize ELSE Capacity
      /\ size = Capacity
  BY DEF ReadoutInv, TransferInv
<1>2. io.packet.len \in Payload /\ downloadSize \in Nat
  BY DEF ReadoutInv, TypeOK, Packets
<1>3. (size - bufferOffset) % Word = Capacity - bufferOffset
  BY <1>1, <1>2, Bounds
<1> QED BY <1>1, <1>2, <1>3, Bounds DEF CopySize, Payload

\* A handler copies inside the buffer, in order, and hands over its own bytes.
LEMMA HandleInv == ASSUME ReadoutInv, Handle PROVE ReadoutInv'
<1> USE Bounds DEF ReadoutInv
<1> DEFINE p == io.packet
<1>1. /\ io.pc = "handle" /\ CopyData(p) /\ result' = CopyFields(p)
      /\ lcc' = IF Stores(p) THEN p.conf ELSE lcc
      /\ io' = [io EXCEPT !.pc = IF Done(p) THEN "enter" ELSE "clear"]
      /\ UNCHANGED <<caller, event, state, ready, rxFrame, job, sent>>
  BY DEF Handle
<1>2. /\ state # "Ready" /\ event = "none" /\ caller.pc = "await" /\ state = caller.kind
      /\ Done(p) => job.step = 0
  BY <1>1 DEF Handshake
<1>3. p \in Packets /\ p.len \in Payload /\ p.len \in Nat /\ p.conf \in Confs
  BY DEF TypeOK, Packets, Payload
<1>4. /\ io'.pc = (IF Done(p) THEN "enter" ELSE "clear") /\ io'.packet = p
      /\ io' \in [pc : {"idle", "handle", "enter", "clear"}, packet : Packets]
  BY <1>1 DEF TypeOK
<1>5. \A i \in Payload : rxFrame[i] = Zero \/ rxFrame[i].call = caller.call
  BY <1>1, <1>2 DEF FrameInv
<1>6. /\ result' \in Seq(Cells) /\ Len(result') <= Fields /\ NeverForeign' /\ Reading'
  <2>1. CASE state = "readSysPara" /\ p.conf = "OK"
    <3>1. result' = [i \in 1..Fields |-> rxFrame[2 + i - 1]]
      BY <1>1, <2>1 DEF CopyFields, FirstField
    <3>2. \A i \in 1..Fields : 2 + i - 1 \in Payload
      BY DEF Payload
    <3>3. \A i \in 1..Fields : rxFrame[2 + i - 1] \in Cells
      BY <3>2 DEF TypeOK
    <3>4. result' \in Seq(Cells) /\ Len(result') = Fields /\ DOMAIN result' = 1..Fields
      BY <3>1, <3>3
    <3>5. NeverForeign'
      BY <1>1, <1>5, <3>1, <3>2, <3>4 DEF NeverForeign
    <3> QED BY <1>1, <1>2, <2>1, <3>4, <3>5 DEF Reading, Readers
  <2>2. CASE ~(state = "readSysPara" /\ p.conf = "OK")
    <3>1. result' = result
      BY <1>1, <2>2 DEF CopyFields
    <3> QED BY <1>1, <3>1 DEF NeverForeign, Reading, TypeOK
  <2> QED BY <2>1, <2>2
<1>7. CASE Copies(p)
  <2>1. /\ buffer' = Memcpy(bufferOffset, CopySize(p))
        /\ bufferOffset' = bufferOffset + CopySize(p)
        /\ downloadSize' = downloadSize + p.len
        /\ size' = IF p.pid = "end" THEN downloadSize + p.len ELSE size
    BY <1>1, <1>7 DEF CopyData
  <2>2. state \in Uploads /\ p.pid # "ack"
    BY <1>7 DEF Copies
  <2> DEFINE n == CopySize(p)
  <2>3. /\ n \in Nat /\ bufferOffset \in Nat /\ bufferOffset + n <= Capacity /\ n <= p.len
        /\ bufferOffset' = (IF downloadSize' <= Capacity THEN downloadSize' ELSE Capacity)
        /\ n > 0 => bufferOffset = downloadSize
    BY <1>1, <2>1, <2>2, CopySizeIs
  <2>4. /\ \A i \in 1..bufferOffset : buffer[i] = Cell(caller.call, i)
        /\ size = Capacity /\ sent.count = downloadSize + p.len
        /\ sent.complete <=> p.pid = "end"
        /\ \A i \in 1..p.len : rxFrame[i] = Cell(caller.call, downloadSize + i)
        /\ sent.complete => job.step = 0
        /\ job.step = 1 => sent.count = 0 /\ ~sent.complete
    BY <1>1, <2>2 DEF TransferInv
  <2>5. downloadSize \in Nat /\ size \in Nat /\ DOMAIN buffer = 1..Capacity
    BY DEF TypeOK, WithinBuffer
  <2> HIDE DEF n, p
  <2>6. buffer' = [i \in 1..Capacity |->
          IF i \in (bufferOffset + 1)..(bufferOffset + n) THEN rxFrame[i - bufferOffset]
          ELSE buffer[i]]
    <3>1. DOMAIN buffer \union (bufferOffset + 1)..(bufferOffset + n) = 1..Capacity
      BY <2>3, <2>5
    <3> QED BY <2>1, <3>1 DEF Memcpy, n
  <2>7. \A i \in 1..bufferOffset' : buffer'[i] = Cell(caller.call, i)
    <3>1. SUFFICES ASSUME NEW i \in 1..(bufferOffset + n)
                   PROVE  buffer'[i] = Cell(caller.call, i)
      BY <2>1 DEF n
    <3>2. i \in 1..Capacity
      BY <2>3
    <3>3. CASE i <= bufferOffset
      BY <2>3, <2>4, <2>6, <3>2, <3>3
    <3>4. CASE i > bufferOffset
      <4>1. n > 0 /\ bufferOffset = downloadSize
        BY <2>3, <3>4
      <4>2. i - bufferOffset \in 1..p.len
        BY <1>3, <2>3, <3>4 DEF p
      <4>3. rxFrame[i - bufferOffset] = Cell(caller.call, downloadSize + (i - bufferOffset))
        BY <2>4, <4>2
      <4>4. downloadSize + (i - bufferOffset) = i
        BY <2>5, <4>1
      <4> QED BY <2>3, <2>6, <3>2, <3>4, <4>3, <4>4
    <3> QED BY <2>3, <3>3, <3>4
  <2>8. TypeOK'
    <3>1. downloadSize' \in Nat /\ bufferOffset' \in Nat /\ size' \in Nat
      BY <1>3, <2>1, <2>3, <2>5 DEF n, p
    <3>2. lcc' \in Confs \union {"UNKNOWN"}
      BY <1>1, <1>3 DEF TypeOK
    <3> QED BY <1>1, <1>4, <1>6, <3>1, <3>2 DEF TypeOK
  <2>9. WithinBuffer'
    BY <2>6 DEF WithinBuffer
  <2>10. Handshake' /\ FrameInv'
    <3>1. io.packet = io'.packet /\ state' = state
      BY <1>1, <1>4 DEF p
    <3> QED BY <1>1, <1>2, <1>4, <1>5 DEF Handshake, FrameInv
  <2>11. TransferInv'
    <3>1. p.pid = "end" => Done(p)
      BY <2>2 DEF Done, Uploads, Readers
    <3>2. downloadSize' = sent.count
      BY <2>1, <2>4
    <3>3. sent.complete => size' = sent.count
      BY <2>1, <2>4
    <3>4. ~sent.complete => size' = Capacity
      BY <2>1, <2>4
    <3>5. \A i \in 1..Capacity : i <= sent.count => buffer'[i] = Cell(caller.call, i)
      BY <2>3, <2>5, <2>7, <3>2
    <3> QED
      BY <1>1, <1>2, <1>4, <2>2, <2>3, <2>4, <2>7, <3>1, <3>2, <3>3, <3>4, <3>5
      DEF TransferInv
  <2> QED BY <1>6, <2>8, <2>9, <2>10, <2>11
<1>8. CASE ~Copies(p)
  <2>1. UNCHANGED <<buffer, bufferOffset, downloadSize, size>>
    BY <1>1, <1>8 DEF CopyData
  <2>2. TypeOK' /\ WithinBuffer'
    BY <1>1, <1>3, <1>4, <1>6, <2>1 DEF TypeOK, WithinBuffer
  <2>3. Handshake' /\ FrameInv'
    BY <1>1, <1>2, <1>4, <1>5 DEF Handshake, FrameInv
  <2>4. TransferInv'
    <3>1. CASE state \in Uploads
      <4>1. p.pid = "ack"
        BY <1>8, <3>1 DEF Copies
      <4>2. sent.count = 0 /\ downloadSize = 0 /\ ~sent.complete
        BY <1>1, <3>1, <4>1 DEF TransferInv
      <4> QED BY <1>1, <1>2, <1>4, <2>1, <3>1, <4>2 DEF TransferInv
    <3>2. CASE state \notin Uploads
      BY <1>1, <1>2, <3>2, <2>1 DEF TransferInv
    <3> QED BY <3>1, <3>2
  <2> QED BY <1>6, <2>2, <2>3, <2>4
<1> QED BY <1>7, <1>8

\* READY is announced when the answer is complete.
LEMMA EnterReadyInv == ASSUME ReadoutInv, EnterReady PROVE ReadoutInv'
<1> USE Bounds DEF ReadoutInv
<1>1. /\ io.pc = "enter" /\ state' = "Ready" /\ ready' = TRUE
      /\ io' = [io EXCEPT !.pc = "clear"]
      /\ UNCHANGED <<caller, event, lcc, bufferOffset, downloadSize, memory, rxFrame,
                     job, sent>>
  BY DEF EnterReady
<1>2. state # "Ready" /\ event = "none" /\ caller.pc = "await" /\ job.step = 0
      /\ state = caller.kind
  BY <1>1 DEF Handshake
<1>3. io'.pc = "clear" /\ io'.packet = io.packet
      /\ io' \in [pc : {"idle", "handle", "enter", "clear"}, packet : Packets]
  BY <1>1 DEF TypeOK
<1>4. TypeOK' /\ WithinBuffer' /\ NeverForeign' /\ Reading'
  BY <1>1, <1>3 DEF TypeOK, WithinBuffer, NeverForeign, Reading, memory
<1>5. Handshake'
  BY <1>1, <1>2, <1>3 DEF Handshake
<1>6. FrameInv' /\ TransferInv'
  BY <1>1, <1>2, <1>3 DEF FrameInv, TransferInv, memory
<1> QED BY <1>4, <1>5, <1>6

\* Clearing the frame leaves zeros to a caller that still reads.
LEMMA ClearInv == ASSUME ReadoutInv, Clear PROVE ReadoutInv'
<1> USE Bounds, ZeroType DEF ReadoutInv
<1>1. /\ io.pc = "clear" /\ rxFrame' = Empty
      /\ io' = [pc |-> "idle", packet |-> NoPacket]
      /\ UNCHANGED <<caller, event, machine, memory, job, sent>>
  BY DEF Clear
<1>2. NoPacket \in Packets
  BY DEF NoPacket, Packet, Packets, Payload, Confs
<1>3. TypeOK'
  BY <1>1, <1>2 DEF TypeOK, machine, memory
<1>4. WithinBuffer' /\ NeverForeign' /\ Reading'
  BY <1>1 DEF WithinBuffer, NeverForeign, Reading, memory
<1>5. Handshake'
  BY <1>1 DEF Handshake, machine
<1>6. FrameInv'
  BY <1>1 DEF FrameInv, Empty
<1>7. TransferInv'
  BY <1>1 DEF TransferInv, machine, memory
<1> QED BY <1>3, <1>4, <1>5, <1>6, <1>7

\* Every step preserves the invariant.
LEMMA NextInv == ReadoutInv /\ [Next]_vars => ReadoutInv'
<1> SUFFICES ASSUME ReadoutInv, [Next]_vars PROVE ReadoutInv'
  OBVIOUS
<1>1. CASE Next
  BY <1>1, CallInv, WokenInv, ReadFieldInv, EnterInv, TimeOutInv, ArriveInv, SilentInv,
     HandleInv, EnterReadyInv, ClearInv DEF Next
<1>2. CASE UNCHANGED vars
  BY <1>2 DEF vars, machine, memory, ReadoutInv, TypeOK, WithinBuffer, NeverForeign,
     Handshake, FrameInv, TransferInv, Reading, Done
<1> QED BY <1>1, <1>2

------------------------------------------------------------------------------
(* The theorems. *)

\* ReadoutInv is an invariant.
LEMMA Invariant == Spec => []ReadoutInv
BY InitInv, NextInv, PTL DEF Spec

\* Every variable keeps its type.
THEOREM TypeCorrect == Spec => []TypeOK
<1>1. ReadoutInv => TypeOK
  BY DEF ReadoutInv
<1> QED BY <1>1, Invariant, PTL

\* Transfers of any length into a buffer of any size stay inside it.
THEOREM CopiesWithin == Spec => []WithinBuffer
<1>1. ReadoutInv => WithinBuffer
  BY DEF ReadoutInv
<1> QED BY <1>1, Invariant, PTL

\* A complete transfer that returns ok() has been copied from its first byte on, as
\* far as the buffer reaches.
THEOREM CompleteCopied == Spec => []CompleteIsCopied
<1>1. ReadoutInv => CompleteIsCopied
  <2> SUFFICES ASSUME ReadoutInv, caller.pc = "idle", caller.kind \in Uploads, sent.complete
               PROVE  /\ size = sent.count
                      /\ \A i \in 1..Capacity :
                           i <= sent.count => buffer[i] = Cell(caller.call, i)
    BY DEF CompleteIsCopied
  <2>1. io.pc # "handle"
    BY DEF ReadoutInv, Handshake
  <2> QED BY <2>1 DEF ReadoutInv, TransferInv
<1> QED BY <1>1, Invariant, PTL

\* No method returns a byte of another call's reply.
THEOREM OwnBytes == Spec => []NeverForeign
<1>1. ReadoutInv => NeverForeign
  BY DEF ReadoutInv
<1> QED BY <1>1, Invariant, PTL

==============================================================================
