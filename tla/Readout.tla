-------------------------------- MODULE Readout --------------------------------
(***************************************************************************)
(* How the data of a reply reach the caller of SensorHiLinkZw0608: out of  *)
(* rxFrame, which the I/O thread fills, hands to the handler of the        *)
(* current state and clears again.  Three ways exist: the caller reads     *)
(* rxFrame itself after READY has woken it, while the I/O thread goes on   *)
(* to clear it; the handler copies fields for the caller before READY; or  *)
(* the handler copies one data packet after the other into the caller's    *)
(* buffer.                                                                 *)
(*                                                                         *)
(* The environment is disciplined as in SensorFsm: deadlines pass only     *)
(* while the module owes nothing, and the caller outwaits the machine.     *)
(* What the threads do to the state of the machine otherwise, SensorFsm    *)
(* says; how rxFrame is filled byte by byte, ReplyParser says.             *)
(***************************************************************************)
EXTENDS Integers, Sequences

CONSTANTS
  Kinds,       \* the API methods in use
  MaxCalls,    \* bound: calls in a behaviour
  MaxPackets,  \* bound: data packets of a transfer
  Capacity,    \* size of the caller's buffer
  PayloadSize, \* length of rxFrame behind DATA_OFFSET
  Fields,      \* how many bytes of a reply a method returns
  Word         \* size_t wraps round (2^32 in the source)

Uploads == {"upChar", "upImage"}
Readers == {"match", "readIndexTable", "readInfPage"}
Bulk == Uploads \union {"readInfPage"}   \* data packets follow the confirmation

ASSUME ConstantsAssumption ==
  /\ Kinds \subseteq Uploads \union Readers \union {"readSysPara"}
  /\ MaxCalls \in Nat /\ MaxPackets \in Nat \ {0}
  /\ Word \in Nat /\ Capacity \in 0..(Word - 1)
  /\ Fields \in Nat \ {0} /\ PayloadSize \in Nat /\ PayloadSize > Fields

VARIABLES
  caller,        \* program counter, call and kind of the calling thread
  event,         \* the call's event in the queue, "none": the queue is empty
  state,         \* "Ready", or the method whose state waits for the module
  ready,         \* the READY bit of flags
  lcc,           \* lastConfirmationCode
  bufferOffset,  \* PsUpCharState::bufferOffset, PsUpImageState::offset
  downloadSize,  \* PsUpCharState::downloadSize, PsUpImageState::imagesize
  size,          \* size of the caller's template_t or image_t
  buffer,        \* the memory its pointer refers to
  result,        \* what the method returns, or the caller's sysPara_t
  rxFrame,       \* SensorHiLinkZw0608::rxFrame behind DATA_OFFSET
  io,            \* program counter and packet of the I/O thread
  job,           \* the command the module works on, and how far it is
  sent           \* history: bytes of data sent in this call, and whether all

machine == <<state, ready, lcc, bufferOffset, downloadSize>>
memory == <<size, buffer, result>>
vars == <<caller, event, machine, memory, rxFrame, io, job, sent>>

Calls == 0..MaxCalls
Confs == {"OK", "ERROR_SENSOR"}

\* A byte, known by the call whose reply it was part of and its place there.
Cell(call, n) == [call |-> call, n |-> n]
Cells == [call : Calls, n : Nat]
Zero == Cell(0, 0)

Payload == 1..PayloadSize
Empty == [i \in Payload |-> Zero]

\* Packet identifiers 0x07, 0x02 and 0x08; conf is what the first byte means.
Packet(pid, conf, len) == [pid |-> pid, conf |-> conf, len |-> len]
Packets == [pid : {"ack", "data", "end"}, conf : Confs, len : Payload]
NoPacket == Packet("ack", "OK", 1)

Init ==
  /\ caller = [pc |-> "idle", call |-> 0, kind |-> "none", ok |-> FALSE]
  /\ event = "none" /\ state = "Ready" /\ ready = TRUE /\ lcc = "OK"
  /\ bufferOffset = 0 /\ downloadSize = 0
  /\ size = Capacity /\ buffer = [i \in 1..Capacity |-> Zero] /\ result = <<>>
  /\ rxFrame = Empty
  /\ io = [pc |-> "idle", packet |-> NoPacket]
  /\ job = [step |-> 0, call |-> 0]
  /\ sent = [count |-> 0, complete |-> FALSE]

------------------------------------------------------------------------------
(* The calling thread.                                                     *)

\* A method up to enqueueEvent.  The shell gives each transfer a descriptor of
\* its whole buffer, and clears the buffer for a template.
Call ==
  /\ caller.pc = "idle" /\ caller.call < MaxCalls
  /\ \E k \in Kinds :
       /\ caller' = [pc |-> "await", call |-> caller.call + 1, kind |-> k, ok |-> FALSE]
       /\ event' = k
       /\ size' = IF k \in Uploads THEN Capacity ELSE size
       /\ buffer' = IF k = "upChar" THEN [i \in 1..Capacity |-> Zero] ELSE buffer
  /\ lcc' = "UNKNOWN" /\ ready' = FALSE
  /\ result' = <<>>
  /\ sent' = [count |-> 0, complete |-> FALSE]
  /\ UNCHANGED <<state, bufferOffset, downloadSize, rxFrame, io, job>>

\* awaitReadyFlag returns, and lastConfirmationCode is evaluated.
Woken ==
  /\ caller.pc = "await" /\ ready
  /\ caller' = [caller EXCEPT
       !.ok = (lcc = "OK"),
       !.pc = IF lcc = "OK" /\ caller.kind \in Readers THEN "read" ELSE "idle"]
  /\ UNCHANGED <<event, machine, memory, rxFrame, io, job, sent>>

\* match, getRandomCode and others skip the confirmation; readIndexTable and
\* readInfPage read from BASE + 0.
FirstField(kind) == IF kind \in {"match", "readSysPara"} THEN 2 ELSE 1

\* Deliberately wrong, for sensitivity: one byte more than the reply has.
ReadFieldTooMany ==
  /\ caller.pc = "read"
  /\ result' = Append(result, rxFrame[FirstField(caller.kind) + Len(result)])
  /\ caller' = IF Len(result) = Fields THEN [caller EXCEPT !.pc = "idle"] ELSE caller
  /\ UNCHANGED <<event, machine, size, buffer, rxFrame, io, job, sent>>

\* One byte of rxFrame or of *rxData.data, which is the same memory.
ReadField ==
  /\ caller.pc = "read"
  /\ result' = Append(result, rxFrame[FirstField(caller.kind) + Len(result)])
  /\ caller' = IF Len(result) + 1 = Fields THEN [caller EXCEPT !.pc = "idle"]
               ELSE caller
  /\ UNCHANGED <<event, machine, size, buffer, rxFrame, io, job, sent>>

------------------------------------------------------------------------------
(* The state machine thread.                                               *)

\* Deliberately wrong, for sensitivity: the offsets of the last transfer stay.
EnterKeepingOffset ==
  /\ event # "none" /\ state = "Ready"
  /\ state' = event /\ event' = "none"
  /\ job' = [step |-> 1, call |-> caller.call]
  /\ UNCHANGED <<caller, ready, lcc, bufferOffset, downloadSize, memory, rxFrame, io, sent>>

\* The transition to the state that serves the event, and its onEnter.
Enter ==
  /\ event # "none" /\ state = "Ready"
  /\ state' = event /\ event' = "none"
  /\ IF event \in Uploads THEN bufferOffset' = 0 /\ downloadSize' = 0
                          ELSE UNCHANGED <<bufferOffset, downloadSize>>
  /\ job' = [step |-> 1, call |-> caller.call]
  /\ UNCHANGED <<caller, ready, lcc, memory, rxFrame, io, sent>>

\* TimeoutEvent: the machine returns to ReadyState, which announces READY.
TimeOut ==
  /\ state # "Ready" /\ job.step = 0 /\ io.pc = "idle"
  /\ state' = "Ready" /\ ready' = TRUE
  /\ UNCHANGED <<caller, event, lcc, bufferOffset, downloadSize, memory, rxFrame, io,
                 job, sent>>

------------------------------------------------------------------------------
(* The module (external) and the I/O thread.                               *)

\* The confirmation, with data or before the data, may be shorter than what the
\* method reads; then come data packets, the last of them marked.
Replies ==
  IF job.step = 1
  THEN {[packet |-> Packet("ack", c, len),
         step |-> IF state \in Bulk /\ c = "OK" THEN 2 ELSE 0] : c \in Confs, len \in Payload}
  ELSE {[packet |-> Packet("end", c, len), step |-> 0] : c \in Confs, len \in Payload}
         \union {[packet |-> Packet("data", c, len), step |-> job.step + 1] :
                   c \in {d \in Confs : job.step <= MaxPackets}, len \in Payload}

\* The parser has put a packet into rxFrame, which was empty before it.
Arrive ==
  /\ io.pc = "idle" /\ job.step > 0
  /\ \E r \in Replies :
       LET p == r.packet
           first == IF p.pid = "ack" THEN 0 ELSE sent.count
       IN /\ io' = [pc |-> "handle", packet |-> p]
          /\ rxFrame' = [i \in Payload |-> IF i <= p.len THEN Cell(job.call, first + i)
                                           ELSE rxFrame[i]]
          /\ sent' = [count |-> first + (IF p.pid = "ack" THEN 0 ELSE p.len),
                      complete |-> p.pid = "end"]
          /\ job' = [job EXCEPT !.step = r.step]
  /\ UNCHANGED <<caller, event, machine, memory>>

\* The module, or the line, drops the rest of its answer.
Silent ==
  /\ job.step > 0
  /\ job' = [job EXCEPT !.step = 0]
  /\ UNCHANGED <<caller, event, machine, memory, rxFrame, io, sent>>

\* What the handlers do with a packet: store its first byte as the confirmation,
\* end the wait.
Stores(p) == state \in Uploads => p.pid = "ack"

Done(p) ==
  CASE state = "upChar" -> p.pid = "end" \/ (p.pid = "ack" /\ p.conf # "OK")
    [] state \in {"upImage", "readInfPage"} -> p.pid = "end"
    [] state = "readSysPara" -> p.conf = "OK"
    [] OTHER -> TRUE

Copies(p) == state \in Uploads /\ p.pid # "ack"

\* Deliberately wrong, for sensitivity: a packet is copied as long as it is.
CopySizeUnchecked(p) == p.len

\* std::min(dataLength, tpl->size - bufferOffset), without sign.
CopySize(p) ==
  LET left == (size - bufferOffset) % Word
  IN IF p.len <= left THEN p.len ELSE left

\* memcpy to the address offset of the buffer, from the payload of rxFrame.
Memcpy(offset, count) ==
  [i \in DOMAIN buffer \union (offset + 1)..(offset + count) |->
     IF i \in (offset + 1)..(offset + count) THEN rxFrame[i - offset] ELSE buffer[i]]

\* The handlers for transfers: the data, the offsets, the size in the end.
CopyData(p) ==
  IF Copies(p)
  THEN /\ buffer' = Memcpy(bufferOffset, CopySize(p))
       /\ bufferOffset' = bufferOffset + CopySize(p)
       /\ downloadSize' = downloadSize + p.len
       /\ size' = IF p.pid = "end" THEN downloadSize + p.len ELSE size
  ELSE UNCHANGED <<buffer, bufferOffset, downloadSize, size>>

\* PsReadSysParaState fills the caller's structure.
CopyFields(p) ==
  IF state = "readSysPara" /\ p.conf = "OK"
  THEN [i \in 1..Fields |-> rxFrame[FirstField(state) + i - 1]]
  ELSE result

\* handle(DataReceivedEvent) of the state that waits.
Handle ==
  LET p == io.packet
  IN /\ io.pc = "handle"
     /\ lcc' = IF Stores(p) THEN p.conf ELSE lcc
     /\ CopyData(p)
     /\ result' = CopyFields(p)
     /\ io' = [io EXCEPT !.pc = IF Done(p) THEN "enter" ELSE "clear"]
     /\ UNCHANGED <<caller, event, state, ready, rxFrame, job, sent>>

\* ... its transition, and ReadyState::onEnter: the caller may run from here on.
EnterReady ==
  /\ io.pc = "enter"
  /\ state' = "Ready" /\ ready' = TRUE
  /\ io' = [io EXCEPT !.pc = "clear"]
  /\ UNCHANGED <<caller, event, lcc, bufferOffset, downloadSize, memory, rxFrame, job, sent>>

\* Deliberately wrong, for sensitivity: the frame of the last packet stays.
ClearNothing ==
  /\ io.pc = "clear"
  /\ io' = [pc |-> "idle", packet |-> NoPacket]
  /\ UNCHANGED <<caller, event, machine, memory, rxFrame, job, sent>>

\* memset(rxFrame, 0x00, sizeof(rxFrame)), whoever is reading it.
Clear ==
  /\ io.pc = "clear"
  /\ rxFrame' = Empty
  /\ io' = [pc |-> "idle", packet |-> NoPacket]
  /\ UNCHANGED <<caller, event, machine, memory, job, sent>>

------------------------------------------------------------------------------
Next == Call \/ Woken \/ ReadField \/ Enter \/ TimeOut
        \/ Arrive \/ Silent \/ Handle \/ EnterReady \/ Clear

Spec == Init /\ [][Next]_vars

------------------------------------------------------------------------------
(* Properties. *)

\* Every variable holds a value of its type.
TypeOK ==
  /\ caller \in [pc : {"idle", "await", "read"}, call : Calls,
                 kind : Kinds \union {"none"}, ok : BOOLEAN]
  /\ event \in Kinds \union {"none"} /\ state \in Kinds \union {"Ready"}
  /\ ready \in BOOLEAN /\ lcc \in Confs \union {"UNKNOWN"}
  /\ bufferOffset \in Nat /\ downloadSize \in Nat /\ size \in Nat
  /\ result \in Seq(Cells) /\ Len(result) <= Fields
  /\ rxFrame \in [Payload -> Cells]
  /\ io \in [pc : {"idle", "handle", "enter", "clear"}, packet : Packets]
  /\ job \in [step : Nat, call : Calls]
  /\ sent \in [count : Nat, complete : BOOLEAN]

\* A transfer never writes outside the caller's buffer, however many packets of
\* whatever length the module sends, and whatever transfer came before.
WithinBuffer == DOMAIN buffer = 1..Capacity

\* ok() after a complete transfer: the size is what the module sent, and the
\* buffer holds it from its first byte on, as far as it fits.
CompleteIsCopied ==
  caller.pc = "idle" /\ caller.ok /\ caller.kind \in Uploads /\ sent.complete =>
    /\ size = sent.count
    /\ \A i \in 1..Capacity : i <= sent.count => buffer[i] = Cell(caller.call, i)

\* A returned byte is one of this call's reply or 0: never one of another call,
\* though a reply may be shorter than what is read, and the I/O thread may clear
\* rxFrame meanwhile.
NeverForeign ==
  \A i \in DOMAIN result : result[i] = Zero \/ result[i].call = caller.call

==============================================================================
