----------------------------- MODULE LegacySensor -----------------------------
(***************************************************************************)
(* The driver Sensor: it switches the fingerprint module off after a time  *)
(* without activity and on again when a finger touches it.  Two actors     *)
(* write currentState and the enable pin: loop(), statement by statement   *)
(* where it matters, and the interrupt isrDetect(), which may come between *)
(* any two statements.  One variable, lastStateChange, serves three        *)
(* different waits, 0 standing for "not started".                          *)
(*                                                                         *)
(* The clock is the 32-bit millis(), here modulo ClockSize.                *)
(***************************************************************************)
EXTENDS Integers, Sequences, SequencesExt

CONSTANTS
  ClockSize,       \* millis() wraps round (2^32 in the source)
  SetupWait,       \* LIBSMART_STM32FINGERPRINT_SETUP_WAIT_MS
  ReadyWait,       \* LIBSMART_STM32FINGERPRINT_READY_WAIT_MS
  StandbyTimeout,  \* LIBSMART_STM32FINGERPRINT_STANDBY_TIMEOUT_MS
  Messages,        \* what the module may transmit at a time
  MaxBuffered      \* bound: bytes in the receive buffer when a transmission begins

Byte == 0..255

ASSUME ConstantsAssumption ==
  /\ {SetupWait, ReadyWait, StandbyTimeout, MaxBuffered} \subseteq Nat
  /\ ClockSize \in Nat \ {0}
  /\ {SetupWait, ReadyWait, StandbyTimeout} \subseteq 0..(ClockSize - 3)
  /\ Messages \subseteq Seq(Byte)

VARIABLES
  currentState,     \* Sensor::currentState
  lastStateChange,  \* Sensor::lastStateChange, 0: the wait has not begun
  pinEnable,        \* the module's supply is on
  rx,               \* the receive buffer of the serial line
  pc,               \* where loop() is
  millis,           \* the clock
  ticked,           \* the clock has advanced since the last turn of loop()
  line,             \* bytes under way from the module
  quiet,            \* history: time since READY began or was confirmed
  powered           \* history: time since the supply was switched on

driver == <<currentState, lastStateChange, pinEnable, rx, pc>>
clock == <<millis, ticked>>
history == <<quiet, powered>>
vars == <<driver, clock, line, history>>

States == {"UNINITIALIZED", "SETUP", "STANDBY", "STANDBY_READY_WAIT", "READY"}

\* Between the turns of loop(); before and between the statements of case
\* STATE_STANDBY; between the statements of standby(); after end().
Pcs == {"idle", "standby", "switchOff", "sleep", "ended"}

Init ==
  /\ currentState = "UNINITIALIZED" /\ lastStateChange = 0
  /\ pinEnable = FALSE /\ rx = <<>> /\ pc = "idle"
  /\ millis \in 0..(ClockSize - 1) /\ ticked = FALSE
  /\ line = <<>>
  /\ quiet = 0 /\ powered = 0

------------------------------------------------------------------------------
(* Time. *)

Elapsed(start) == (millis - start) % ClockSize

\* if (lastStateChange == 0) lastStateChange = millis();
Started(last) == IF last = 0 THEN millis ELSE last

\* More than the longest wait is not told apart.
Longer(t) == IF t > StandbyTimeout + ReadyWait THEN t ELSE t + 1

\* loop() runs at least once a millisecond, until end() is called.
Tick ==
  /\ pc = "ended" \/ (pc = "idle" /\ ~ticked)
  /\ millis' = (millis + 1) % ClockSize
  /\ ticked' = TRUE
  /\ quiet' = Longer(quiet) /\ powered' = Longer(powered)
  /\ UNCHANGED <<driver, line>>

------------------------------------------------------------------------------
(* parseReply. *)

checksum(bytes) == FoldLeft(LAMBDA sum, b : (sum + b) % 65536, 0, bytes)

check_checksum(buf) ==
  LET n == Len(buf)
  IN checksum(SubSeq(buf, 7, n - 2)) = buf[n] + 256 * buf[n - 1]

frame_length(buf) == (256 * buf[8] + buf[9] + 9) % 65536

\* A single byte that is not 0x55.
LoneByte(buf) == Len(buf) = 1 /\ buf[1] # 85

NoHeader(buf) ==
  \/ Len(buf) >= 1 /\ buf[1] # 239
  \/ Len(buf) >= 2 /\ buf[2] # 1

\* Anything longer than the packet it begins with stays for ever.
CompletePacket(buf) ==
  /\ ~NoHeader(buf) /\ Len(buf) >= 9
  /\ Len(buf) = frame_length(buf)
  /\ check_checksum(buf)

\* Deliberately wrong, for sensitivity: any packet restarts the stand-by time-out.
ParseReplyRestarting(state, last, buf) ==
  [state |-> IF LoneByte(buf) THEN "READY" ELSE state,
   last |-> IF LoneByte(buf) \/ CompletePacket(buf) THEN 0 ELSE last,
   rx |-> IF LoneByte(buf) \/ NoHeader(buf) \/ CompletePacket(buf)
          THEN <<>> ELSE buf]

\* What parseReply makes of currentState, lastStateChange and the buffer.
ParseReply(state, last, buf) ==
  [state |-> IF LoneByte(buf) THEN "READY" ELSE state,
   last |-> IF LoneByte(buf) THEN 0 ELSE last,
   rx |-> IF LoneByte(buf) \/ NoHeader(buf) \/ CompletePacket(buf)
          THEN <<>> ELSE buf]

------------------------------------------------------------------------------
(* The application: setup(), and end() or errorHandler(). *)

\* Deliberately wrong, for sensitivity: a deadline in place of the time stamp.
SetupWithDeadline ==
  /\ pc = "idle" /\ currentState = "UNINITIALIZED"
  /\ currentState' = "SETUP" /\ pinEnable' = TRUE
  /\ lastStateChange' = millis + SetupWait
  /\ powered' = 0
  /\ UNCHANGED <<rx, pc, clock, line, quiet>>

Setup ==
  /\ pc = "idle" /\ currentState = "UNINITIALIZED"
  /\ currentState' = "SETUP" /\ pinEnable' = TRUE /\ lastStateChange' = millis
  /\ powered' = 0
  /\ UNCHANGED <<rx, pc, clock, line, quiet>>

\* The pin is switched off, whatever the state, and loop() is called no more.  The
\* interrupt stays armed.
End ==
  /\ pc = "idle"
  /\ pinEnable' = FALSE /\ line' = <<>>
  /\ pc' = "ended"
  /\ UNCHANGED <<currentState, lastStateChange, rx, clock, history>>

------------------------------------------------------------------------------
(* loop(): the switch reads currentState once. *)

LoopSetup ==
  /\ pc = "idle" /\ currentState = "SETUP"
  /\ IF Elapsed(lastStateChange) <= SetupWait
     THEN UNCHANGED <<currentState, lastStateChange>>
     ELSE /\ lastStateChange' = 0
          /\ currentState' = IF pinEnable THEN "STANDBY_READY_WAIT" ELSE "STANDBY"
  /\ ticked' = FALSE
  /\ UNCHANGED <<pinEnable, rx, pc, millis, line, history>>

\* case STATE_STANDBY has been chosen ...
LoopStandby ==
  /\ pc = "idle" /\ currentState = "STANDBY"
  /\ pc' = "standby"
  /\ ticked' = FALSE
  /\ UNCHANGED <<currentState, lastStateChange, pinEnable, rx, millis, line, history>>

\* Deliberately wrong, for sensitivity: the pin first, then the state.
AssignStandbyAfterPin ==
  /\ pc = "standby"
  /\ pinEnable' = FALSE /\ line' = <<>>
  /\ pc' = "sleep"
  /\ UNCHANGED <<currentState, lastStateChange, rx, clock, history>>

\* ... currentState = STATE_STANDBY: a touch in between is lost ...
AssignStandby ==
  /\ pc = "standby"
  /\ currentState' = "STANDBY"
  /\ pc' = "switchOff"
  /\ UNCHANGED <<lastStateChange, pinEnable, rx, clock, line, history>>

\* Deliberately wrong, for sensitivity: the pin is left alone.
SwitchOffNothing ==
  /\ pc = "switchOff"
  /\ pc' = "idle"
  /\ UNCHANGED <<currentState, lastStateChange, pinEnable, rx, clock, line, history>>

\* ... and pinEnable->setOff(): without power, nothing more is transmitted.
SwitchOff ==
  /\ pc = "switchOff"
  /\ pinEnable' = FALSE /\ line' = <<>>
  /\ pc' = "idle"
  /\ UNCHANGED <<currentState, lastStateChange, rx, clock, history>>

\* Deliberately wrong, for sensitivity: case STATE_READY goes on with the time
\* stamp of the wait before it.
ReadyBegunBefore(last) == last

\* lastStateChange = 0, before the wait falls through to case STATE_READY.
ReadyBegins(last) == 0

\* Deliberately wrong, for sensitivity: the time stamp outlives the state.
ReadyKeepingStamp(last, buf, on) ==
  LET p == ParseReply("READY", last, buf)
      start == Started(p.last)
      expired == Elapsed(start) > StandbyTimeout
  IN /\ currentState' = "READY"
     /\ rx' = p.rx
     /\ lastStateChange' = start
     /\ pinEnable' = (on /\ ~expired)
     /\ line' = IF expired THEN <<>> ELSE line
     /\ pc' = IF expired THEN "sleep" ELSE "idle"

\* case STATE_READY; standby() begins with switching the pin off.
Ready(last, buf, on) ==
  LET p == ParseReply("READY", last, buf)
      start == Started(p.last)
      expired == Elapsed(start) > StandbyTimeout
  IN /\ currentState' = "READY"
     /\ rx' = p.rx
     /\ lastStateChange' = IF expired THEN 0 ELSE start
     /\ pinEnable' = (on /\ ~expired)
     /\ line' = IF expired THEN <<>> ELSE line
     /\ pc' = IF expired THEN "sleep" ELSE "idle"

LoopReady ==
  /\ pc = "idle" /\ currentState = "READY"
  /\ Ready(lastStateChange, rx, pinEnable)
  /\ quiet' = IF LoneByte(rx) THEN 0 ELSE quiet
  /\ ticked' = FALSE
  /\ UNCHANGED <<millis, powered>>

\* standby(): currentState = STATE_STANDBY.
Sleep ==
  /\ pc = "sleep"
  /\ currentState' = "STANDBY"
  /\ pc' = "idle"
  /\ UNCHANGED <<lastStateChange, pinEnable, rx, clock, line, history>>

\* case STATE_STANDBY_READY_WAIT; its parseReply may set READY by itself.
LoopReadyWait ==
  LET p == ParseReply("STANDBY_READY_WAIT", lastStateChange, rx)
      start == Started(p.last)
  IN /\ pc = "idle" /\ currentState = "STANDBY_READY_WAIT"
     /\ IF Elapsed(start) <= ReadyWait
        THEN /\ currentState' = p.state /\ lastStateChange' = start
             /\ rx' = p.rx /\ pinEnable' = TRUE
             /\ UNCHANGED <<line, pc>>
        ELSE Ready(ReadyBegins(start), p.rx, TRUE)
     /\ quiet' = 0
     /\ powered' = IF pinEnable THEN powered ELSE 0
     /\ ticked' = FALSE
     /\ UNCHANGED millis

Loop == LoopSetup \/ LoopStandby \/ AssignStandby \/ SwitchOff \/ LoopReadyWait
        \/ LoopReady \/ Sleep

------------------------------------------------------------------------------
(* The interrupt, and the module at the other end of the line (external).  *)

\* isrDetect and enable: a finger touches the sensor.
IsrDetect ==
  /\ currentState = "STANDBY"
  /\ pinEnable' = TRUE
  /\ currentState' = "STANDBY_READY_WAIT"
  /\ powered' = IF pinEnable THEN powered ELSE 0
  /\ UNCHANGED <<lastStateChange, rx, pc, clock, line, quiet>>

Transmit ==
  /\ pinEnable /\ line = <<>> /\ Len(rx) <= MaxBuffered
  /\ \E m \in Messages : line' = m
  /\ UNCHANGED <<driver, clock, history>>

Receive ==
  /\ pinEnable /\ line # <<>>
  /\ rx' = Append(rx, Head(line)) /\ line' = Tail(line)
  /\ UNCHANGED <<currentState, lastStateChange, pinEnable, pc, clock, history>>

------------------------------------------------------------------------------
Next == Setup \/ End \/ Loop \/ Tick \/ IsrDetect \/ Transmit \/ Receive

Spec == Init /\ [][Next]_vars

\* loop() is called again and again, and time passes; nothing forces touches,
\* transmissions or calls.
FairSpec == Spec /\ WF_vars(Loop) /\ WF_vars(Tick)

------------------------------------------------------------------------------
(* Properties. *)

\* Every variable holds a value of its type.
TypeOK ==
  /\ currentState \in States
  /\ lastStateChange \in 0..(ClockSize - 1)
  /\ pinEnable \in BOOLEAN
  /\ rx \in Seq(Byte)
  /\ pc \in Pcs
  /\ millis \in 0..(ClockSize - 1) /\ ticked \in BOOLEAN
  /\ line \in Seq(Byte)
  /\ quiet \in Nat /\ powered \in Nat

\* In standby the module is without power and no wait is running, wherever the
\* interrupt came between the statements that lead there: a touch that is lost
\* leaves nothing switched on, and the next wake-up starts its wait afresh.
StandbyIsOff ==
  currentState = "STANDBY" /\ pc = "idle" => ~pinEnable /\ lastStateChange = 0

\* The driver never puts the module to sleep before STANDBY_TIMEOUT has passed
\* since READY began or was last confirmed, although the same time stamp served
\* the waits before it and the clock wraps round.
SleepsOnlyWhenQuiet ==
  [][pc' = "sleep" /\ pc # "sleep" => quiet > StandbyTimeout]_vars

\* A module that has not spoken by itself is taken for ready only after it has
\* had power for longer than READY_WAIT.
ReadyOnlyAfterWait ==
  [][currentState = "STANDBY_READY_WAIT" /\ currentState' = "READY"
       => powered > ReadyWait \/ LoneByte(rx)]_vars

\* A touch that finds the driver in standby makes it ready, unless it comes after
\* loop() has chosen case STATE_STANDBY and before its first statement.
TouchWakes ==
  currentState = "STANDBY_READY_WAIT" /\ pc # "standby"
    ~> currentState = "READY" \/ pc = "ended"

\* The driver goes to sleep in the end although the module goes on transmitting for
\* ever, packets and 0x55 for instance, and although some of it is never cleared from
\* the buffer.  The exception is what restarts the stand-by time-out: single bytes
\* other than 0x55, the first byte of a packet included, that case STATE_READY finds
\* in the buffer again and again; those keep the driver awake for ever.
ReadyEnds ==
  <>[][~(LoopReady /\ LoneByte(rx))]_vars
    => (currentState = "READY" ~> (currentState = "STANDBY" \/ pc = "ended"))

==============================================================================
