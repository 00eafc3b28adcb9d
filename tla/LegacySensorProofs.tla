--------------------------- MODULE LegacySensorProofs ---------------------------
(***************************************************************************)
(* Theorems about LegacySensor, for waits of any length, a clock of any    *)
(* width that exceeds them, any transmissions of the module, and an        *)
(* interrupt between any two statements.                                   *)
(***************************************************************************)
EXTENDS LegacySensor, TLAPS

------------------------------------------------------------------------------
(* The clock. *)

Times == 0..(ClockSize - 1)

\* The bounds are natural numbers, and the waits fit into the clock.
LEMMA Bounds ==
  /\ ClockSize \in Nat \ {0} /\ 0 \in Times
  /\ SetupWait \in Nat /\ ReadyWait \in Nat /\ StandbyTimeout \in Nat
BY ConstantsAssumption DEF Times

\* Unsigned subtraction: what has elapsed is the distance on the circle.
LEMMA ElapsedIs ==
  ASSUME millis \in Times, NEW start \in Times
  PROVE  /\ Elapsed(start) = IF millis >= start THEN millis - start
                             ELSE millis - start + ClockSize
         /\ Elapsed(start) \in Nat
         /\ Elapsed(millis) = 0
BY Bounds DEF Elapsed, Times

\* A tick lengthens what has elapsed by one millisecond, or wraps it to zero.
LEMMA ElapsedTick ==
  ASSUME millis \in Times, millis' = (millis + 1) % ClockSize, NEW start \in Times
  PROVE  /\ millis' \in Times
         /\ Elapsed(start)' <= Elapsed(start) + 1
<1>1. millis' = IF millis = ClockSize - 1 THEN 0 ELSE millis + 1
  BY Bounds DEF Times
<1>2. millis' \in Times
  BY <1>1, Bounds DEF Times
<1>3. Elapsed(start)' = IF millis' >= start THEN millis' - start
                        ELSE millis' - start + ClockSize
  BY <1>2, Bounds DEF Elapsed, Times
<1> QED BY <1>1, <1>2, <1>3, ElapsedIs, Bounds DEF Times

\* A begun wait has a time stamp, and one that has not begun begins now.
LEMMA StartedType ==
  ASSUME millis \in Times, NEW last \in Times
  PROVE  Started(last) \in Times
BY DEF Started

\* The parser leaves the state or sets READY, and keeps or empties the buffer.
LEMMA ParseReplyType ==
  ASSUME NEW state \in States, NEW last \in Times, NEW buf \in Seq(Byte)
  PROVE  LET p == ParseReply(state, last, buf)
         IN /\ p.state \in {state, "READY"}
            /\ p.last \in {last, 0} /\ p.last \in Times
            /\ p.rx \in Seq(Byte)
            /\ LoneByte(buf) => p.last = 0 /\ p.state = "READY"
            /\ ~LoneByte(buf) => p.last = last /\ p.state = state
<1>1. <<>> \in Seq(Byte)
  OBVIOUS
<1> QED BY <1>1, Bounds DEF ParseReply

------------------------------------------------------------------------------
(* The invariant. *)

\* While loop() is between statements, no wait is running; standby() has switched
\* the pin off before it sets STANDBY, and the interrupt cannot interfere then.
Statements ==
  /\ currentState = "STANDBY" => lastStateChange = 0
  /\ pc \in {"standby", "switchOff"} =>
       currentState \in {"STANDBY", "STANDBY_READY_WAIT"} /\ lastStateChange = 0
  /\ pc = "sleep" =>
       currentState = "READY" /\ ~pinEnable /\ lastStateChange = 0

\* The time stamp of READY is not older than READY's latest confirmation.
ReadyTimed ==
  currentState = "READY" /\ pc = "idle" /\ lastStateChange # 0 =>
    quiet > StandbyTimeout \/ Elapsed(lastStateChange) <= quiet

\* The time stamp of the wait is not older than the module's supply.
WaitTimed ==
  currentState = "STANDBY_READY_WAIT" /\ pc = "idle" /\ lastStateChange # 0 =>
    pinEnable /\ (powered > ReadyWait \/ Elapsed(lastStateChange) <= powered)

DriverInv == TypeOK /\ StandbyIsOff /\ Statements /\ ReadyTimed /\ WaitTimed

\* The invariant holds at power-up.
LEMMA InitInv == Init => DriverInv
<1>1. ASSUME Init PROVE TypeOK
  <2>1. <<>> \in Seq(Byte)
    OBVIOUS
  <2> QED BY <1>1, <2>1, Bounds DEF Init, TypeOK, States, Pcs, Times
<1>2. ASSUME Init PROVE StandbyIsOff /\ Statements /\ ReadyTimed /\ WaitTimed
  BY <1>2 DEF Init, StandbyIsOff, Statements, ReadyTimed, WaitTimed
<1> QED BY <1>1, <1>2 DEF DriverInv

\* The application's calls preserve the invariant.
LEMMA CallInv ==
  ASSUME DriverInv, Setup \/ End
  PROVE  DriverInv'
<1> USE DEF DriverInv, clock, history
<1>1. CASE Setup
  <2>1. TypeOK'
    BY <1>1, Bounds DEF Setup, TypeOK, States, Times
  <2> QED
    BY <1>1, <2>1 DEF Setup, StandbyIsOff, Statements, ReadyTimed, WaitTimed
<1>2. CASE End
  <2>1. <<>> \in Seq(Byte)
    OBVIOUS
  <2>2. TypeOK'
    BY <1>2, <2>1 DEF End, TypeOK, Pcs
  <2> QED
    BY <1>2, <2>2 DEF End, StandbyIsOff, Statements, ReadyTimed, WaitTimed
<1> QED BY <1>1, <1>2

\* The statements of loop() that read no reply preserve the invariant.
LEMMA StatementInv ==
  ASSUME DriverInv, LoopSetup \/ LoopStandby \/ AssignStandby \/ SwitchOff \/ Sleep
  PROVE  DriverInv'
<1> USE Bounds DEF DriverInv, TypeOK, StandbyIsOff, Statements, ReadyTimed, WaitTimed,
          States, Pcs, Times, clock, history
<1>1. CASE LoopSetup
  <2>1. TypeOK'
    BY <1>1 DEF LoopSetup
  <2>2. CASE UNCHANGED <<currentState, lastStateChange>>
    BY <1>1, <2>1, <2>2 DEF LoopSetup
  <2>3. CASE /\ lastStateChange' = 0
             /\ currentState' = IF pinEnable THEN "STANDBY_READY_WAIT" ELSE "STANDBY"
    BY <1>1, <2>1, <2>3 DEF LoopSetup
  <2> QED BY <1>1, <2>2, <2>3 DEF LoopSetup
<1>2. CASE LoopStandby   BY <1>2 DEF LoopStandby
<1>3. CASE AssignStandby BY <1>3 DEF AssignStandby
<1>4. CASE SwitchOff
  <2>1. <<>> \in Seq(Byte)
    OBVIOUS
  <2>2. TypeOK'
    BY <1>4, <2>1 DEF SwitchOff
  <2> QED BY <1>4, <2>2 DEF SwitchOff
<1>5. CASE Sleep         BY <1>5 DEF Sleep
<1> QED BY <1>1, <1>2, <1>3, <1>4, <1>5

\* The interrupt and the module preserve the invariant.
LEMMA OutsideInv ==
  ASSUME DriverInv, IsrDetect \/ Transmit \/ Receive
  PROVE  DriverInv'
<1> USE Bounds DEF DriverInv, TypeOK, StandbyIsOff, Statements, ReadyTimed, WaitTimed,
          States, Pcs, Times, clock, history, driver
<1>1. CASE IsrDetect BY <1>1 DEF IsrDetect
<1>2. CASE Transmit
  BY <1>2, ConstantsAssumption DEF Transmit, Elapsed
<1>3. CASE Receive
  <2>1. rx' \in Seq(Byte) /\ line' \in Seq(Byte)
    BY <1>3 DEF Receive
  <2> QED BY <1>3, <2>1 DEF Receive, Elapsed
<1> QED BY <1>1, <1>2, <1>3

\* Time passes for the waits and for their histories alike.
LEMMA TickInv ==
  ASSUME DriverInv, Tick
  PROVE  DriverInv'
<1>1. /\ millis \in Times /\ millis' = (millis + 1) % ClockSize
      /\ lastStateChange \in Times
  BY DEF DriverInv, TypeOK, Tick, Times
<1>2. /\ millis' \in Times
      /\ Elapsed(lastStateChange)' <= Elapsed(lastStateChange) + 1
  <2> DEFINE last == lastStateChange
  <2>1. last' = last
    BY DEF Tick, driver
  <2>2. Elapsed(last) = (millis - last) % ClockSize
    BY DEF Elapsed
  <2> QED BY <1>1, <2>1, ElapsedTick DEF Elapsed
<1>3. Elapsed(lastStateChange) \in Nat /\ Elapsed(lastStateChange)' \in Int
  BY <1>1, <1>2, ElapsedIs, Bounds DEF Elapsed, Times, Tick, driver
<1>4. TypeOK'
  BY <1>2, Bounds DEF Tick, TypeOK, DriverInv, Longer, driver, Times
<1> QED
  BY <1>2, <1>3, <1>4, Bounds
  DEF Tick, DriverInv, TypeOK, StandbyIsOff, Statements, ReadyTimed, WaitTimed, Longer,
      driver

\* Whatever the wait before it left, a turn of case STATE_READY preserves the
\* invariant: the pin is switched off only with standby() under way, and a wait
\* that begins is timed.
LEMMA ReadyInv ==
  ASSUME DriverInv, NEW last \in Times, NEW buf \in Seq(Byte), NEW on \in BOOLEAN,
         Ready(last, buf, on), millis' = millis, ticked' \in BOOLEAN,
         last # 0 /\ ~LoneByte(buf) =>
           quiet' > StandbyTimeout \/ Elapsed(last) <= quiet',
         quiet' \in Nat, powered' \in Nat
  PROVE  DriverInv'
<1> DEFINE p == ParseReply("READY", last, buf)
           start == Started(p.last)
           expired == Elapsed(start) > StandbyTimeout
<1>1. p.last \in Times /\ p.rx \in Seq(Byte) /\ start \in Times
      /\ (LoneByte(buf) => p.last = 0) /\ (~LoneByte(buf) => p.last = last)
  BY ParseReplyType, StartedType DEF DriverInv, TypeOK, Times, States
<1>2. /\ currentState' = "READY" /\ rx' = p.rx
      /\ lastStateChange' = IF expired THEN 0 ELSE start
      /\ pinEnable' = (on /\ ~expired)
      /\ line' = IF expired THEN <<>> ELSE line
      /\ pc' = IF expired THEN "sleep" ELSE "idle"
  BY DEF Ready
<1> HIDE DEF p, start, expired
<1>3. pinEnable' \in BOOLEAN /\ (expired => ~pinEnable')
  BY <1>2
<1>4. line' \in Seq(Byte)
  BY <1>2 DEF DriverInv, TypeOK
<1>5. TypeOK'
  BY <1>1, <1>2, <1>3, <1>4, Bounds DEF DriverInv, TypeOK, Times, States, Pcs
<1>6. StandbyIsOff' /\ Statements' /\ WaitTimed'
  BY <1>2, <1>3 DEF StandbyIsOff, Statements, WaitTimed
<1>7. ReadyTimed'
  <2>1. CASE expired
    BY <1>2, <2>1 DEF ReadyTimed
  <2>2. CASE ~expired
    <3>1. Elapsed(lastStateChange)' = Elapsed(start)
      BY <1>2, <2>2 DEF Elapsed
    <3>2. CASE start = millis
      BY <3>1, <3>2, ElapsedIs DEF ReadyTimed, DriverInv, TypeOK, Times
    <3>3. CASE start # millis
      <4>1. start = last /\ last # 0 /\ ~LoneByte(buf)
        BY <1>1, <3>3 DEF start, Started
      <4> QED BY <3>1, <4>1 DEF ReadyTimed
    <3> QED BY <3>2, <3>3
  <2> QED BY <2>1, <2>2
<1> QED BY <1>5, <1>6, <1>7 DEF DriverInv

\* Case STATE_READY preserves the invariant.
LEMMA LoopReadyInv ==
  ASSUME DriverInv, LoopReady
  PROVE  DriverInv'
<1>1. /\ Ready(lastStateChange, rx, pinEnable) /\ UNCHANGED <<millis, powered>>
      /\ quiet' = (IF LoneByte(rx) THEN 0 ELSE quiet)
      /\ pc = "idle" /\ currentState = "READY" /\ ticked' = FALSE
  BY DEF LoopReady
<1>2. lastStateChange \in Times /\ rx \in Seq(Byte) /\ pinEnable \in BOOLEAN
      /\ quiet' \in Nat /\ powered' \in Nat /\ ticked' \in BOOLEAN
  BY <1>1 DEF DriverInv, TypeOK, Times
<1>3. lastStateChange # 0 /\ ~LoneByte(rx) =>
        quiet' > StandbyTimeout \/ Elapsed(lastStateChange) <= quiet'
  BY <1>1 DEF DriverInv, ReadyTimed
<1> QED
  BY <1>1, <1>2, <1>3, ReadyInv

\* Case STATE_STANDBY_READY_WAIT preserves the invariant, the fall into case
\* STATE_READY included.
LEMMA LoopReadyWaitInv ==
  ASSUME DriverInv, LoopReadyWait
  PROVE  DriverInv'
<1> DEFINE p == ParseReply("STANDBY_READY_WAIT", lastStateChange, rx)
           start == Started(p.last)
<1>1. lastStateChange \in Times /\ rx \in Seq(Byte)
  BY DEF DriverInv, TypeOK, Times
<1>2. /\ p.last \in {lastStateChange, 0} /\ p.rx \in Seq(Byte) /\ start \in Times
      /\ p.state \in {"STANDBY_READY_WAIT", "READY"}
      /\ (~LoneByte(rx) => p.last = lastStateChange /\ p.state = "STANDBY_READY_WAIT")
      /\ (LoneByte(rx) => p.last = 0)
  BY <1>1, ParseReplyType, StartedType DEF DriverInv, TypeOK, Times, States
<1>3. /\ pc = "idle" /\ currentState = "STANDBY_READY_WAIT"
      /\ quiet' = 0 /\ powered' = (IF pinEnable THEN powered ELSE 0)
      /\ ticked' = FALSE /\ millis' = millis
  BY DEF LoopReadyWait
<1>4. quiet' \in Nat /\ powered' \in Nat /\ ticked' \in BOOLEAN
  BY <1>3 DEF DriverInv, TypeOK
<1>5. CASE Elapsed(start) <= ReadyWait
  <2>1. /\ currentState' = p.state /\ lastStateChange' = start /\ rx' = p.rx
        /\ pinEnable' = TRUE /\ UNCHANGED <<line, pc>>
    BY <1>5 DEF LoopReadyWait
  <2> HIDE DEF p, start
  <2>2. TypeOK'
    BY <1>2, <1>3, <1>4, <2>1 DEF DriverInv, TypeOK, Times, States
  <2>3. StandbyIsOff' /\ Statements'
    BY <1>2, <1>3, <2>1 DEF StandbyIsOff, Statements
  <2>4. Elapsed(lastStateChange)' = Elapsed(start)
    BY <1>3, <2>1 DEF Elapsed
  <2>5. CASE start = millis
    <3>1. Elapsed(start) = 0
      BY <2>5, ElapsedIs DEF DriverInv, TypeOK, Times
    <3> QED BY <1>4, <2>1, <2>2, <2>3, <2>4, <3>1, Bounds
            DEF DriverInv, ReadyTimed, WaitTimed
  <2>6. CASE start # millis
    <3>1. start = lastStateChange /\ lastStateChange # 0 /\ p.state = "STANDBY_READY_WAIT"
      BY <1>2, <2>6 DEF start, Started
    <3> QED BY <1>3, <2>1, <2>2, <2>3, <2>4, <3>1 DEF DriverInv, ReadyTimed, WaitTimed
  <2> QED BY <2>5, <2>6
<1>6. CASE ~(Elapsed(start) <= ReadyWait)
  <2>1. Ready(0, p.rx, TRUE)
    BY <1>6 DEF LoopReadyWait, ReadyBegins
  <2> QED BY <1>2, <1>3, <1>4, <2>1, ReadyInv, Bounds
<1> QED BY <1>5, <1>6

\* Every step preserves the invariant.
LEMMA NextInv == DriverInv /\ [Next]_vars => DriverInv'
<1> SUFFICES ASSUME DriverInv, [Next]_vars PROVE DriverInv'
  OBVIOUS
<1>1. CASE Setup \/ End
  BY <1>1, CallInv
<1>2. CASE Loop
  BY <1>2, StatementInv, LoopReadyWaitInv, LoopReadyInv DEF Loop
<1>3. CASE Tick
  BY <1>3, TickInv
<1>4. CASE IsrDetect \/ Transmit \/ Receive
  BY <1>4, OutsideInv
<1>5. CASE UNCHANGED vars
  BY <1>5 DEF vars, driver, clock, history, DriverInv, TypeOK, StandbyIsOff,
              Statements, ReadyTimed, WaitTimed, Elapsed
<1> QED BY <1>1, <1>2, <1>3, <1>4, <1>5 DEF Next

------------------------------------------------------------------------------
(* The theorems. *)

\* DriverInv is an invariant.
LEMMA Invariant == Spec => []DriverInv
BY InitInv, NextInv, PTL DEF Spec

\* Every variable keeps its type, the time stamp its width.
THEOREM TypeCorrect == Spec => []TypeOK
<1>1. DriverInv => TypeOK
  BY DEF DriverInv
<1> QED BY <1>1, Invariant, PTL

\* In standby the module is off and no wait has begun, whatever touch came between
\* the statements that led there.
THEOREM StandbyOff == Spec => []StandbyIsOff
<1>1. DriverInv => StandbyIsOff
  BY DEF DriverInv
<1> QED BY <1>1, Invariant, PTL

\* The driver does not put the module to sleep before its time, for every timeout
\* and every width of the clock.
THEOREM SleepQuiet == Spec => SleepsOnlyWhenQuiet
<1>1. DriverInv /\ [Next]_vars
        => [pc' = "sleep" /\ pc # "sleep" => quiet > StandbyTimeout]_vars
  <2> SUFFICES ASSUME DriverInv, Next, pc' = "sleep", pc # "sleep"
               PROVE  quiet > StandbyTimeout
    BY DEF vars, driver
  <2>1. lastStateChange \in Times /\ rx \in Seq(Byte) /\ millis \in Times
        /\ quiet \in Nat
    BY DEF DriverInv, TypeOK, Times
  <2>2. CASE LoopReady
    <3> DEFINE p == ParseReply("READY", lastStateChange, rx)
               start == Started(p.last)
    <3>1. Elapsed(start) > StandbyTimeout /\ pc = "idle" /\ currentState = "READY"
      BY <2>2 DEF LoopReady, Ready
    <3>2. p.last \in {lastStateChange, 0}
      BY <2>1, ParseReplyType DEF States
    <3>3. start # millis
      BY <2>1, <3>1, ElapsedIs, Bounds
    <3>4. start = lastStateChange /\ lastStateChange # 0
      BY <3>2, <3>3 DEF Started
    <3>5. Elapsed(lastStateChange) \in Nat
      BY <2>1, ElapsedIs
    <3> QED BY <2>1, <3>1, <3>4, <3>5, Bounds DEF DriverInv, ReadyTimed
  <2>3. CASE LoopReadyWait
    <3> DEFINE wait == ParseReply("STANDBY_READY_WAIT", lastStateChange, rx)
               p == ParseReply("READY", 0, wait.rx)
               start == Started(p.last)
    <3>1. Ready(0, wait.rx, TRUE)
      BY <2>3 DEF LoopReadyWait, ReadyBegins
    <3>2. Elapsed(start) > StandbyTimeout
      BY <3>1 DEF Ready
    <3>3. wait.rx \in Seq(Byte)
      BY <2>1, ParseReplyType DEF States
    <3>4. p.last = 0
      BY <3>3, ParseReplyType, Bounds DEF States
    <3>5. start = millis
      BY <3>4 DEF Started
    <3> QED BY <2>1, <3>2, <3>5, ElapsedIs, Bounds
  <2>4. ~(Setup \/ End \/ LoopSetup \/ LoopStandby \/ AssignStandby \/ SwitchOff
          \/ Sleep \/ Tick \/ IsrDetect \/ Transmit \/ Receive)
    BY DEF Setup, End, LoopSetup, LoopStandby, AssignStandby, SwitchOff, Sleep, Tick,
           IsrDetect, Transmit, Receive, driver
  <2> QED BY <2>2, <2>3, <2>4 DEF Next, Loop
<1> QED BY <1>1, Invariant, PTL DEF Spec, SleepsOnlyWhenQuiet

\* A module that stays silent is not taken for ready before it had power for
\* longer than READY_WAIT.
THEOREM WaitedReady == Spec => ReadyOnlyAfterWait
<1>1. DriverInv /\ [Next]_vars
        => [currentState = "STANDBY_READY_WAIT" /\ currentState' = "READY"
              => powered > ReadyWait \/ LoneByte(rx)]_vars
  <2> SUFFICES ASSUME DriverInv, Next, currentState = "STANDBY_READY_WAIT",
                      currentState' = "READY", ~LoneByte(rx)
               PROVE  powered > ReadyWait
    BY DEF vars, driver
  <2>1. lastStateChange \in Times /\ rx \in Seq(Byte) /\ millis \in Times
        /\ powered \in Nat
    BY DEF DriverInv, TypeOK, Times
  <2>2. LoopReadyWait
    BY DEF Next, Loop, Setup, End, LoopSetup, LoopStandby, AssignStandby, SwitchOff,
           LoopReady, Sleep, Tick, IsrDetect, Transmit, Receive, driver
  <2> DEFINE p == ParseReply("STANDBY_READY_WAIT", lastStateChange, rx)
             start == Started(p.last)
  <2>3. p.last = lastStateChange /\ p.state = "STANDBY_READY_WAIT"
    BY <2>1, ParseReplyType DEF States
  <2>4. Elapsed(start) > ReadyWait
    <3>1. Elapsed(start) <= ReadyWait => currentState' = "STANDBY_READY_WAIT"
      BY <2>2, <2>3 DEF LoopReadyWait
    <3>2. Elapsed(start) \in Nat
      BY <2>1, <2>3, StartedType, ElapsedIs
    <3> QED BY <3>1, <3>2, Bounds
  <2>5. start # millis
    BY <2>1, <2>4, ElapsedIs, Bounds
  <2>6. start = lastStateChange /\ lastStateChange # 0
    BY <2>3, <2>5 DEF Started
  <2>7. Elapsed(lastStateChange) \in Nat /\ pc = "idle"
    BY <2>1, <2>2, ElapsedIs DEF LoopReadyWait
  <2> QED BY <2>1, <2>4, <2>6, <2>7, Bounds DEF DriverInv, WaitTimed
<1> QED BY <1>1, Invariant, PTL DEF Spec, ReadyOnlyAfterWait

==============================================================================
