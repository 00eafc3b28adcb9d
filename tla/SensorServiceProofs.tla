-------------------------- MODULE SensorServiceProofs --------------------------
(***************************************************************************)
(* Theorems about SensorFsm in a quiet environment, continued: a method    *)
(* returns ok() exactly when the module has carried out its command, which *)
(* makes the machine an implementation of CommandService.                  *)
(***************************************************************************)
EXTENDS SensorQuietProofs

------------------------------------------------------------------------------
(* The methods in use. *)

\* No method reads the parameter page, whose data overwrite the confirmation.
NoInfoPage == "PsReadInfPage" \notin CallKinds

\* Every method in use is answered by one packet or by stages, so that an OK is the
\* end of a command or the next of its stages.
NoTransfers == CallKinds \subseteq {"Command", "PsReadSysPara"} \union AutoStates

------------------------------------------------------------------------------
(* A command that has been carried out. *)

\* The code reads OK, or is about to, unless the command was refused before.
CompletedInv ==
  Called /\ caller.call \in carriedOut \ failed =>
    \/ lcc = "OK"
    \/ io.pc = "handle" /\ Handle(io.at, io.frame).stores /\ io.frame.conf = "OK"

\* Stages are stored until one is refused or the deadline passes.
EnrollInv ==
  Called /\ ~NoAnswerUnderWay /\ current_state = "PsAutoEnroll"
         /\ caller.call \notin failed => lcc \in {"OK", "UNKNOWN"}

\* Data follow a stored confirmation, and only the states that transfer data see any.
TransferInv ==
  /\ current_state \in {"PsUpChar", "PsUpImage"} =>
       /\ pending # <<>> /\ Head(pending).step > 0 =>
            \/ lcc = "OK"
            \/ io.pc = "handle" /\ io.frame.pid = "ack" /\ io.frame.conf = "OK"
       /\ io.pc = "handle" /\ io.frame.pid # "ack" => lcc = "OK"
  /\ io.pc = "handle" /\ io.frame.pid # "ack" =>
       current_state \in {"PsUpChar", "PsUpImage", "PsReadInfPage"}

\* What CompletionIsReported needs to be inductive.
CompletionInv == CompletedInv /\ EnrollInv /\ TransferInv /\ CompletionIsReported

\* What a handler stores does not depend on where the threads are.
LEMMA StoresStable ==
  ASSUME UNCHANGED <<io, lcc, ignoreConfirmation>>
  PROVE  Handle(io.at, io.frame).stores' <=> Handle(io.at, io.frame).stores
BY DEF Handle, CommandState, PsCancelState, HandShakeState, GetChipSnState,
       PsReadSysParaState, PsReadInfPageState, PsUpCharState, PsUpImageState,
       PsDownImageState, PsAutoIdentifyState, PsAutoEnrollState, Outcome

\* ... nor on when the packet arrives.
LEMMA StoresNext ==
  ASSUME NEW s, NEW f, io'.at = s, io'.frame = f, UNCHANGED <<lcc, ignoreConfirmation>>
  PROVE  Handle(io.at, io.frame).stores' <=> Handle(s, f).stores
BY DEF Handle, CommandState, PsCancelState, HandShakeState, GetChipSnState,
       PsReadSysParaState, PsReadInfPageState, PsUpCharState, PsUpImageState,
       PsDownImageState, PsAutoIdentifyState, PsAutoEnrollState, Outcome

\* A step that neither stores nor returns anything, and moves the machine only while
\* nobody answers.
LEMMA CompletionKept ==
  ASSUME CompletionInv,
         UNCHANGED <<io, caller, lcc, ignoreConfirmation, carriedOut, failed, results>>,
         pending' \in {pending, <<>>},
         ~NoAnswerUnderWay => current_state' = current_state
  PROVE  CompletionInv'
<1>1. CompletedInv /\ EnrollInv /\ TransferInv /\ CompletionIsReported
  BY DEF CompletionInv
<1>2. (Called' <=> Called) /\ (~NoAnswerUnderWay' => ~NoAnswerUnderWay)
  BY DEF Called, NoAnswerUnderWay
<1>3. CompletedInv'
  BY <1>1, <1>2, StoresStable DEF CompletedInv
<1>4. EnrollInv' /\ CompletionIsReported'
  BY <1>1, <1>2 DEF EnrollInv, CompletionIsReported
<1>5. TransferInv'
  BY <1>1, <1>2 DEF TransferInv, NoAnswerUnderWay
<1> QED BY <1>3, <1>4, <1>5 DEF CompletionInv

\* The steps of the state machine thread that only move it.
LEMMA MachineCompletion ==
  ASSUME TypeOK, TurnInv, CompletionInv,
         Dequeue \/ DequeueEmpty \/ Transition \/ EnterUntimed \/ VisitLoop
  PROVE  CompletionInv'
<1>1. UNCHANGED <<io, caller, lcc, ignoreConfirmation, carriedOut, failed, results, pending>>
  BY DEF Dequeue, DequeueEmpty, Transition, EnterUntimed, VisitLoop, history
<1>2. ~NoAnswerUnderWay => current_state' = current_state
  BY DEF Dequeue, DequeueEmpty, Transition, EnterUntimed, VisitLoop, TurnInv, MoveInv
<1> QED BY <1>1, <1>2, CompletionKept

\* The present call's command is transmitted after its code has been cleared.
LEMMA EnterTimedCompletion ==
  ASSUME TypeOK, TurnInv, TurnInv', RefusalInv, CompletionInv, EnterTimed
  PROVE  CompletionInv'
<1>1. CompletedInv /\ EnrollInv /\ TransferInv /\ CompletionIsReported
  BY DEF CompletionInv
<1>2. /\ UNCHANGED <<io, caller, lcc, carriedOut, failed, results, current_state>>
      /\ fsm.pc = "enter" /\ fsm.to \in TimedStates
      /\ pending' = SendCommand(fsm.to, fsm.event.call)
  BY DEF EnterTimed, history
<1>3. /\ io.pc = "idle" /\ pending = <<>> /\ current_state = fsm.to /\ MayWait(fsm.to)
  BY <1>2 DEF TurnInv, MoveInv, NoAnswerUnderWay, TimedStates, DataStates
<1>4. Called' <=> Called
  BY <1>2 DEF Called
<1>5. PICK job : pending' = <<job>> /\ job.step = 0
  BY <1>2, <1>3 DEF SendCommand
<1>6. CompletedInv' /\ CompletionIsReported'
  BY <1>1, <1>2, <1>3, <1>4 DEF CompletedInv, CompletionIsReported
<1>7. TransferInv'
  BY <1>2, <1>3, <1>5, OneEvent DEF TransferInv
<1>8. EnrollInv'
  <2>1. SUFFICES ASSUME Called, fsm.to = "PsAutoEnroll" PROVE lcc \in {"OK", "UNKNOWN"}
    BY <1>2, <1>3, <1>4 DEF EnrollInv
  <2>2. caller.call # 0
    BY <2>1 DEF TurnInv, CallerInv, Called
  <2>3. NotSent
    BY <1>2, <1>3, <2>1, <2>2 DEF NotSent, MayWait
  <2> QED BY <2>3 DEF RefusalInv, FreshCall
<1> QED BY <1>6, <1>7, <1>8 DEF CompletionInv

\* A deadline replaces the code only while the command is not carried out.
LEMMA HandleLoopCompletion ==
  ASSUME TypeOK, TurnInv, RefusalInv, CompletionInv, HandleLoop
  PROVE  CompletionInv'
<1>1. CompletedInv /\ EnrollInv /\ TransferInv /\ CompletionIsReported
  BY DEF CompletionInv
<1>2. /\ UNCHANGED <<io, caller, carriedOut, failed, results, current_state, pending,
                     ignoreConfirmation>>
      /\ fsm.pc = "loop"
  BY DEF HandleLoop, history
<1>3. Called' <=> Called
  BY <1>2 DEF Called
<1>4. CASE fsm.at \in TimedStates /\ fsm.at \in expired
  <2>1. NoAnswerUnderWay /\ Busy /\ NoAnswerUnderWay'
    BY <1>2, <1>4 DEF TurnInv, LoopInv, Busy, NoAnswerUnderWay
  <2>2. Called => caller.call \notin carriedOut
    BY <2>1 DEF RefusalInv, ServedInv, NoAnswerUnderWay
  <2>3. CompletedInv' /\ EnrollInv' /\ CompletionIsReported'
    BY <1>1, <1>2, <1>3, <2>1, <2>2 DEF CompletedInv, EnrollInv, CompletionIsReported
  <2>4. TransferInv'
    BY <2>1 DEF TransferInv, NoAnswerUnderWay
  <2> QED BY <2>3, <2>4 DEF CompletionInv
<1>5. CASE ~(fsm.at \in TimedStates /\ fsm.at \in expired)
  <2>1. lcc' = lcc
    BY <1>5 DEF HandleLoop
  <2> QED BY <1>2, <2>1, CompletionKept
<1> QED BY <1>4, <1>5

\* The last packet of a command that was not refused is stored as an OK, or follows one.
LEMMA ReceiveFrameCompletion ==
  ASSUME NoInfoPage, TypeOK, TurnInv, RefusalInv, CompletionInv, ReceiveFrame
  PROVE  CompletionInv'
<1>1. CompletedInv /\ EnrollInv /\ TransferInv /\ CompletionIsReported
  BY DEF CompletionInv
<1>2. PICK job \in Jobs : \E r \in Replies(job) :
        /\ job.state = current_state /\ job.call = CallOf(current_state)
        /\ job.step \in StepsOf(job.state) /\ job = Head(pending)
        /\ io' = [pc |-> "handle", at |-> current_state, frame |-> r.frame]
        /\ pending' = IF r.step = 0 THEN <<>> ELSE <<[job EXCEPT !.step = r.step]>>
        /\ carriedOut' = IF Completes(r) THEN carriedOut \union {r.frame.call}
                         ELSE carriedOut
  BY ReceivedPacket
<1>3. PICK r \in Replies(job) :
        /\ job.state = current_state /\ job.call = CallOf(current_state)
        /\ job.step \in StepsOf(job.state) /\ job = Head(pending)
        /\ io' = [pc |-> "handle", at |-> current_state, frame |-> r.frame]
        /\ pending' = IF r.step = 0 THEN <<>> ELSE <<[job EXCEPT !.step = r.step]>>
        /\ carriedOut' = IF Completes(r) THEN carriedOut \union {r.frame.call}
                         ELSE carriedOut
  BY <1>2
<1>4. /\ UNCHANGED <<current_state, lcc, caller, results, failed, ignoreConfirmation>>
      /\ io.pc = "idle" /\ pending # <<>> /\ ~NoAnswerUnderWay
  BY DEF ReceiveFrame, NoAnswerUnderWay
<1>5. PICK f : f = r.frame /\ f.call = CallOf(current_state)
  BY <1>3, ReplyFacts
<1>6. PICK s \in TimedStates : s = current_state /\ s = job.state /\ MayWait(s)
  BY <1>3, <1>4 DEF TurnInv, PendingInv, WaitInv
<1>7. /\ io'.pc = "handle" /\ io'.at = s /\ io'.frame = f
  BY <1>3, <1>5, <1>6
<1>8. Called' <=> Called
  BY <1>4 DEF Called
<1>9. Called => caller.call \notin carriedOut
  BY <1>4 DEF RefusalInv, ServedInv, Busy
<1>10. s \in {"PsUpChar", "PsUpImage", "PsReadInfPage"} =>
         /\ f.pid = "ack" <=> job.step = 0
         /\ f.pid = "ack" => r.step = IF f.conf = "OK" THEN 1 ELSE 0
  <2>1. SUFFICES ASSUME s \in {"PsUpChar", "PsUpImage", "PsReadInfPage"}
                 PROVE  /\ f.pid = "ack" <=> job.step = 0
                        /\ f.pid = "ack" => r.step = IF f.conf = "OK" THEN 1 ELSE 0
    OBVIOUS
  <2>2. s \notin AutoStates
    BY <2>1 DEF AutoStates
  <2>3. r \in BulkReplies(job)
    BY <1>6, <2>1, <2>2 DEF Replies
  <2> QED BY <1>3, <1>5, <1>6, <2>1, <2>3, BulkFacts
<1>11. s \in {"PsUpChar", "PsUpImage"} /\ f.pid # "ack" => lcc = "OK"
  <2>1. SUFFICES ASSUME s \in {"PsUpChar", "PsUpImage"}, job.step # 0 PROVE lcc = "OK"
    BY <1>10
  <2>2. Head(pending).step > 0
    BY <1>3, <2>1 DEF Jobs
  <2> QED BY <1>1, <1>4, <1>6, <2>1, <2>2 DEF TransferInv
<1>12. s \in AutoStates =>
         /\ f.pid = "ack" /\ f.len = StageLength(s)
  <2>1. SUFFICES ASSUME s \in AutoStates PROVE f.pid = "ack" /\ f.len = StageLength(s)
    OBVIOUS
  <2>2. r \in StageReplies(job)
    BY <1>6, <2>1 DEF Replies, AutoStates
  <2> QED BY <1>3, <1>5, <1>6, <2>1, <2>2, StageFacts
<1>13. s \notin AutoStates \union {"PsUpChar", "PsUpImage", "PsReadInfPage"} => f.pid = "ack"
  <2>1. SUFFICES ASSUME s \notin AutoStates \union {"PsUpChar", "PsUpImage", "PsReadInfPage"}
                 PROVE  f.pid = "ack"
    OBVIOUS
  <2>2. r \in PlainReplies(job)
    BY <1>6, <2>1 DEF Replies
  <2> QED BY <1>3, <1>5, <1>6, <2>1, <2>2, PlainFacts
<1>14. CompletedInv'
  <2>1. SUFFICES ASSUME Called, caller.call \in carriedOut', caller.call \notin failed
                 PROVE  lcc = "OK" \/ (Handle(s, f).stores /\ f.conf = "OK")
    BY <1>4, <1>7, <1>8, StoresNext DEF CompletedInv
  <2>2. r.step = 0 /\ (f.pid = "end" \/ f.conf = "OK") /\ f.call = caller.call
    BY <1>3, <1>5, <1>9, <2>1 DEF Completes
  <2>3. caller.call # 0
    BY <2>1 DEF TurnInv, CallerInv, Called
  <2>4. s \in CallKinds
    BY <1>5, <1>6, <2>2, <2>3 DEF CallOf, MayWait
  <2>5. s \in DataStates \union {"Command"}
    BY <2>4, ConstantsAssumption DEF NoInfoPage
  <2>6. CASE s = "PsAutoEnroll"
    <3>1. f.pid = "ack" /\ f.len = EnrollLength
      BY <1>12, <2>6 DEF AutoStates, StageLength
    <3>2. lcc \in {"OK", "UNKNOWN"}
      BY <1>1, <1>4, <1>6, <2>1, <2>6 DEF EnrollInv
    <3>3. PsAutoEnrollState(f).stores
      BY <3>1, <3>2, StageOutcomes
    <3> QED BY <2>2, <2>6, <3>1, <3>3, HandleOf
  <2>7. CASE s = "PsAutoIdentify"
    <3>1. f.pid = "ack" /\ f.len = IdentifyLength
      BY <1>12, <2>7 DEF AutoStates, StageLength
    <3>2. PsAutoIdentifyState(f).stores
      BY <3>1, StageOutcomes
    <3> QED BY <2>2, <2>7, <3>1, <3>2, HandleOf
  <2>8. CASE s \in {"PsUpChar", "PsUpImage"}
    <3>1. CASE f.pid = "ack"
      BY <1>10, <2>2, <2>8, <3>1
    <3>2. CASE f.pid # "ack"
      BY <1>11, <2>8, <3>2
    <3> QED BY <3>1, <3>2
  <2>9. CASE s \in {"Command", "PsReadSysPara"}
    <3>1. f.conf = "OK"
      BY <1>13, <2>2, <2>9 DEF AutoStates
    <3> QED BY <2>9, <3>1, HandleOf, HandlerOutcomes
  <2> QED BY <2>5, <2>6, <2>7, <2>8, <2>9 DEF DataStates
<1>15. EnrollInv'
  BY <1>1, <1>4, <1>8 DEF EnrollInv
<1>16. TransferInv'
  <2>1. ASSUME s \in {"PsUpChar", "PsUpImage"}, pending' # <<>>
        PROVE  lcc = "OK" \/ (f.pid = "ack" /\ f.conf = "OK")
    <3>1. r.step # 0
      BY <1>3, <2>1
    <3> QED BY <1>10, <1>11, <2>1, <3>1
  <2>2. f.pid # "ack" => s \in {"PsUpChar", "PsUpImage", "PsReadInfPage"}
    BY <1>12, <1>13
  <2> QED BY <1>4, <1>6, <1>7, <1>11, <2>1, <2>2 DEF TransferInv
<1>17. CompletionIsReported'
  <2>1. SUFFICES ASSUME NEW c \in carriedOut', c \notin failed, c # 0
                 PROVE  results[c] \in {"none", "OK"}
    BY <1>4 DEF CompletionIsReported
  <2>2. CASE c \in carriedOut
    BY <1>1, <2>1, <2>2 DEF CompletionIsReported
  <2>3. CASE c \notin carriedOut
    <3>1. c = caller.call /\ caller.call # 0
      BY <1>3, <1>5, <2>1, <2>3 DEF CallOf
    <3>2. Called
      BY <1>4, <3>1 DEF TurnInv, CallerInv, Busy, Called
    <3>3. c \in 1..MaxCalls
      BY <3>1, ConstantsAssumption DEF TypeOK, CallIds
    <3> QED BY <3>1, <3>2, <3>3 DEF RefusalInv, Made
  <2> QED BY <2>2, <2>3
<1> QED BY <1>14, <1>15, <1>16, <1>17 DEF CompletionInv

\* A completing OK is stored, and no refusal or datum is stored over it.
LEMMA HandleDataCompletion ==
  ASSUME NoInfoPage, TypeOK, TurnInv, RefusalInv, CompletionInv, HandleData
  PROVE  CompletionInv'
<1>1. CompletedInv /\ EnrollInv /\ TransferInv /\ CompletionIsReported
  BY DEF CompletionInv
<1>2. /\ UNCHANGED <<current_state, caller, results, carriedOut, pending>>
      /\ io.pc = "handle" /\ failed \subseteq failed'
  BY DEF HandleData
<1>3. (Called' <=> Called) /\ ~NoAnswerUnderWay /\ Busy
  BY <1>2 DEF Called, NoAnswerUnderWay, Busy
<1>4. /\ io.at = current_state /\ current_state \in TimedStates /\ MayWait(current_state)
      /\ io.frame.conf \in Confs /\ io.frame.call = CallOf(current_state)
  BY <1>2 DEF TurnInv, IoInv, WaitInv, TypeOK, Frames
<1>5. io'.pc # "handle"
  BY DEF HandleData, IoIdle, TypeOK
<1>6. lcc' = IF Handle(io.at, io.frame).stores THEN io.frame.conf ELSE lcc
  BY DEF HandleData, CodeAfter
<1>7. ASSUME Handle(io.at, io.frame).stores PROVE io.frame.pid = "ack"
  <2>1. io.at # "PsReadInfPage"
    BY <1>4 DEF NoInfoPage, MayWait, MethodStates
  <2>2. io.frame.pid # "ack" => io.at \in {"PsUpChar", "PsUpImage"}
    BY <1>1, <1>2, <1>4, <2>1 DEF TransferInv
  <2>3. CASE io.at = "PsUpChar"
    <3>1. Handle(io.at, io.frame) = PsUpCharState(io.frame)
      BY <2>3, HandleOf
    <3> QED BY <1>7, <3>1, HandlerOutcomes
  <2>4. CASE io.at = "PsUpImage"
    <3>1. Handle(io.at, io.frame) = PsUpImageState(io.frame)
      BY <2>4, HandleOf
    <3> QED BY <1>7, <3>1, HandlerOutcomes
  <2> QED BY <2>2, <2>3, <2>4
<1>8. CompletedInv'
  <2>1. SUFFICES ASSUME Called, caller.call \in carriedOut, caller.call \notin failed
                 PROVE  lcc' = "OK"
    BY <1>2, <1>3 DEF CompletedInv
  <2>2. lcc = "OK" \/ (Handle(io.at, io.frame).stores /\ io.frame.conf = "OK")
    BY <1>1, <2>1 DEF CompletedInv
  <2>3. ~(io.frame.pid = "ack" /\ io.frame.conf # "OK")
    BY <1>2, <2>1 DEF RefusalInv, RefusalEnds
  <2> QED BY <1>6, <1>7, <2>2, <2>3
<1>9. EnrollInv'
  <2>1. SUFFICES ASSUME Called, current_state = "PsAutoEnroll", caller.call \notin failed'
                 PROVE  lcc' \in {"OK", "UNKNOWN"}
    BY <1>2, <1>3 DEF EnrollInv
  <2>2. lcc \in {"OK", "UNKNOWN"}
    BY <1>1, <1>2, <1>3, <2>1 DEF EnrollInv
  <2>3. ASSUME Handle(io.at, io.frame).stores, io.frame.conf # "OK" PROVE FALSE
    <3>1. io.frame.call = caller.call /\ io.at # "PsAutoIdentify"
      BY <1>4, <2>1 DEF CallOf
    <3>2. failed' = failed \union {io.frame.call}
      BY <1>7, <2>1, <2>3, <3>1 DEF HandleData, Called
    <3> QED BY <2>1, <3>1, <3>2
  <2> QED BY <1>6, <2>2, <2>3
<1>10. TransferInv'
  <2>1. SUFFICES ASSUME current_state \in {"PsUpChar", "PsUpImage"}, pending # <<>>,
                        Head(pending).step > 0
                 PROVE  lcc' = "OK"
    BY <1>2, <1>5 DEF TransferInv
  <2>2. lcc = "OK" \/ (io.frame.pid = "ack" /\ io.frame.conf = "OK")
    BY <1>1, <2>1 DEF TransferInv
  <2>3. ~(io.frame.pid = "ack" /\ io.frame.conf # "OK")
    BY <1>2, <1>4, <2>1 DEF RefusalInv, RefusalEnds, AutoStates
  <2>4. CASE io.frame.pid # "ack"
    <3>1. ~Handle(io.at, io.frame).stores
      BY <1>7, <2>4
    <3> QED BY <1>6, <2>2, <2>4, <3>1
  <2>5. CASE io.frame.pid = "ack" /\ io.frame.conf = "OK"
    <3>1. CASE io.at = "PsUpChar"
      <4>1. Handle(io.at, io.frame) = PsUpCharState(io.frame)
        BY <3>1, HandleOf
      <4> QED BY <1>6, <2>5, <4>1, HandlerOutcomes
    <3>2. CASE io.at = "PsUpImage"
      <4>1. Handle(io.at, io.frame) = PsUpImageState(io.frame)
        BY <3>2, HandleOf
      <4> QED BY <1>6, <2>5, <4>1, HandlerOutcomes
    <3> QED BY <1>4, <2>1, <3>1, <3>2
  <2> QED BY <2>3, <2>4, <2>5
<1>11. CompletionIsReported'
  BY <1>1, <1>2 DEF CompletionIsReported
<1> QED BY <1>8, <1>9, <1>10, <1>11 DEF CompletionInv

\* The answered machine becomes ready with the code it has.
LEMMA IoCompletion ==
  ASSUME TypeOK, TurnInv, CompletionInv, IoTransition \/ IoEnter
  PROVE  CompletionInv'
<1>1. CompletedInv /\ EnrollInv /\ TransferInv /\ CompletionIsReported
  BY DEF CompletionInv
<1>2. /\ UNCHANGED <<lcc, caller, results, carriedOut, failed, pending>>
      /\ io.pc \in {"transition", "enter"} /\ io'.pc \in {"enter", "idle"}
      /\ current_state' = "Ready" /\ pending = <<>>
  BY DEF IoTransition, IoEnter, history, IoIdle, TypeOK, TurnInv, IoInv
<1>3. Called' <=> Called
  BY <1>2 DEF Called
<1>4. CompletedInv' /\ CompletionIsReported'
  BY <1>1, <1>2, <1>3 DEF CompletedInv, CompletionIsReported
<1>5. EnrollInv' /\ TransferInv'
  BY <1>2 DEF EnrollInv, TransferInv
<1> QED BY <1>4, <1>5 DEF CompletionInv

\* The calling thread: nothing is under way.
LEMMA CallerCompletion ==
  ASSUME QuietEnvironment, TypeOK, TurnInv, RefusalInv, CompletionInv,
         ClearCode \/ ClearFlag \/ EnqueueCall \/ AwaitReady \/ ReadResult
  PROVE  CompletionInv'
<1>1. CompletedInv /\ EnrollInv /\ TransferInv /\ CompletionIsReported
  BY DEF CompletionInv
<1>2. UNCHANGED <<current_state, io, carriedOut, failed, pending>>
  BY DEF ClearCode, ClearFlag, EnqueueCall, AwaitReady, ReadResult, history
<1>3. ~Busy
  BY ClearCodeTurn, EnqueueCallTurn
     DEF TurnInv, CallerInv, ClearFlag, AwaitReady, ReadResult
<1>4. io.pc = "idle" /\ pending = <<>> /\ NoAnswerUnderWay'
  BY <1>2, <1>3 DEF Busy, NoAnswerUnderWay
<1>5. EnrollInv' /\ TransferInv'
  BY <1>4 DEF EnrollInv, TransferInv, NoAnswerUnderWay
<1>6. CASE ClearCode
  <2>1. caller.call \in Nat /\ caller'.call = caller.call + 1 /\ UNCHANGED results
    BY <1>6, ConstantsAssumption DEF ClearCode, TypeOK, CallIds
  <2>2. caller'.call \notin carriedOut
    BY <2>1 DEF RefusalInv, Made
  <2>3. CompletedInv' /\ CompletionIsReported'
    BY <1>1, <1>2, <2>1, <2>2 DEF CompletedInv, CompletionIsReported
  <2> QED BY <1>5, <2>3 DEF CompletionInv
<1>7. CASE ClearFlag \/ EnqueueCall \/ AwaitReady
  <2>1. /\ UNCHANGED <<lcc, results>> /\ caller'.call = caller.call
        /\ Called
    BY <1>7 DEF ClearFlag, EnqueueCall, AwaitReady, TypeOK, Called
  <2>2. CompletedInv' /\ CompletionIsReported'
    BY <1>1, <1>2, <1>4, <2>1 DEF CompletedInv, CompletionIsReported
  <2> QED BY <1>5, <2>2 DEF CompletionInv
<1>8. CASE ReadResult
  <2>1. /\ results' = [results EXCEPT ![caller.call] = lcc] /\ ~Called' /\ Called
        /\ caller.call \in 0..MaxCalls
    BY <1>8 DEF ReadResult, TypeOK, Called, CallIds
  <2>2. caller.call \in carriedOut \ failed => lcc = "OK"
    BY <1>1, <1>4, <2>1 DEF CompletedInv
  <2>3. CompletionIsReported'
    <3>1. SUFFICES ASSUME NEW c \in carriedOut, c \notin failed, c # 0
                   PROVE  results'[c] \in {"none", "OK"}
      BY <1>2 DEF CompletionIsReported
    <3>2. results[c] \in {"none", "OK"} /\ c \in 1..MaxCalls
      BY <1>1, <3>1, ConstantsAssumption DEF CompletionIsReported, TypeOK, CallIds
    <3> QED BY <2>1, <2>2, <3>1, <3>2 DEF TypeOK
  <2>4. CompletedInv'
    BY <2>1 DEF CompletedInv
  <2> QED BY <1>5, <2>3, <2>4 DEF CompletionInv
<1> QED BY <1>6, <1>7, <1>8

\* The environment: the application's events, deadlines, and silence.
LEMMA OthersCompletion ==
  ASSUME TypeOK, TurnInv, CompletionInv,
         AppEnqueue \/ Expire \/ SensorSilent \/ UNCHANGED vars
  PROVE  CompletionInv'
<1>1. UNCHANGED <<io, caller, lcc, ignoreConfirmation, carriedOut, failed, results,
                  current_state>>
  BY DEF AppEnqueue, Expire, SensorSilent, vars, hostVars, history
<1>2. CASE SensorSilent
  <2>1. pending' = <<>>
    BY <1>2, TakeLast DEF SensorSilent, TurnInv, PendingInv, TypeOK
  <2> QED BY <1>1, <2>1, CompletionKept
<1>3. CASE AppEnqueue \/ Expire \/ UNCHANGED vars
  <2>1. pending' = pending
    BY <1>3 DEF AppEnqueue, Expire, vars
  <2> QED BY <1>1, <2>1, CompletionKept
<1> QED BY <1>2, <1>3

\* At first nothing was carried out.
LEMMA InitCompletion == Init => CompletionInv
BY DEF Init, CompletionInv, CompletedInv, EnrollInv, TransferInv, CompletionIsReported,
       Called, IoIdle

\* Every step keeps what became of a command that has been carried out.
LEMMA NextCompletion ==
  /\ QuietEnvironment /\ NoInfoPage
  /\ TypeOK /\ TurnInv /\ TurnInv' /\ RefusalInv /\ CompletionInv /\ [Next]_vars
  => CompletionInv'
<1> SUFFICES ASSUME QuietEnvironment, NoInfoPage, TypeOK, TurnInv, TurnInv', RefusalInv,
                    CompletionInv, [Next]_vars
             PROVE  CompletionInv'
  OBVIOUS
<1>1. CASE FsmThread
  BY <1>1, MachineCompletion, EnterTimedCompletion, HandleLoopCompletion, NoReset
     DEF FsmThread
<1>2. CASE IoThread
  BY <1>2, HandleDataCompletion, IoCompletion DEF IoThread
<1>3. CASE CallReturns \/ ClearCode
  BY <1>3, CallerCompletion, NoAwaitTimeout DEF CallReturns
<1>4. CASE AppEnqueue \/ IsrDetect \/ Expire \/ SensorSilent \/ UNCHANGED vars
  BY <1>4, OthersCompletion, NoDetect
<1>5. CASE ReceiveFrame
  BY <1>5, ReceiveFrameCompletion
<1> QED BY <1>1, <1>2, <1>3, <1>4, <1>5, Zenon DEF Next

\* The invariant that the completions rest on.
LEMMA CompletionInvariant ==
  ASSUME QuietEnvironment, NoInfoPage
  PROVE  Spec => [](TypeOK /\ TurnInv /\ RefusalInv /\ CompletionInv)
BY InitTypeOK, NextTypeOK, InitTurn, NextTurn, InitRefusal, NextRefusal, InitCompletion,
   NextCompletion, PTL DEF Spec

\* A call whose command the module carried out without a refusal returns ok(): no
\* left-over time-out, deadline or cancel spoils it.
THEOREM CompletionsAreReported ==
  ASSUME QuietEnvironment, NoInfoPage
  PROVE  Spec => []CompletionIsReported
<1>1. CompletionInv => CompletionIsReported
  BY DEF CompletionInv
<1> QED BY <1>1, CompletionInvariant, PTL

------------------------------------------------------------------------------
(* A success is the call's own. *)

\* An OK before the command is finished is that of a stage, and the machine still
\* waits for the next.
StageInv ==
  Called /\ lcc = "OK" /\ caller.call \notin carriedOut =>
    /\ current_state \in AutoStates /\ Polling /\ queue = <<>>
    /\ io.pc \in {"idle", "handle"}

\* The packet with which a state is left, if it is an OK, finished the command.
LastOk ==
  io.pc = "handle" /\ io.frame.conf = "OK" =>
    \/ io.frame.call \in carriedOut
    \/ io.at \in AutoStates /\ ~Handle(io.at, io.frame).done

\* What SuccessIsOwn needs to be inductive.
OwnInv == StageInv /\ LastOk /\ SuccessIsOwn

\* A step that neither stores nor returns anything.
LEMMA OwnKept ==
  ASSUME OwnInv,
         UNCHANGED <<io, lcc, carriedOut, results>>,
         caller'.call = caller.call, Called' => Called,
         Called /\ current_state \in AutoStates /\ Polling /\ queue = <<>> =>
           current_state' = current_state /\ Polling' /\ queue' = queue
  PROVE  OwnInv'
<1>1. StageInv /\ LastOk /\ SuccessIsOwn
  BY DEF OwnInv
<1>2. StageInv'
  BY <1>1 DEF StageInv
<1>3. LastOk'
  BY <1>1, DoneStable DEF LastOk
<1>4. SuccessIsOwn'
  BY <1>1 DEF SuccessIsOwn
<1> QED BY <1>2, <1>3, <1>4 DEF OwnInv

\* The steps that store nothing for the call and return nothing to it.
LEMMA QuietOwn ==
  ASSUME QuietEnvironment, TypeOK, TurnInv, OwnInv,
         \/ Dequeue \/ DequeueEmpty \/ Transition \/ EnterTimed \/ EnterUntimed \/ VisitLoop
         \/ AppEnqueue \/ Expire \/ SensorSilent \/ UNCHANGED vars
  PROVE  OwnInv'
<1>1. UNCHANGED <<io, lcc, carriedOut, results, caller>>
  BY DEF Dequeue, DequeueEmpty, Transition, EnterTimed, EnterUntimed, VisitLoop,
         AppEnqueue, Expire, SensorSilent, vars, hostVars, history
<1>2. Called /\ current_state \in AutoStates /\ Polling /\ queue = <<>> =>
        current_state' = current_state /\ Polling' /\ queue' = queue
  BY DEF Dequeue, DequeueEmpty, Transition, EnterTimed, EnterUntimed, VisitLoop,
         AppEnqueue, Expire, SensorSilent, vars, hostVars, Polling, FsmIdle, Called
<1> QED BY <1>1, <1>2, OwnKept DEF Called

\* The deadline of a stage replaces its OK.
LEMMA HandleLoopOwn ==
  ASSUME TypeOK, TurnInv, OwnInv, HandleLoop
  PROVE  OwnInv'
<1>1. StageInv /\ LastOk /\ SuccessIsOwn
  BY DEF OwnInv
<1>2. /\ UNCHANGED <<io, caller, carriedOut, results, current_state>>
      /\ fsm.pc = "loop" /\ fsm'.pc = "dequeue" /\ lcc' \in {lcc, "ERROR_TIMEOUT"}
  BY DEF HandleLoop, history, FsmIdle
<1>3. CASE fsm.at \in TimedStates /\ fsm.at \in expired
  <2>1. current_state = fsm.at
    BY <1>2, <1>3 DEF TurnInv, LoopInv
  <2>2. fsm.at \in AutoStates => lcc' = "ERROR_TIMEOUT"
    BY <1>3 DEF HandleLoop
  <2>3. StageInv'
    BY <1>1, <1>2, <2>1, <2>2 DEF StageInv, Called
  <2>4. LastOk'
    BY <1>1, <1>2, DoneStable DEF LastOk
  <2>5. SuccessIsOwn'
    BY <1>1, <1>2 DEF SuccessIsOwn
  <2> QED BY <2>3, <2>4, <2>5 DEF OwnInv
<1>4. CASE ~(fsm.at \in TimedStates /\ fsm.at \in expired)
  <2>1. UNCHANGED <<lcc, queue>>
    BY <1>4 DEF HandleLoop
  <2> QED BY <1>2, <2>1, OwnKept DEF Polling, Called
<1> QED BY <1>3, <1>4

\* An OK that arrives finishes the command, or is a stage that does not end the wait.
LEMMA ReceiveFrameOwn ==
  ASSUME NoTransfers, TypeOK, TurnInv, OwnInv, ReceiveFrame
  PROVE  OwnInv'
<1>1. StageInv /\ LastOk /\ SuccessIsOwn
  BY DEF OwnInv
<1>2. PICK job \in Jobs : \E r \in Replies(job) :
        /\ job.state = current_state /\ job.call = CallOf(current_state)
        /\ job.step \in StepsOf(job.state)
        /\ io' = [pc |-> "handle", at |-> current_state, frame |-> r.frame]
        /\ carriedOut' = IF Completes(r) THEN carriedOut \union {r.frame.call}
                         ELSE carriedOut
  BY ReceivedPacket
<1>3. PICK r \in Replies(job) :
        /\ job.state = current_state /\ job.call = CallOf(current_state)
        /\ job.step \in StepsOf(job.state)
        /\ io' = [pc |-> "handle", at |-> current_state, frame |-> r.frame]
        /\ carriedOut' = IF Completes(r) THEN carriedOut \union {r.frame.call}
                         ELSE carriedOut
  BY <1>2
<1>4. /\ UNCHANGED <<current_state, queue, fsm, lcc, caller, results>>
      /\ carriedOut \subseteq carriedOut' /\ pending # <<>>
  BY <1>3 DEF ReceiveFrame
<1>5. PICK f : f = r.frame
  OBVIOUS
<1>6. PICK s \in TimedStates : s = current_state /\ s = job.state /\ MayWait(s)
  BY <1>3, <1>4 DEF TurnInv, PendingInv, WaitInv
<1>7. io'.pc = "handle" /\ io'.at = s /\ io'.frame = f
  BY <1>3, <1>5, <1>6
<1>8. StageInv'
  BY <1>1, <1>4, <1>7 DEF StageInv, Called, Polling
<1>9. SuccessIsOwn'
  BY <1>1, <1>4 DEF SuccessIsOwn
<1>10. LastOk'
  <2>1. SUFFICES ASSUME f.conf = "OK"
                 PROVE  f.call \in carriedOut' \/ (s \in AutoStates /\ ~Handle(s, f).done)
    BY <1>7, DoneNext DEF LastOk
  <2>2. r.step = 0 => f.call \in carriedOut'
    BY <1>3, <1>5, <2>1 DEF Completes
  <2>3. CASE s \in AutoStates
    <3>1. r \in StageReplies(job)
      BY <1>6, <2>3 DEF Replies, AutoStates
    <3>2. r.step = 0 <=> Handle(s, f).done
      BY <1>3, <1>5, <1>6, <2>1, <2>3, <3>1, StageFacts
    <3> QED BY <2>2, <2>3, <3>2
  <2>4. CASE s \notin AutoStates
    <3>1. s \notin {"PsUpChar", "PsUpImage", "PsReadInfPage"}
      BY <1>6, <2>4 DEF MayWait, MethodStates, DataStates, NoTransfers, AutoStates
    <3>2. r \in PlainReplies(job)
      BY <1>6, <2>4, <3>1 DEF Replies
    <3>3. r.step = 0
      BY <1>3, <1>6, <2>4, <3>1, <3>2, PlainFacts
    <3> QED BY <2>2, <3>3
  <2> QED BY <2>3, <2>4
<1> QED BY <1>8, <1>9, <1>10 DEF OwnInv

\* An OK is stored for the call that the machine works for.
LEMMA HandleDataOwn ==
  ASSUME TypeOK, TurnInv, OwnInv, HandleData
  PROVE  OwnInv'
<1>1. StageInv /\ LastOk /\ SuccessIsOwn
  BY DEF OwnInv
<1>2. /\ UNCHANGED <<current_state, queue, fsm, caller, results, carriedOut>>
      /\ io.pc = "handle"
  BY DEF HandleData
<1>3. (Called' <=> Called) /\ (Polling' <=> Polling)
  BY <1>2 DEF Called, Polling
<1>4. /\ io.at = current_state /\ current_state \in TimedStates /\ Polling /\ queue = <<>>
      /\ io.frame.call = CallOf(current_state)
  BY <1>2 DEF TurnInv, IoInv
<1>5. \/ Handle(io.at, io.frame).done /\ io'.pc = "transition"
      \/ ~Handle(io.at, io.frame).done /\ io'.pc = "idle"
  BY DEF HandleData, IoIdle, TypeOK
<1>6. lcc' = IF Handle(io.at, io.frame).stores THEN io.frame.conf ELSE lcc
  BY DEF HandleData, CodeAfter
<1>7. StageInv'
  <2>1. SUFFICES ASSUME Called, lcc' = "OK", caller.call \notin carriedOut
                 PROVE  current_state \in AutoStates /\ ~Handle(io.at, io.frame).done
    BY <1>2, <1>3, <1>4, <1>5 DEF StageInv
  <2>2. CASE Handle(io.at, io.frame).stores
    <3>1. io.frame.conf = "OK"
      BY <1>6, <2>1, <2>2
    <3>2. caller.call > 0
      BY <2>1 DEF TurnInv, CallerInv, Called
    <3>3. current_state = "PsCancel" => ignoreConfirmation
      BY <1>4, <3>2 DEF TurnInv, WaitInv
    <3>4. current_state # "PsCancel"
      <4>1. SUFFICES ASSUME current_state = "PsCancel" PROVE FALSE
        OBVIOUS
      <4>2. Handle(io.at, io.frame) = PsCancelState(io.frame)
        BY <1>4, <4>1, HandleOf
      <4>3. ~PsCancelState(io.frame).stores
        BY <3>3, <4>1, HandlerOutcomes
      <4> QED BY <2>2, <4>2, <4>3
    <3>5. io.frame.call = caller.call
      BY <1>4, <3>4 DEF CallOf
    <3> QED BY <1>1, <1>2, <1>4, <2>1, <3>1, <3>5 DEF LastOk
  <2>3. CASE ~Handle(io.at, io.frame).stores
    <3>1. lcc = "OK" /\ current_state \in AutoStates
      BY <1>1, <1>6, <2>1, <2>3 DEF StageInv
    <3>2. CASE current_state = "PsAutoIdentify"
      <4>1. Handle(io.at, io.frame) = PsAutoIdentifyState(io.frame)
        BY <1>4, <3>2, HandleOf
      <4>2. PsAutoIdentifyState(io.frame).done => PsAutoIdentifyState(io.frame).stores
        BY DEF PsAutoIdentifyState, Outcome
      <4> QED BY <2>3, <3>1, <4>1, <4>2
    <3>3. CASE current_state = "PsAutoEnroll"
      <4>1. Handle(io.at, io.frame) = PsAutoEnrollState(io.frame)
        BY <1>4, <3>3, HandleOf
      <4>2. PsAutoEnrollState(io.frame).done => PsAutoEnrollState(io.frame).stores
        BY <3>1 DEF PsAutoEnrollState, Outcome
      <4> QED BY <2>3, <3>1, <4>1, <4>2
    <3> QED BY <3>1, <3>2, <3>3 DEF AutoStates
  <2> QED BY <2>2, <2>3
<1>8. LastOk' /\ SuccessIsOwn'
  BY <1>1, <1>2, <1>5 DEF LastOk, SuccessIsOwn
<1> QED BY <1>7, <1>8 DEF OwnInv

\* The I/O thread leaves a state only with the command's last packet.
LEMMA IoOwn ==
  ASSUME TypeOK, OwnInv, IoTransition \/ IoEnter
  PROVE  OwnInv'
<1>1. StageInv /\ LastOk /\ SuccessIsOwn
  BY DEF OwnInv
<1>2. /\ UNCHANGED <<lcc, caller, results, carriedOut>>
      /\ io.pc \notin {"idle", "handle"} /\ io'.pc # "handle"
  BY DEF IoTransition, IoEnter, history, IoIdle, TypeOK
<1>3. StageInv' /\ LastOk' /\ SuccessIsOwn'
  BY <1>1, <1>2 DEF StageInv, LastOk, SuccessIsOwn, Called
<1> QED BY <1>3 DEF OwnInv

\* The calling thread: when it moves, no stage is waited for.
LEMMA CallerOwn ==
  ASSUME QuietEnvironment, TypeOK, TurnInv, OwnInv,
         ClearCode \/ ClearFlag \/ EnqueueCall \/ AwaitReady \/ ReadResult
  PROVE  OwnInv'
<1>1. StageInv /\ LastOk /\ SuccessIsOwn
  BY DEF OwnInv
<1>2. UNCHANGED <<current_state, io, fsm, carriedOut>>
  BY DEF ClearCode, ClearFlag, EnqueueCall, AwaitReady, ReadResult, history
<1>3. ~Busy
  BY ClearCodeTurn, EnqueueCallTurn
     DEF TurnInv, CallerInv, ClearFlag, AwaitReady, ReadResult
<1>4. io.pc = "idle" /\ io'.pc = "idle" /\ current_state \notin AutoStates
  BY <1>2, <1>3 DEF Busy, TimedStates, DataStates, AutoStates
<1>5. LastOk'
  BY <1>4 DEF LastOk
<1>6. Called => ~(lcc = "OK" /\ caller.call \notin carriedOut)
  BY <1>1, <1>4 DEF StageInv
<1>7. CASE ClearCode
  BY <1>1, <1>2, <1>5, <1>7
     DEF ClearCode, ClearedCode, StageInv, SuccessIsOwn, OwnInv
<1>8. CASE ClearFlag \/ EnqueueCall \/ AwaitReady
  <2>1. UNCHANGED <<lcc, results>> /\ caller'.call = caller.call /\ Called
    BY <1>8 DEF ClearFlag, EnqueueCall, AwaitReady, TypeOK, Called
  <2> QED BY <1>1, <1>2, <1>5, <1>6, <2>1 DEF StageInv, SuccessIsOwn, OwnInv
<1>9. CASE ReadResult
  <2>1. /\ results' = [results EXCEPT ![caller.call] = lcc] /\ ~Called' /\ Called
    BY <1>9 DEF ReadResult, TypeOK, Called
  <2>2. SuccessIsOwn'
    BY <1>1, <1>2, <1>6, <2>1 DEF SuccessIsOwn, TypeOK
  <2> QED BY <1>5, <2>1, <2>2 DEF StageInv, OwnInv
<1> QED BY <1>7, <1>8, <1>9

\* At first nothing has succeeded.
LEMMA InitOwn == Init => OwnInv
BY DEF Init, OwnInv, StageInv, LastOk, SuccessIsOwn, IoIdle

\* Every step keeps a success the call's own.
LEMMA NextOwn ==
  QuietEnvironment /\ NoTransfers /\ TypeOK /\ TurnInv /\ OwnInv /\ [Next]_vars => OwnInv'
<1> SUFFICES ASSUME QuietEnvironment, NoTransfers, TypeOK, TurnInv, OwnInv, [Next]_vars
             PROVE  OwnInv'
  OBVIOUS
<1>1. CASE FsmThread
  BY <1>1, QuietOwn, HandleLoopOwn, NoReset DEF FsmThread
<1>2. CASE IoThread
  BY <1>2, HandleDataOwn, IoOwn DEF IoThread
<1>3. CASE CallReturns \/ ClearCode
  BY <1>3, CallerOwn, NoAwaitTimeout DEF CallReturns
<1>4. CASE AppEnqueue \/ IsrDetect \/ Expire \/ SensorSilent \/ UNCHANGED vars
  BY <1>4, QuietOwn, NoDetect
<1>5. CASE ReceiveFrame
  BY <1>5, ReceiveFrameOwn
<1> QED BY <1>1, <1>2, <1>3, <1>4, <1>5, Zenon DEF Next

\* A call returns ok() only if the module carried out the command of this very call.
THEOREM SuccessesAreOwn ==
  ASSUME QuietEnvironment, NoTransfers
  PROVE  Spec => []SuccessIsOwn
<1>1. OwnInv => SuccessIsOwn
  BY DEF OwnInv
<1> QED
  BY <1>1, InitTypeOK, NextTypeOK, InitTurn, NextTurn, InitOwn, NextOwn, PTL DEF Spec

------------------------------------------------------------------------------
(* The refinement. *)

\* Methods that transfer nothing read no parameter page.
LEMMA NoTransfersNoPage == NoTransfers => NoInfoPage
BY DEF NoTransfers, NoInfoPage, AutoStates

\* What the refinement rests on.
ServiceInv == TypeOK /\ TurnInv /\ RefusalInv /\ CompletionInv /\ OwnInv

\* The initial states are those of the service.
LEMMA InitService == Init => Service!Init
<1> SUFFICES ASSUME Init PROVE Service!Init
  OBVIOUS
<1>1. {c \in 1..MaxCalls : results[c] = "OK"} = {}
  BY DEF Init
<1> QED BY <1>1 DEF Init, Service!Init

\* A step that the caller does not see.
LEMMA ServiceStutters ==
  ASSUME UNCHANGED <<carriedOut, failed, results>>,
         caller'.call = caller.call, Called' <=> Called
  PROVE  UNCHANGED Service!vars
BY DEF Service!vars, Called

\* clearReadyFlag begins the service's call.
LEMMA ClearCodeServes ==
  ASSUME QuietEnvironment, ServiceInv, ClearCode
  PROVE  Service!Call
<1>1. /\ ~Called /\ Called' /\ caller.call < MaxCalls /\ caller'.call = caller.call + 1
      /\ UNCHANGED <<carriedOut, failed, results>>
  BY DEF ClearCode, history, Called
<1>2. caller.call \in Nat
  BY ConstantsAssumption DEF ServiceInv, TypeOK, CallIds
<1>3. caller'.call \notin carriedOut'
  BY <1>1, <1>2 DEF ServiceInv, RefusalInv, Made
<1> QED BY <1>1, <1>3 DEF Service!Call, Called

\* The packet that finishes the call's command serves it.
LEMMA ReceiveFrameServes ==
  ASSUME ServiceInv, ReceiveFrame
  PROVE  Service!Serve \/ UNCHANGED Service!vars
<1>1. UNCHANGED <<caller, failed, results>> /\ carriedOut \subseteq carriedOut'
  BY DEF ReceiveFrame
<1>2. CASE ~Called \/ caller.call \in carriedOut \ failed \/ caller.call \notin carriedOut' \ failed
  BY <1>1, <1>2 DEF Service!vars, Called
<1>3. CASE Called /\ caller.call \notin carriedOut \ failed /\ caller.call \in carriedOut' \ failed
  BY <1>1, <1>3 DEF Service!Serve, Called
<1> QED BY <1>2, <1>3

\* A refusal never takes back what has been served.
LEMMA HandleDataServes ==
  ASSUME ServiceInv, HandleData
  PROVE  UNCHANGED Service!vars
<1>1. UNCHANGED <<caller, carriedOut, results>> /\ io.pc = "handle"
  BY DEF HandleData
<1>2. \/ failed' = failed
      \/ /\ failed' = failed \union {caller.call} /\ Called
         /\ io.frame.pid = "ack" /\ io.frame.conf # "OK"
  BY DEF HandleData, Called
<1>3. CASE failed' = failed
  BY <1>1, <1>3, ServiceStutters DEF Called
<1>4. CASE /\ failed' = failed \union {caller.call} /\ Called
           /\ io.frame.pid = "ack" /\ io.frame.conf # "OK"
  <2>1. caller.call \notin carriedOut
    BY <1>1, <1>4 DEF ServiceInv, RefusalInv, RefusalEnds
  <2> QED BY <1>1, <1>4, <2>1 DEF Service!vars, Called
<1> QED BY <1>2, <1>3, <1>4

\* The call returns ok() if and only if it has been served.
LEMMA ReadResultServes ==
  ASSUME ServiceInv, ReadResult
  PROVE  Service!Return
<1>1. /\ Called /\ ~Called' /\ caller'.call = caller.call
      /\ UNCHANGED <<carriedOut, failed>>
      /\ results' = [results EXCEPT ![caller.call] = lcc]
  BY DEF ReadResult, history, Called, ServiceInv, TypeOK
<1>2. io.pc = "idle" /\ current_state \notin AutoStates /\ caller.call \in 1..MaxCalls
  BY <1>1, ConstantsAssumption
     DEF ServiceInv, TurnInv, CallerInv, Busy, ReadResult, TimedStates, DataStates,
         AutoStates, Called, TypeOK, CallIds
<1>3. lcc = "OK" <=> caller.call \in carriedOut \ failed
  <2>1. lcc = "OK" => caller.call \in carriedOut
    BY <1>1, <1>2 DEF ServiceInv, OwnInv, StageInv
  <2>2. lcc = "OK" => caller.call \notin failed
    BY <1>1 DEF ServiceInv, RefusalInv, RefusedInv
  <2>3. caller.call \in carriedOut \ failed => lcc = "OK"
    BY <1>1, <1>2 DEF ServiceInv, CompletionInv, CompletedInv
  <2> QED BY <2>1, <2>2, <2>3
<1>4. results[caller.call] = "none"
  BY <1>1, <1>2 DEF ServiceInv, RefusalInv, Made
<1>5. \A c \in 1..MaxCalls : results'[c] = IF c = caller.call THEN lcc ELSE results[c]
  BY <1>1 DEF ServiceInv, TypeOK
<1>6. {c \in 1..MaxCalls : results'[c] = "OK"} =
        IF caller.call \in carriedOut \ failed
        THEN {c \in 1..MaxCalls : results[c] = "OK"} \union {caller.call}
        ELSE {c \in 1..MaxCalls : results[c] = "OK"}
  BY <1>2, <1>3, <1>4, <1>5
<1> QED BY <1>1, <1>6 DEF Service!Return, Called

\* Every step of the machine, its environment and its caller is a step of the service.
LEMMA NextService ==
  QuietEnvironment /\ ServiceInv /\ [Next]_vars => [Service!Next]_(Service!vars)
<1> SUFFICES ASSUME QuietEnvironment, ServiceInv, [Next]_vars
             PROVE  Service!Next \/ UNCHANGED Service!vars
  OBVIOUS
<1>1. CASE FsmThread \/ IoTransition \/ IoEnter
  <2>1. UNCHANGED <<carriedOut, failed, results, caller>>
    BY <1>1 DEF FsmThread, IoTransition, IoEnter, Dequeue, DequeueEmpty, Transition,
                EnterTimed, EnterUntimed, EnterReset, ResetReturns, VisitLoop, HandleLoop,
                history
  <2> QED BY <2>1, ServiceStutters DEF Called
<1>2. CASE HandleData
  BY <1>2, HandleDataServes
<1>3. CASE ClearFlag \/ EnqueueCall \/ AwaitReady
  <2>1. /\ UNCHANGED <<carriedOut, failed, results>> /\ caller'.call = caller.call
        /\ Called' <=> Called
    BY <1>3 DEF ClearFlag, EnqueueCall, AwaitReady, history, Called, ServiceInv, TypeOK
  <2> QED BY <2>1, ServiceStutters
<1>4. CASE AwaitTimeout
  BY <1>4, NoAwaitTimeout DEF ServiceInv
<1>5. CASE ReadResult
  BY <1>5, ReadResultServes DEF Service!Next
<1>6. CASE ClearCode
  BY <1>6, ClearCodeServes DEF Service!Next
<1>7. CASE ReceiveFrame
  BY <1>7, ReceiveFrameServes DEF Service!Next
<1>8. CASE AppEnqueue \/ IsrDetect \/ Expire \/ SensorSilent \/ UNCHANGED vars
  <2>1. UNCHANGED <<carriedOut, failed, results, caller>>
    BY <1>8 DEF AppEnqueue, IsrDetect, Expire, SensorSilent, vars, hostVars, history
  <2> QED BY <2>1, ServiceStutters DEF Called
<1> QED
  BY <1>1, <1>2, <1>3, <1>4, <1>5, <1>6, <1>7, <1>8, Zenon
     DEF Next, IoThread, CallReturns

\* The machine, its threads, deadlines and cancels hidden, is the command service: it
\* carries out one command at a time and returns ok() exactly when it did.  (The
\* service's progress is ImplementsService's other half.)
THEOREM MachineServes ==
  ASSUME QuietEnvironment, NoTransfers
  PROVE  Spec => Service!Init /\ [][Service!Next]_(Service!vars)
<1>1. NoInfoPage
  BY NoTransfersNoPage
<1>2. Init => ServiceInv
  BY InitTypeOK, InitTurn, InitRefusal, InitCompletion, InitOwn DEF ServiceInv
<1>3. ServiceInv /\ [Next]_vars => ServiceInv'
  <2> SUFFICES ASSUME ServiceInv, [Next]_vars PROVE ServiceInv'
    OBVIOUS
  <2>1. TypeOK' /\ TurnInv'
    BY NextTypeOK, NextTurn DEF ServiceInv
  <2>2. RefusalInv'
    BY <2>1, NextRefusal DEF ServiceInv
  <2>3. CompletionInv'
    BY <1>1, <2>1, NextCompletion DEF ServiceInv
  <2>4. OwnInv'
    BY NextOwn DEF ServiceInv
  <2> QED BY <2>1, <2>2, <2>3, <2>4 DEF ServiceInv
<1> QED BY <1>2, <1>3, InitService, NextService, PTL DEF Spec

================================================================================
