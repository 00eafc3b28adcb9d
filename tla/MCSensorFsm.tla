----------------------------- MODULE MCSensorFsm -----------------------------
(***************************************************************************)
(* Instances of SensorFsm for TLC.  A method is represented by the type of *)
(* the event it enqueues: the two dozen methods that enqueue a             *)
(* CommandEvent differ in data the machine never looks at.                 *)
(***************************************************************************)
EXTENDS SensorFsm

\* One method of each shape whose answer is a packet or a sequence of stages.
StageKinds == {"Command", "PsReadSysPara", "PsAutoEnroll", "PsAutoIdentify"}

\* The methods that transfer data behind a confirmation.
TransferKinds == {"PsUpChar", "PsUpImage"}

AllKinds == StageKinds \union TransferKinds

\* `fp start'.
Start == {"HandShake"}

\* The events the public enqueueEvent lets an application add by itself, apart
\* from Reset, which cuts off whatever is under way.
AnyEvents == {"HandShake", "PsCancel", "PsDownImage", "GetChipSn",
              "InitOkReceived", "Error"}

==============================================================================
