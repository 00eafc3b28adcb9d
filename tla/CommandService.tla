---------------------------- MODULE CommandService ----------------------------
(***************************************************************************)
(* What a SensorHiLinkZw0608 promises to the thread that calls its         *)
(* methods, whatever states, threads and packets it takes: the methods are *)
(* executed one after the other, the module serves a command at most once, *)
(* a method returns, and it returns ok() exactly when its own command has  *)
(* been served in the meantime.                                            *)
(***************************************************************************)
EXTENDS Naturals

CONSTANT MaxCalls   \* bound: API calls in a behaviour

VARIABLES
  busy,       \* a method is waiting
  call,       \* the number of the latest method call
  served,     \* the module has carried out the waiting method's command
  succeeded   \* the calls that returned ok()

vars == <<busy, call, served, succeeded>>

Init == busy = FALSE /\ call = 0 /\ served = FALSE /\ succeeded = {}

\* A method enqueues its command.
Call ==
  /\ ~busy /\ call < MaxCalls
  /\ busy' = TRUE /\ call' = call + 1 /\ served' = FALSE
  /\ UNCHANGED succeeded

\* The module carries out the waiting method's command.
Serve ==
  /\ busy /\ ~served
  /\ served' = TRUE
  /\ UNCHANGED <<busy, call, succeeded>>

\* ok() if and only if the command has been served; otherwise err(...), for a
\* refusal and for a time-out alike.
Return ==
  /\ busy
  /\ busy' = FALSE /\ served' = FALSE
  /\ succeeded' = IF served THEN succeeded \union {call} ELSE succeeded
  /\ UNCHANGED call

Next == Call \/ Serve \/ Return

Spec == Init /\ [][Next]_vars /\ WF_vars(Return)
===============================================================================
