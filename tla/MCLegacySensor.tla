---------------------------- MODULE MCLegacySensor ----------------------------
(***************************************************************************)
(* Instances of LegacySensor for TLC: a confirmation of twelve bytes, the  *)
(* wake-up byte, and a byte that means nothing.                            *)
(***************************************************************************)
EXTENDS LegacySensor

Ack == <<239, 1, 255, 255, 255, 255, 7, 0, 3, 0, 0, 10>>

SomeMessages == {Ack, <<85>>, <<0>>}

===============================================================================
