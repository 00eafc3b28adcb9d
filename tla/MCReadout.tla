------------------------------ MODULE MCReadout ------------------------------
(***************************************************************************)
(* Instances of Readout for TLC.                                           *)
(***************************************************************************)
EXTENDS Readout

AllKinds == Uploads \union Readers \union {"readSysPara"}

==============================================================================
