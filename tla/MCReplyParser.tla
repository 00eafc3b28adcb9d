---------------------------- MODULE MCReplyParser ----------------------------
(***************************************************************************)
(* Instances of ReplyParser for TLC: a confirmation, a refusal, a stage of *)
(* an enrolment, a packet whose checksum is 16#0100, and data that looks   *)
(* like a header and a wake-up byte.                                       *)
(***************************************************************************)
EXTENDS ReplyParser

Ack(data) == [packageId |-> 7, data |-> data]

SomePackets == {Ack(<<0>>), Ack(<<2>>), Ack(<<0, 1, 1>>), Ack(<<0, 18, 226>>),
                [packageId |-> 2, data |-> <<239, 1, 85, 255>>],
                [packageId |-> 8, data |-> <<1, 239, 1>>]}

Acks == {Ack(<<0>>), Ack(<<2>>)}

SomeNoise == {0, 1, 85, 239, 255}

==============================================================================
