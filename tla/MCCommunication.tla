-------------------------- MODULE MCCommunication --------------------------
(* The instance of Communication for TLC. *)
EXTENDS Communication

(* Two output CDs linked to one input CD, one of them to itself as well. *)
MCRoutes == [q \in {"out1", "out2"} |->
               IF q = "out1" THEN <<"out1", "in1">> ELSE <<"in1">>]

(* The input CD is read message by message, the output CD in both modes. *)
MCModes == [q \in Queues |-> IF q = "in1" THEN {"Message"} ELSE {"Message", "Segment"}]
=============================================================================
