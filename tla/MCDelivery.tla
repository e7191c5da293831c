------------------------------ MODULE MCDelivery ------------------------------
(***************************************************************************)
(* How messages wait, for TLC: in the mailbox of a service (MessageQueue), *)
(* or, when they are to come later, in the timing wheel (Timer).  The two  *)
(* share no state; each behaviour is one of the part that was chosen at    *)
(* its start, and the other part stays as it was created.                  *)
(***************************************************************************)
EXTENDS MessageQueue, Timer

VARIABLE part

(* Every delay that an int of the scaled width holds. *)
AllDelays == 0 .. Width \div 2 - 1

DeliveryInit == part \in {"mailbox", "timer"} /\ MQInit /\ WheelInit

DeliveryNext == \/ part = "mailbox" /\ MQNext /\ UNCHANGED <<part, wheelVars>>
                \/ part = "timer" /\ WheelNext /\ UNCHANGED <<part, mqVars>>

(* thread_timer keeps running. *)
DeliverySpec == /\ DeliveryInit /\ [][DeliveryNext]_<<part, mqVars, wheelVars>>
                /\ WF_wheelVars(part = "timer" /\ TimerThread)
=============================================================================
