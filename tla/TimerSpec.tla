------------------------------ MODULE TimerSpec ------------------------------
(***************************************************************************)
(* What skynet_timeout promises: a timer set for d > 0 ticks is delivered  *)
(* by the d-th tick after, once; timers due at the same tick are delivered *)
(* in the order they were set; a timer of 0 or less is delivered at once.  *)
(***************************************************************************)
EXTENDS Integers, Sequences

CONSTANTS MaxTimers,    \* timers are numbered 1 .. MaxTimers in the order they are set
          Delay         \* the delays that are asked for

VARIABLES count,        \* timers set so far
          left,         \* ticks left, for each timer that waits
          due,          \* timers whose tick has come, still to be delivered
          out           \* timers delivered, in order

vars == <<count, left, due, out>>

Init == count = 0 /\ left = <<>> /\ due = <<>> /\ out = <<>>

Set(d) ==
    /\ count < MaxTimers
    /\ count' = count + 1
    /\ IF d <= 0 THEN out' = Append(out, count') /\ UNCHANGED left
       ELSE /\ left' = [i \in DOMAIN left \cup {count'} |-> IF i = count' THEN d ELSE left[i]]
            /\ UNCHANGED out
    /\ UNCHANGED due

(* The numbers of a set from the least to the greatest *)
IsInOrder(list, S) == /\ list \in Seq(S) /\ S = {list[k] : k \in DOMAIN list}
                      /\ \A k, l \in DOMAIN list : k < l => list[k] < list[l]

Tick ==
    /\ due = <<>>
    /\ left' = [i \in {j \in DOMAIN left : left[j] > 1} |-> left[i] - 1]
    /\ IsInOrder(due', {j \in DOMAIN left : left[j] = 1})
    /\ UNCHANGED <<count, out>>

Deliver ==
    /\ due # <<>>
    /\ out' = Append(out, Head(due))
    /\ due' = Tail(due)
    /\ UNCHANGED <<count, left>>

Next == (\E d \in Delay : Set(d)) \/ Tick \/ Deliver

Spec == Init /\ [][Next]_vars
=============================================================================
