-------------------------------- MODULE Timer --------------------------------
(***************************************************************************)
(* The timing wheel of skynet_timer.c: a ring of near slots, one per tick  *)
(* of the current near block, and four rings of coarser levels whose lists *)
(* are spread over the finer ones when their block begins.  The clock of   *)
(* the wheel is an unsigned word that wraps.                               *)
(*                                                                         *)
(* Between SPIN_LOCK and SPIN_UNLOCK is one action.  The timer thread      *)
(* gives up the lock to deliver a list, and any worker may add a timer     *)
(* then.                                                                   *)
(***************************************************************************)
EXTENDS Integers, Sequences

CONSTANTS Near,         \* TIME_NEAR, 2^8 in the code
          Level,        \* TIME_LEVEL, 2^6 in the code
          MaxTimers,    \* bound: timers set in a behaviour, numbered in order
          Delay,        \* the delays skynet_timeout is called with
          MaxDiff       \* bound: ticks that one skynet_updatetime catches up

(* The ticks in a block of level i; level -1 is the near block. *)
Size(i) == Near * <<1, Level, Level * Level, Level * Level * Level, Level * Level * Level * Level>>[i + 2]

Width == Size(3)        \* 2^32 in the code

(* A delay is an int, which is less than half of the clock. *)
ASSUME TimerAssumption ==
    /\ Near \in Nat \ {0} /\ Level \in Nat \ {0, 1}
    /\ MaxTimers \in Nat /\ MaxDiff \in Nat
    /\ Delay \subseteq Int /\ \A d \in Delay : 2 * d < Width

VARIABLES time,         \* T->time
          wheel,        \* T->near and T->t: a list of [id, expire] for each slot
          cur,          \* the list dispatch_list is going through
          phase,        \* the timer thread: "idle", "first" or "second" timer_execute
          diff,         \* ticks skynet_updatetime has still to run, this one included
          count,        \* timers set so far
          out           \* timers delivered, in order

wheelVars == <<time, wheel, cur, phase, diff, count, out>>

(* near[k] is slot <<-1, k>>, t[i][k] is slot <<i, k>>. *)
Slot == ({-1} \X (0 .. Near - 1)) \cup ((0 .. 3) \X (0 .. Level - 1))

(* timer_create_timer *)
WheelInit == /\ time = 0
             /\ wheel = [s \in Slot |-> <<>>]
             /\ cur = <<>>
             /\ phase = "idle"
             /\ diff = 0
             /\ count = 0
             /\ out = <<>>

-----------------------------------------------------------------------------
(* The block of level i that a time lies in *)
Block(time0, i) == time0 \div Size(i)

(* The index of a time in the ring of level i. *)
Index(time0, i) == Block(time0, i - 1) % Level

(* Mutant: the level is one too low for a time beyond the last block. *)
SlotOfShort(expire, now) ==
    IF Block(expire, -1) = Block(now, -1) THEN <<-1, expire % Near>>
    ELSE LET i == CHOOSE i \in 0 .. 2 : /\ Block(expire, i) = Block(now, i) \/ i = 2
                                        /\ \A j \in 0 .. i - 1 : Block(expire, j) # Block(now, j)
         IN  <<i, Index(expire, i)>>

(* add_node: the finest ring whose block holds both times, level 3 if none. *)
SlotOf(expire, now) ==
    IF Block(expire, -1) = Block(now, -1) THEN <<-1, expire % Near>>
    ELSE LET i == CHOOSE i \in 0 .. 3 : /\ Block(expire, i) = Block(now, i) \/ i = 3
                                        /\ \A j \in 0 .. i - 1 : Block(expire, j) # Block(now, j)
         IN  <<i, Index(expire, i)>>

AddNode(w, node, now) == [w EXCEPT ![SlotOf(node.expire, now)] = Append(@, node)]

(* move_list: empty one slot and add its nodes again, in order. *)
MoveList(w, s, now) ==
    LET moved[k \in 0 .. Len(w[s])] == IF k = 0 THEN [w EXCEPT ![s] = <<>>]
                                       ELSE AddNode(moved[k - 1], w[s][k], now)
    IN  moved[Len(w[s])]

(* Mutant: the wrap of the clock is not a case of its own. *)
ShiftNoWrap(ct) ==
    IF ct % Near # 0 \/ ct = 0 THEN wheel
    ELSE LET i == CHOOSE i \in 0 .. 3 : /\ Index(ct, i) # 0
                                        /\ \A j \in 0 .. i - 1 : Index(ct, j) = 0
         IN  MoveList(wheel, <<i, Index(ct, i)>>, ct)

(* timer_shift: the ring whose block begins at ct is spread. *)
Shift(ct) ==
    IF ct = 0 THEN MoveList(wheel, <<3, 0>>, ct)
    ELSE IF ct % Near # 0 THEN wheel
    ELSE LET i == CHOOSE i \in 0 .. 3 : /\ Index(ct, i) # 0
                                        /\ \A j \in 0 .. i - 1 : Index(ct, j) = 0
         IN  MoveList(wheel, <<i, Index(ct, i)>>, ct)

-----------------------------------------------------------------------------
(* skynet_timeout, called by a service through cmd_timeout; timer_add *)
Timeout(d) ==
    /\ count < MaxTimers
    /\ count' = count + 1
    /\ IF d <= 0
       THEN out' = Append(out, count') /\ UNCHANGED wheel
       ELSE /\ wheel' = AddNode(wheel, [id |-> count', expire |-> (time + d) % Width], time)
            /\ UNCHANGED out
    /\ UNCHANGED <<time, cur, phase, diff>>

(* Mutant: the loop over the ticks that have passed begins at 1. *)
UpdateTimeShort ==
    /\ phase = "idle" /\ diff = 0
    /\ diff' \in 0 .. MaxDiff - 1
    /\ UNCHANGED <<time, wheel, cur, phase, count, out>>

(* skynet_updatetime: the monotonic clock has moved on by some ticks. *)
UpdateTime ==
    /\ phase = "idle" /\ diff = 0
    /\ diff' \in 1 .. MaxDiff
    /\ UNCHANGED <<time, wheel, cur, phase, count, out>>

NowSlot(t) == <<-1, t % Near>>

(* timer_execute has found a list: take it and give up the lock. *)
Take(w, t, turn) ==
    /\ cur' = w[NowSlot(t)]
    /\ wheel' = [w EXCEPT ![NowSlot(t)] = <<>>]
    /\ phase' = turn

(* ++T->time, timer_shift, and the list of the new tick *)
ShiftTime ==
    LET ct == (time + 1) % Width
    IN  time' = ct /\ Take(Shift(ct), ct, "second")

(* timer_update, up to the first list it delivers *)
TimerUpdate ==
    /\ phase = "idle" /\ diff > 0
    /\ IF wheel[NowSlot(time)] # <<>> THEN Take(wheel, time, "first") /\ UNCHANGED time
                                      ELSE ShiftTime
    /\ UNCHANGED <<diff, count, out>>

(* dispatch_list, one skynet_context_push at a time and without the lock *)
DispatchList ==
    /\ cur # <<>>
    /\ out' = Append(out, Head(cur).id)
    /\ cur' = Tail(cur)
    /\ UNCHANGED <<time, wheel, phase, diff, count>>

(* The lock is taken back; timer_execute looks at the slot again. *)
Again ==
    /\ phase # "idle" /\ cur = <<>>
    /\ IF wheel[NowSlot(time)] # <<>>
       THEN Take(wheel, time, phase) /\ UNCHANGED <<time, diff>>
       ELSE IF phase = "first"
       THEN ShiftTime /\ UNCHANGED diff
       ELSE /\ phase' = "idle" /\ diff' = diff - 1
            /\ UNCHANGED <<time, wheel, cur>>
    /\ UNCHANGED <<count, out>>

TimerThread == UpdateTime \/ TimerUpdate \/ DispatchList \/ Again

WheelNext == (\E d \in Delay : Timeout(d)) \/ TimerThread

(* thread_timer never stops calling skynet_updatetime, and time goes on. *)
WheelSpec == WheelInit /\ [][WheelNext]_wheelVars /\ WF_wheelVars(TimerThread)

-----------------------------------------------------------------------------
(* The nodes that wait in the wheel. *)
Held(w) == UNION {{w[s][k] : k \in DOMAIN w[s]} : s \in Slot}
Waiting == Held(wheel)

Remaining ==
    [i \in {n.id : n \in Waiting} |->
        ((CHOOSE n \in Waiting : n.id = i).expire - time) % Width]

Ids(list) == [k \in DOMAIN list |-> list[k].id]

Abstract == INSTANCE TimerSpec WITH left <- Remaining, due <- Ids(cur)

(***************************************************************************)
(* The wheel implements the promise of skynet_timeout: every timer is      *)
(* delivered at exactly the tick it was set for, once, across the levels   *)
(* and across the wrap of the clock, and timers of one tick come in the    *)
(* order they were set.                                                    *)
(***************************************************************************)
ImplementsTimeouts == Abstract!Spec

(***************************************************************************)
(* Where add_node put a node is where timer_shift will look for it: a node *)
(* of level i lies in a block of that ring that has not begun yet, in the  *)
(* block of the ring above that is under way (after the wrap for level 3). *)
(***************************************************************************)
WheelInv ==
    \A s \in Slot : \A k \in DOMAIN wheel[s] :
        LET e == wheel[s][k].expire
        IN  /\ (e - time) % Width \in 1 .. Width \div 2
            /\ s = SlotOf(e, time)

(***************************************************************************)
(* Every timer that is set is delivered: when no more are set, as happens  *)
(* after MaxTimers at the latest, nothing is left in the wheel.            *)
(***************************************************************************)
EventuallyDelivered == []<>(Len(out) = count)
=============================================================================
