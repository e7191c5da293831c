---------------------------- MODULE MessageQueue ----------------------------
(***************************************************************************)
(* The mailbox of one service (struct message_queue of skynet_mq.c): a     *)
(* ring buffer that doubles when it is full, with the overload warning and *)
(* the in_global flag.  Every function of it runs under the spinlock of    *)
(* the queue and is one action here.  What happens to a queue once it is   *)
(* in the global queue is the subject of module Dispatch.                  *)
(***************************************************************************)
EXTENDS Naturals, Sequences

CONSTANTS Msg,              \* the messages
          NoMsg,            \* the answer of a pop that finds nothing
          DefaultQueueSize, \* DEFAULT_QUEUE_SIZE, 64 in the code
          MQOverload,       \* MQ_OVERLOAD, 1024 in the code
          MaxLength         \* bound: no push beyond this many messages

ASSUME NoMsgAssumption == NoMsg \notin Msg
ASSUME SizeAssumption == /\ DefaultQueueSize \in Nat \ {0}
                         /\ MQOverload \in Nat \ {0}
                         /\ MaxLength \in Nat

VARIABLES cap, head, tail,  \* the int fields of the same names
          queue,            \* the array, a function on 0 .. cap - 1
          in_global,        \* the flag MQ_IN_GLOBAL
          overload, overload_threshold,
          got,              \* the message the last skynet_mq_pop copied out
          len               \* the last result of skynet_mq_length

ring == <<cap, head, tail, queue>>
mqVars == <<ring, in_global, overload, overload_threshold, got, len>>

-----------------------------------------------------------------------------
(* skynet_mq_create *)
MQInit == /\ cap = DefaultQueueSize
          /\ head = 0
          /\ tail = 0
          /\ queue = [i \in 0 .. cap - 1 |-> NoMsg]
          /\ in_global = TRUE
          /\ overload = 0
          /\ overload_threshold = MQOverload
          /\ got = NoMsg
          /\ len = 0

(* Mutant: the index runs one past the end of the array. *)
WrapLate(k) == IF k > cap THEN k - cap ELSE k

(* Index k of an array of cap entries, for k < 2 * cap. *)
Wrap(k) == IF k >= cap THEN k - cap ELSE k

(* skynet_mq_length *)
RingLength == IF head <= tail THEN tail - head ELSE tail + cap - head

Length == len' = RingLength /\ UNCHANGED <<ring, in_global, overload, overload_threshold, got>>

(* Mutant: expand_queue copies the array as it lies. *)
ExpandInPlace(q) == [i \in 0 .. 2 * cap - 1 |-> IF i < cap THEN q[i] ELSE NoMsg]

(* expand_queue: the array of twice the size, unwrapped to start at 0. *)
Expand(q) == [i \in 0 .. 2 * cap - 1 |-> IF i < cap THEN q[Wrap(head + i)] ELSE NoMsg]

(* skynet_mq_push: store, step tail, and double the ring it has just filled. *)
PushRing(m) ==
    LET stored == [queue EXCEPT ![tail] = m]
    IN  IF Wrap(tail + 1) = head
        THEN /\ queue' = Expand(stored)
             /\ head' = 0
             /\ tail' = cap
             /\ cap' = 2 * cap
        ELSE /\ queue' = stored
             /\ tail' = Wrap(tail + 1)
             /\ UNCHANGED <<cap, head>>

Push(m) ==
    /\ RingLength < MaxLength
    /\ PushRing(m)
    /\ in_global' = TRUE
    /\ UNCHANGED <<overload, overload_threshold, got, len>>

(* Mutant: the loop is an if. *)
RaisedOnce(t, length) == IF length > t THEN t * 2 ELSE t

(* The loop of skynet_mq_pop that doubles the threshold until it is not    *)
(* below the length.  The doublings are bounded by the length itself.      *)
Raised(t, length) ==
    LET doubled[k \in 0 .. length] == IF k = 0 THEN t ELSE doubled[k - 1] * 2
    IN  doubled[CHOOSE k \in 0 .. length :
                    length <= doubled[k] /\ \A j \in 0 .. k - 1 : length > doubled[j]]

(* The length after a pop, as skynet_mq_pop computes it from the new head. *)
LengthAfterPop == LET h == Wrap(head + 1)
                  IN  IF tail >= h THEN tail - h ELSE tail - h + cap

PopMessage ==
    /\ head # tail
    /\ got' = queue[head]
    /\ head' = Wrap(head + 1)
    /\ overload' = IF LengthAfterPop > overload_threshold THEN LengthAfterPop ELSE overload
    /\ overload_threshold' = Raised(overload_threshold, LengthAfterPop)
    /\ UNCHANGED <<cap, tail, queue, in_global, len>>

(* skynet_mq_pop on an empty queue: the queue leaves the scheduler. *)
PopEmpty ==
    /\ head = tail
    /\ got' = NoMsg
    /\ in_global' = FALSE
    /\ overload_threshold' = MQOverload
    /\ UNCHANGED <<ring, overload, len>>

(* skynet_mq_overload: the worker takes the recorded length once. *)
TakeOverload ==
    /\ overload # 0
    /\ overload' = 0
    /\ UNCHANGED <<ring, in_global, overload_threshold, got, len>>

MQNext == (\E m \in Msg : Push(m)) \/ PopMessage \/ PopEmpty \/ Length \/ TakeOverload

MQSpec == MQInit /\ [][MQNext]_mqVars

-----------------------------------------------------------------------------
(* The content of the ring as a sequence: the refinement mapping. *)
Content == [k \in 1 .. RingLength |-> queue[Wrap(head + k - 1)]]

(***************************************************************************)
(* Every index the code computes without a check is an index of the array  *)
(* that is allocated at that moment, and the slots from head up to tail    *)
(* hold messages: a pop never returns an entry nobody stored.              *)
(***************************************************************************)
RingInv == /\ cap \in Nat \ {0}
           /\ head \in 0 .. cap - 1
           /\ tail \in 0 .. cap - 1
           /\ queue \in [0 .. cap - 1 -> Msg \cup {NoMsg}]
           /\ \A k \in 0 .. RingLength - 1 : queue[Wrap(head + k)] \in Msg

(***************************************************************************)
(* A queue outside the scheduler holds nothing, and it starts from         *)
(* MQ_OVERLOAD again: no message waits where no worker will look, and a    *)
(* burst after an idle time is reported like the first one.                *)
(***************************************************************************)
IdleQueue == ~in_global => head = tail /\ overload_threshold = MQOverload

Fifo == INSTANCE FifoQueue WITH msgs <- Content, busy <- in_global

(***************************************************************************)
(* The ring buffer implements a FIFO mailbox: wrapping, doubling in place  *)
(* and the overload bookkeeping neither lose, reorder nor repeat messages. *)
(***************************************************************************)
ImplementsFifo == Fifo!Spec

(***************************************************************************)
(* A pop that leaves more messages than the threshold records their number *)
(* for the "May overload" log and raises the threshold to cover it, so the *)
(* next warning needs a longer queue; the threshold comes down only on a   *)
(* queue that has been drained, and then to MQ_OVERLOAD.                   *)
(***************************************************************************)
OverloadCovered ==
    [][ /\ Len(Content') < Len(Content) =>
               /\ Len(Content') <= overload_threshold'
               /\ Len(Content') > overload_threshold => overload' = Len(Content')
        /\ overload' \notin {0, overload} => overload' > overload_threshold
        /\ overload_threshold' < overload_threshold =>
               Content = <<>> /\ overload_threshold' = MQOverload ]_mqVars
=============================================================================
