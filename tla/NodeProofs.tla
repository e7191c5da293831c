------------------------------ MODULE NodeProofs ------------------------------
(***************************************************************************)
(* Proofs about the parts of a node that services are found and run by:    *)
(* the mailbox of a service (MessageQueue), for every message set, initial *)
(* size, warning threshold and bound on the length; the threads that sleep *)
(* and wake (Scheduler), for every number of workers, of services and of   *)
(* mailboxes; the table of handles (HandleStorage), for every number of    *)
(* contexts, launchers and handles; and the timing wheel (Timer), for      *)
(* rings of every size.                                                    *)
(***************************************************************************)
EXTENDS MessageQueue, Scheduler, HandleStorage, Timer, SequenceTheorems, FiniteSetTheorems, WellFoundedInduction, TLAPS

-----------------------------------------------------------------------------
(* The ring of a mailbox. *)

(* The ring is never full: one slot separates tail from head. *)
LEMMA RingLengthBound == RingInv => RingLength \in 0 .. cap - 1
  BY DEF RingInv, RingLength

(* An index within twice the capacity wraps to an index of the array. *)
LEMMA WrapType == ASSUME RingInv, NEW k \in 0 .. 2 * cap - 1
                  PROVE  Wrap(k) \in 0 .. cap - 1
  BY DEF RingInv, Wrap

(* The content of the ring is a sequence of messages, as long as           *)
(* skynet_mq_length says, that starts at head.                             *)
ContentFacts == /\ Content \in Seq(Msg)
                /\ Len(Content) = RingLength
                /\ \A k \in 1 .. RingLength : Content[k] = queue[Wrap(head + k - 1)]

(* These facts follow from the invariant of the ring. *)
LEMMA ContentSeq == RingInv => ContentFacts
<1> SUFFICES ASSUME RingInv PROVE ContentFacts
  OBVIOUS
<1>1. RingLength \in Nat
  BY RingLengthBound DEF RingInv
<1>2. \A k \in 1 .. RingLength : queue[Wrap(head + k - 1)] \in Msg
  <2> TAKE k \in 1 .. RingLength
  <2>1. k - 1 \in 0 .. RingLength - 1 /\ head + (k - 1) = head + k - 1
    BY <1>1 DEF RingInv
  <2> QED  BY <2>1 DEF RingInv
<1>3. Content \in [1 .. RingLength -> Msg]
  BY <1>2 DEF Content
<1> QED  BY <1>1, <1>3 DEF Content, ContentFacts

(* skynet_mq_create leaves an empty ring. *)
LEMMA RingInvInit == MQInit => RingInv
  BY SizeAssumption DEF MQInit, RingInv, RingLength

(* A push that leaves room puts the message behind the others. *)
LEMMA PushRoom ==
    ASSUME RingInv, NEW m \in Msg, PushRing(m), Wrap(tail + 1) # head
    PROVE  /\ RingInv'
           /\ RingLength' = RingLength + 1
           /\ \A k \in 0 .. RingLength : queue'[Wrap(head + k)'] =
                 IF k < RingLength THEN queue[Wrap(head + k)] ELSE m
<1>1. /\ cap' = cap /\ head' = head /\ tail' = Wrap(tail + 1)
      /\ queue' = [queue EXCEPT ![tail] = m]
  BY DEF PushRing
<1>2. RingLength' = RingLength + 1
  BY <1>1 DEF RingInv, RingLength, Wrap
<1>3. /\ cap' \in Nat \ {0} /\ head' \in 0 .. cap' - 1 /\ tail' \in 0 .. cap' - 1
      /\ queue' \in [0 .. cap' - 1 -> Msg \cup {NoMsg}]
  BY <1>1 DEF RingInv, Wrap
<1>4. ASSUME NEW k \in 0 .. RingLength
      PROVE  queue'[Wrap(head + k)'] = IF k < RingLength THEN queue[Wrap(head + k)] ELSE m
  <2>1. Wrap(head + k)' = Wrap(head + k) /\ Wrap(head + k) \in 0 .. cap - 1
    BY <1>1 DEF RingInv, RingLength, Wrap
  <2>2. Wrap(head + k) = tail <=> k = RingLength
    BY DEF RingInv, RingLength, Wrap
  <2> QED  BY <1>1, <2>1, <2>2, RingLengthBound DEF RingInv
<1>5. ASSUME NEW k \in 0 .. RingLength' - 1
      PROVE  queue'[Wrap(head + k)'] \in Msg
  <2>1. k \in 0 .. RingLength /\ (k < RingLength => k \in 0 .. RingLength - 1)
    BY <1>2, RingLengthBound DEF RingInv
  <2> QED  BY <1>4, <2>1 DEF RingInv
<1> QED  BY <1>2, <1>3, <1>4, <1>5 DEF RingInv

(* So does a push that fills the ring and doubles it. *)
LEMMA PushFull ==
    ASSUME RingInv, NEW m \in Msg, PushRing(m), Wrap(tail + 1) = head
    PROVE  /\ RingInv'
           /\ RingLength' = RingLength + 1
           /\ \A k \in 0 .. RingLength : queue'[Wrap(head + k)'] =
                 IF k < RingLength THEN queue[Wrap(head + k)] ELSE m
<1> DEFINE stored == [queue EXCEPT ![tail] = m]
<1>1. /\ cap' = 2 * cap /\ head' = 0 /\ tail' = cap
      /\ queue' = [i \in 0 .. 2 * cap - 1 |-> IF i < cap THEN stored[Wrap(head + i)] ELSE NoMsg]
  BY DEF PushRing, Expand
<1>2. RingLength = cap - 1 /\ RingLength' = cap
  BY <1>1 DEF RingInv, RingLength, Wrap
<1>3. /\ cap' \in Nat \ {0} /\ head' \in 0 .. cap' - 1 /\ tail' \in 0 .. cap' - 1
  BY <1>1 DEF RingInv
<1>4. stored \in [0 .. cap - 1 -> Msg \cup {NoMsg}]
  BY DEF RingInv
<1>5. queue' \in [0 .. cap' - 1 -> Msg \cup {NoMsg}]
  <2>1. \A i \in 0 .. cap - 1 : Wrap(head + i) \in 0 .. cap - 1
    BY DEF RingInv, Wrap
  <2>2. \A i \in 0 .. 2 * cap - 1 :
           (IF i < cap THEN stored[Wrap(head + i)] ELSE NoMsg) \in Msg \cup {NoMsg}
    <3> HIDE DEF stored
    <3> QED  BY <1>4, <2>1 DEF RingInv
  <2> HIDE DEF stored
  <2> QED  BY <1>1, <2>2 DEF RingInv
<1>6. ASSUME NEW k \in 0 .. RingLength
      PROVE  queue'[Wrap(head + k)'] = IF k < RingLength THEN queue[Wrap(head + k)] ELSE m
  <2>1. k \in 0 .. 2 * cap - 1 /\ k < cap /\ Wrap(head + k)' = k
    BY <1>1, <1>2 DEF RingInv, Wrap
  <2>2. queue'[Wrap(head + k)'] = stored[Wrap(head + k)]
    <3> HIDE DEF stored
    <3> QED  BY <1>1, <2>1
  <2>3. Wrap(head + k) \in 0 .. cap - 1 /\ (Wrap(head + k) = tail <=> k = RingLength)
    BY <1>2 DEF RingInv, Wrap
  <2> QED  BY <2>2, <2>3, <1>2 DEF RingInv
<1>7. ASSUME NEW k \in 0 .. RingLength' - 1
      PROVE  queue'[Wrap(head + k)'] \in Msg
  <2>1. k \in 0 .. RingLength /\ (k < RingLength => k \in 0 .. RingLength - 1)
    BY <1>2, RingLengthBound DEF RingInv
  <2> QED  BY <1>6, <2>1 DEF RingInv
<1>8. RingLength' = RingLength + 1
  BY <1>2 DEF RingInv
<1> QED  BY <1>3, <1>5, <1>6, <1>7, <1>8 DEF RingInv

(* Whether or not it doubles the ring, a push appends. *)
LEMMA PushAppends ==
    ASSUME RingInv, NEW m \in Msg, PushRing(m)
    PROVE  RingInv' /\ Content' = Append(Content, m)
<1>1. /\ RingInv'
      /\ RingLength' = RingLength + 1
      /\ \A k \in 0 .. RingLength : queue'[Wrap(head + k)'] =
            IF k < RingLength THEN queue[Wrap(head + k)] ELSE m
  BY PushRoom, PushFull
<1>f. ContentFacts /\ ContentFacts'
  BY <1>1, ContentSeq, PTL
<1>2. /\ Content' \in Seq(Msg) /\ Len(Content') = RingLength + 1
      /\ \A k \in 1 .. RingLength' : Content'[k] = queue'[Wrap(head + k - 1)']
  BY <1>1, <1>f DEF ContentFacts
<1>3. /\ Append(Content, m) \in Seq(Msg) /\ Len(Append(Content, m)) = RingLength + 1
      /\ \A k \in 1 .. RingLength + 1 : Append(Content, m)[k] =
            IF k <= RingLength THEN Content[k] ELSE m
  BY <1>f, AppendProperties DEF ContentFacts
<1>4. ASSUME NEW k \in 1 .. RingLength + 1
      PROVE  Content'[k] = Append(Content, m)[k]
  <2>1. k - 1 \in 0 .. RingLength /\ k \in 1 .. RingLength'
    BY <1>1, RingLengthBound DEF RingInv
  <2>2. Wrap(head + k - 1)' = Wrap(head + (k - 1))' /\ Wrap(head + k - 1) = Wrap(head + (k - 1))
    BY <1>1, <2>1 DEF RingInv
  <2>3. Content'[k] = IF k - 1 < RingLength THEN queue[Wrap(head + k - 1)] ELSE m
    BY <1>1, <1>2, <2>1, <2>2
  <2>4. k - 1 < RingLength => k \in 1 .. RingLength
    BY RingLengthBound DEF RingInv
  <2>5. k - 1 < RingLength <=> k <= RingLength
    BY RingLengthBound DEF RingInv
  <2> QED  BY <1>3, <2>3, <2>4, <2>5, <1>f DEF ContentFacts
<1>5. Content' = Append(Content, m)
  BY <1>2, <1>3, <1>4, SeqEqual
<1> QED  BY <1>1, <1>5

(* A pop of a non-empty ring takes the oldest message. *)
LEMMA PopTakesHead ==
    ASSUME RingInv, PopMessage
    PROVE  /\ RingInv'
           /\ Content # <<>> /\ got' = Head(Content) /\ Content' = Tail(Content)
<1>1. cap' = cap /\ head' = Wrap(head + 1) /\ tail' = tail /\ queue' = queue /\ head # tail
  BY DEF PopMessage
<1>2. RingLength \in Nat \ {0} /\ RingLength' = RingLength - 1
  BY <1>1 DEF RingInv, RingLength, Wrap
<1>3. ASSUME NEW k \in 0 .. RingLength - 2
      PROVE  Wrap(head + k)' = Wrap(head + (k + 1))
  BY <1>1, <1>2 DEF RingInv, RingLength, Wrap
<1>4. RingInv'
  <2>1. /\ cap' \in Nat \ {0} /\ head' \in 0 .. cap' - 1 /\ tail' \in 0 .. cap' - 1
        /\ queue' \in [0 .. cap' - 1 -> Msg \cup {NoMsg}]
    BY <1>1 DEF RingInv, Wrap
  <2>2. ASSUME NEW k \in 0 .. RingLength' - 1
        PROVE  queue'[Wrap(head + k)'] \in Msg
    <3>1. k \in 0 .. RingLength - 2 /\ k + 1 \in 0 .. RingLength - 1
      BY <1>2
    <3> QED  BY <1>1, <1>3, <3>1 DEF RingInv
  <2> QED  BY <2>1, <2>2 DEF RingInv
<1>5. ContentFacts /\ ContentFacts'
  BY <1>4, ContentSeq, PTL
<1>6. Content # <<>>
  BY <1>2, <1>5, EmptySeq DEF ContentFacts
<1>7. got' = Head(Content)
  <2>1. Wrap(head + 1 - 1) = head
    BY DEF RingInv, Wrap
  <2>2. Head(Content) = Content[1]
    BY <1>5, <1>6 DEF ContentFacts
  <2> QED  BY <1>2, <1>5, <2>1, <2>2, SMTT(30) DEF ContentFacts, PopMessage
<1>8. /\ Tail(Content) \in Seq(Msg) /\ Len(Tail(Content)) = RingLength - 1
      /\ \A k \in 1 .. RingLength - 1 : Tail(Content)[k] = Content[k + 1]
  BY <1>5, <1>6, HeadTailProperties DEF ContentFacts
<1>9. ASSUME NEW k \in 1 .. RingLength - 1
      PROVE  Content'[k] = Tail(Content)[k]
  <2>1. k \in 1 .. RingLength' /\ k + 1 \in 1 .. RingLength /\ k - 1 \in 0 .. RingLength - 2
    BY <1>2
  <2>2. Content'[k] = queue'[Wrap(head + k - 1)'] /\ Content[k + 1] = queue[Wrap(head + (k + 1) - 1)]
    BY <1>5, <2>1 DEF ContentFacts
  <2>3. Wrap(head + k - 1)' = Wrap(head + (k + 1) - 1)
    BY <1>1, <1>2, <2>1 DEF RingInv, RingLength, Wrap
  <2> QED  BY <1>1, <1>8, <2>2, <2>3
<1>10. Content' = Tail(Content)
  <2>1. Content' \in Seq(Msg) /\ Len(Content') = RingLength - 1
    BY <1>2, <1>5 DEF ContentFacts
  <2> QED  BY <1>8, <1>9, <2>1, SeqEqual
<1> QED  BY <1>4, <1>6, <1>7, <1>10

(* A step that leaves the ring alone leaves its content alone. *)
LEMMA RingUnchanged ==
    ASSUME RingInv, UNCHANGED ring
    PROVE  RingInv' /\ Content' = Content /\ RingLength' = RingLength
  BY DEF ring, RingInv, Content, RingLength, Wrap

(* The ring is empty exactly when head and tail meet. *)
LEMMA EmptyContent == ASSUME RingInv PROVE head = tail <=> Content = <<>>
<1>1. ContentFacts
  BY ContentSeq
<1>2. RingLength = 0 <=> head = tail
  BY DEF RingInv, RingLength
<1>3. Content = <<>> <=> Len(Content) = 0
  BY <1>1, EmptySeq DEF ContentFacts
<1> QED  BY <1>1, <1>2, <1>3 DEF ContentFacts

(* Every operation of the queue keeps the ring well formed. *)
LEMMA RingInvStep == RingInv /\ [MQNext]_mqVars => RingInv'
<1> SUFFICES ASSUME RingInv, [MQNext]_mqVars PROVE RingInv'
  OBVIOUS
<1>1. ASSUME NEW m \in Msg, Push(m) PROVE RingInv'
  BY <1>1, PushAppends DEF Push
<1>2. CASE PopMessage
  BY <1>2, PopTakesHead
<1>3. CASE PopEmpty \/ Length \/ TakeOverload \/ UNCHANGED mqVars
  BY <1>3, RingUnchanged DEF PopEmpty, Length, TakeOverload, mqVars
<1> QED  BY <1>1, <1>2, <1>3 DEF MQNext

(***************************************************************************)
(* The ring of a mailbox is well formed whatever the sequence of pushes    *)
(* and pops: no index leaves the array and no pop returns an unset slot.   *)
(***************************************************************************)
THEOREM RingInvariant == MQSpec => []RingInv
<1> QED  BY RingInvInit, RingInvStep, PTL DEF MQSpec

(***************************************************************************)
(* A mailbox that has left the scheduler holds no message, because only    *)
(* the pop that finds it empty clears in_global and every push sets it.    *)
(***************************************************************************)
THEOREM IdleQueueHolds == MQSpec => []IdleQueue
<1>1. MQInit => IdleQueue
  BY DEF MQInit, IdleQueue
<1>2. RingInv /\ IdleQueue /\ [MQNext]_mqVars => IdleQueue'
  <2> SUFFICES ASSUME RingInv, IdleQueue, [MQNext]_mqVars PROVE IdleQueue'
    OBVIOUS
  <2>1. ASSUME NEW m \in Msg, Push(m) PROVE IdleQueue'
    BY <2>1 DEF Push, IdleQueue
  <2>2. CASE PopMessage
    BY <2>2 DEF PopMessage, IdleQueue
  <2>3. CASE PopEmpty
    BY <2>3 DEF PopEmpty, IdleQueue, ring
  <2>4. CASE Length \/ TakeOverload \/ UNCHANGED mqVars
    BY <2>4 DEF Length, TakeOverload, mqVars, ring, IdleQueue
  <2> QED  BY <2>1, <2>2, <2>3, <2>4 DEF MQNext
<1> QED  BY <1>1, <1>2, RingInvariant, PTL DEF MQSpec

(* Every operation of the ring is an operation of the FIFO mailbox. *)
LEMMA FifoStep == RingInv /\ [MQNext]_mqVars => [Fifo!Next]_Fifo!vars
<1> SUFFICES ASSUME RingInv, [MQNext]_mqVars PROVE [Fifo!Next]_Fifo!vars
  OBVIOUS
<1> USE DEF Fifo!Next
<1>1. ASSUME NEW m \in Msg, Push(m) PROVE Fifo!Push(m)
  BY <1>1, PushAppends DEF Push, Fifo!Push
<1>2. CASE PopMessage
  BY <1>2, PopTakesHead DEF PopMessage, Fifo!PopMessage
<1>3. CASE PopEmpty
  BY <1>3, RingUnchanged, EmptyContent DEF PopEmpty, Fifo!PopEmpty
<1>4. CASE Length
  <2>1. Content' = Content /\ len' = Len(Content)
    BY <1>4, RingUnchanged, ContentSeq DEF Length, ContentFacts
  <2> QED  BY <1>4, <2>1 DEF Length, Fifo!Length
<1>5. CASE TakeOverload \/ UNCHANGED mqVars
  BY <1>5, RingUnchanged DEF TakeOverload, mqVars, Fifo!vars
<1> QED  BY <1>1, <1>2, <1>3, <1>4, <1>5 DEF MQNext

(***************************************************************************)
(* The ring buffer of skynet_mq.c implements the FIFO mailbox that the     *)
(* dispatcher relies on, for every capacity and every interleaving of the  *)
(* operations under the spinlock of the queue.                             *)
(***************************************************************************)
THEOREM FifoRefinement == MQSpec => ImplementsFifo
<1>1. MQInit => Fifo!Init
  <2> SUFFICES ASSUME MQInit PROVE Fifo!Init
    OBVIOUS
  <2>1. Content = <<>>
    BY RingInvInit, EmptyContent DEF MQInit
  <2> QED  BY <2>1 DEF MQInit, Fifo!Init
<1> QED  BY <1>1, FifoStep, RingInvariant, PTL DEF MQSpec, ImplementsFifo, Fifo!Spec

(* A set of naturals that is not empty has a least one. *)
LEMMA LeastNat == ASSUME NEW T \in SUBSET Nat, T # {} PROVE \E x \in T : \A y \in T : x <= y
<1> DEFINE R == {ss \in Nat \X Nat : ss[1] < ss[2]}
<1>1. IsWellFoundedOn(R, Nat)
  BY NatLessThanWellFounded DEF OpToRel
<1>2. PICK x \in T : \A y \in T : ~ (<<y, x>> \in R)
  BY <1>1, WFMin
<1>3. ASSUME NEW y \in T PROVE x <= y
  <2>1. ~(<<y, x>> \in R)
    BY <1>2
  <2>2. y \in Nat /\ x \in Nat
    OBVIOUS
  <2>3. ~(y < x)
    BY <2>1, <2>2
  <2> QED BY <2>2, <2>3
<1> QED BY <1>3

-----------------------------------------------------------------------------
(* The overload warning of a mailbox. *)

(* What the loop of skynet_mq_pop has made of the threshold t after i rounds *)
DoubledOnce(f, t, i) == IF i = 0 THEN t ELSE f[i - 1] * 2
Doubles(f, t, n) == f = [i \in 0 .. n |-> DoubledOnce(f, t, i)]

(* There is a threshold for each round. *)
LEMMA DoublesExist == ASSUME NEW t, NEW n \in Nat PROVE \E f : Doubles(f, t, n)
<1> DEFINE T == {m \in Nat : ~\E f : Doubles(f, t, m)}
<1> SUFFICES ASSUME T # {} PROVE FALSE
  OBVIOUS
<1>1. PICK m \in T : \A c \in T : m <= c
  <2>1. T \in SUBSET Nat
    OBVIOUS
  <2> HIDE DEF T
  <2> QED  BY <2>1, LeastNat
<1>2. m \in Nat /\ ~\E f : Doubles(f, t, m)
  BY <1>1
<1>3. CASE m = 0
  <2> DEFINE e == [i \in 0 .. 0 |-> t]
  <2>1. e = [i \in 0 .. 0 |-> DoubledOnce(e, t, i)]
    BY DEF DoubledOnce
  <2> HIDE DEF e
  <2> QED  BY <1>2, <1>3, <2>1 DEF Doubles
<1>4. CASE m # 0
  <2>1. PICK l \in Nat : m = l + 1
    <3>1. m - 1 \in Nat /\ m = (m - 1) + 1
      BY <1>2, <1>4
    <3> QED  BY <3>1
  <2>2. l \notin T
    <3> HIDE DEF T
    <3> QED  BY <1>1, <1>2, <2>1
  <2>3. PICK f : Doubles(f, t, l)
    BY <2>2
  <2>4. \A i \in 0 .. l : f[i] = DoubledOnce(f, t, i)
    BY <2>3 DEF Doubles
  <2> DEFINE e == [i \in 0 .. m |-> IF i = m THEN DoubledOnce(f, t, m) ELSE f[i]]
  <2>5. \A i \in 0 .. m : e[i] = IF i = m THEN DoubledOnce(f, t, m) ELSE f[i]
    OBVIOUS
  <2>6. e = [i \in 0 .. m |-> e[i]]
    OBVIOUS
  <2> HIDE DEF e
  <2>7. ASSUME NEW i \in 0 .. m PROVE e[i] = DoubledOnce(e, t, i)
    <3>1. i # 0 => i - 1 \in 0 .. m /\ e[i - 1] = f[i - 1]
      BY <2>1, <2>5
    <3>2. DoubledOnce(e, t, i) = DoubledOnce(f, t, i)
      BY <3>1 DEF DoubledOnce
    <3>3. CASE i = m
      BY <2>5, <3>2, <3>3
    <3>4. CASE i # m
      <4>1. i \in 0 .. l
        BY <2>1, <3>4
      <4> QED  BY <2>4, <2>5, <3>2, <3>4, <4>1
    <3> QED  BY <3>3, <3>4
  <2>8. Doubles(e, t, m)
    BY <2>6, <2>7 DEF Doubles
  <2> QED  BY <1>2, <2>8
<1> QED  BY <1>3, <1>4

(* The loop ends with a threshold that covers the length and is not lower  *)
(* than before; one that covers the length already stays.                  *)
LEMMA RaisedIs ==
    ASSUME NEW t \in Nat \ {0}, NEW n \in Nat
    PROVE  /\ Raised(t, n) \in Nat \ {0} /\ t <= Raised(t, n) /\ n <= Raised(t, n)
           /\ n <= t => Raised(t, n) = t
<1> DEFINE f == CHOOSE g : Doubles(g, t, n)
           Covers(k) == n <= f[k] /\ \A j \in 0 .. k - 1 : n > f[j]
<1>1. Doubles(f, t, n)
  BY DoublesExist
<1>2. Raised(t, n) = f[CHOOSE k \in 0 .. n : Covers(k)]
  BY DEF Raised, Doubles, DoubledOnce
<1> HIDE DEF f
<1>3. \A i \in 0 .. n : f[i] = DoubledOnce(f, t, i)
  BY <1>1 DEF Doubles
<1> DEFINE T == {i \in 0 .. n : ~(f[i] \in Nat \ {0} /\ t + i <= f[i])}
<1>4. T = {}
  <2> SUFFICES ASSUME T # {} PROVE FALSE
    OBVIOUS
  <2>1. PICK i \in T : \A c \in T : i <= c
    <3>1. T \in SUBSET Nat
      OBVIOUS
    <3> HIDE DEF T
    <3> QED  BY <3>1, LeastNat
  <2>2. i \in 0 .. n /\ i \in Nat /\ ~(f[i] \in Nat \ {0} /\ t + i <= f[i])
    BY <2>1
  <2>3. CASE i = 0
    BY <1>3, <2>2, <2>3 DEF DoubledOnce
  <2>4. CASE i # 0
    <3>1. i - 1 \in 0 .. n /\ i - 1 < i
      BY <2>2, <2>4
    <3>2. i - 1 \notin T
      <4> HIDE DEF T
      <4> QED  BY <2>1, <2>2, <3>1
    <3>3. f[i - 1] \in Nat \ {0} /\ t + (i - 1) <= f[i - 1]
      BY <3>1, <3>2
    <3>4. f[i] = f[i - 1] * 2
      BY <1>3, <2>2, <2>4 DEF DoubledOnce
    <3> QED  BY <2>2, <3>3, <3>4
  <2> QED  BY <2>3, <2>4
<1>5. \A i \in 0 .. n : f[i] \in Nat \ {0} /\ t + i <= f[i]
  BY <1>4
<1>6. \E k \in 0 .. n : Covers(k)
  <2> DEFINE U == {k \in 0 .. n : n <= f[k]}
  <2>1. n \in U
    BY <1>5
  <2>2. U \in SUBSET Nat /\ U # {}
    BY <2>1
  <2>3. PICK k \in U : \A c \in U : k <= c
    <3> HIDE DEF U
    <3> QED  BY <2>2, LeastNat
  <2>4. ASSUME NEW j \in 0 .. k - 1 PROVE n > f[j]
    <3>1. j \in 0 .. n /\ j \notin U
      BY <2>3
    <3> QED  BY <1>5, <3>1
  <2> QED  BY <2>3, <2>4
<1>7. PICK k \in 0 .. n : Raised(t, n) = f[k] /\ Covers(k)
  <2> HIDE DEF Covers
  <2> QED  BY <1>2, <1>6
<1>8. ASSUME n <= t PROVE Raised(t, n) = t
  <2>1. f[0] = t
    BY <1>3 DEF DoubledOnce
  <2>2. k = 0
    <3> SUFFICES ASSUME k # 0 PROVE FALSE
      OBVIOUS
    <3>1. 0 \in 0 .. k - 1
      OBVIOUS
    <3> QED  BY <1>7, <1>8, <2>1, <3>1
  <2> QED  BY <1>7, <2>1, <2>2
<1> QED  BY <1>5, <1>7, <1>8

(* A pop knows the length that it leaves. *)
LEMMA PopLength ==
    ASSUME RingInv, PopMessage
    PROVE  LengthAfterPop \in Nat /\ LengthAfterPop = RingLength'
<1>1. cap' = cap /\ head' = Wrap(head + 1) /\ tail' = tail
  BY DEF PopMessage
<1>2. cap \in Nat \ {0} /\ tail \in 0 .. cap - 1 /\ Wrap(head + 1) \in 0 .. cap - 1
  BY DEF RingInv, Wrap
<1> QED  BY <1>1, <1>2 DEF RingLength, LengthAfterPop

(***************************************************************************)
(* A backlog is reported once for each doubling of it: a pop raises the    *)
(* threshold over what it leaves, whatever it was, and only the pop that   *)
(* finds the mailbox empty sets it back.  For this the threshold has to be *)
(* positive, or the loop would not end.                                    *)
(***************************************************************************)
THEOREM OverloadHolds == MQSpec => OverloadCovered
<1> DEFINE Positive == overload_threshold \in Nat \ {0}
           Covered == /\ Len(Content') < Len(Content) =>
                             /\ Len(Content') <= overload_threshold'
                             /\ Len(Content') > overload_threshold => overload' = Len(Content')
                      /\ overload' \notin {0, overload} => overload' > overload_threshold
                      /\ overload_threshold' < overload_threshold =>
                             Content = <<>> /\ overload_threshold' = MQOverload
<1>1. MQInit => Positive
  BY SizeAssumption DEF MQInit
<1>2. RingInv /\ Positive /\ [MQNext]_mqVars => Positive' /\ [Covered]_mqVars
  <2> SUFFICES ASSUME RingInv, Positive, [MQNext]_mqVars PROVE Positive' /\ [Covered]_mqVars
    OBVIOUS
  <2>0. ContentFacts /\ RingInv' /\ ContentFacts'
    BY RingInvStep, ContentSeq, PTL
  <2>1. ASSUME NEW m \in Msg, Push(m) PROVE Positive' /\ Covered
    <3>1. Len(Content') = Len(Content) + 1 /\ Len(Content) \in Nat
      BY <2>0, <2>1, PushAppends, AppendProperties DEF Push, ContentFacts
    <3> QED  BY <2>1, <3>1 DEF Push
  <2>2. CASE PopMessage
    <3>1. PICK n \in Nat : n = LengthAfterPop /\ n = Len(Content')
      BY <2>0, <2>2, PopLength DEF ContentFacts
    <3>2. /\ overload' = IF n > overload_threshold THEN n ELSE overload
          /\ overload_threshold' = Raised(overload_threshold, n)
      BY <2>2, <3>1 DEF PopMessage
    <3> QED  BY <3>1, <3>2, RaisedIs
  <2>3. CASE PopEmpty
    <3>1. Content = <<>> /\ Content' = Content
      BY <2>3, RingUnchanged, EmptyContent DEF PopEmpty
    <3> QED  BY <2>3, <3>1, SizeAssumption DEF PopEmpty
  <2>4. CASE Length \/ TakeOverload
    <3>1. Content' = Content
      BY <2>4, RingUnchanged DEF Length, TakeOverload
    <3>2. Len(Content) \in Nat
      BY <2>0 DEF ContentFacts
    <3> QED  BY <2>4, <3>1, <3>2 DEF Length, TakeOverload
  <2>5. CASE UNCHANGED mqVars
    BY <2>5 DEF mqVars
  <2> QED  BY <2>1, <2>2, <2>3, <2>4, <2>5 DEF MQNext
<1>3. RingInv /\ [MQNext]_mqVars => RingInv'
  BY RingInvStep
<1>4. [][Covered]_mqVars => OverloadCovered
  BY PTL DEF OverloadCovered
<1> QED  BY <1>1, <1>2, <1>4, RingInvariant, PTL DEF MQSpec

-----------------------------------------------------------------------------
(* The threads: the count of sleepers that wakeup() reads without the      *)
(* mutex is exact, and no worker sleeps through the end of the node.       *)

Sleepers == {t \in Worker : pc[t] \in {"sleep", "wait", "waiting", "wake"}}

(* Where a thread can be *)
Labels == {"while", "dispatch", "lock", "sleep", "wait", "waiting", "wake", "end", "poll", "wakeup", "signal",
           "update", "usleep", "exit", "quit", "check", "join", "freed"}

Types == /\ jobs \in 0 .. MaxJobs /\ work \in 0 .. jobs /\ total \in 0 .. Services
         /\ quit \in BOOLEAN
         /\ waiting \subseteq Worker /\ mutex \in Worker \cup {Free}
         /\ pc \in [Threads \cup {"main"} -> Labels]

(* The mutex is held from the lock to the wait, and from the wake on. *)
Holders == \A t \in Worker : mutex = t <=> pc[t] \in {"sleep", "wait", "wake"}

(* Who has to be signalled is inside pthread_cond_wait. *)
Blocked == \A t \in waiting : pc[t] = "waiting"

(* After quit is set nobody is between the test of it and the wait. *)
QuitSeen == quit => waiting = {} /\ \A t \in Worker : pc[t] # "wait"

(* What every step preserves *)
IInv == Types /\ Holders /\ Blocked /\ QuitSeen /\ sleep = Cardinality(Sleepers)

-----------------------------------------------------------------------------
(* The workers are counted, and none is one of the other threads. *)
LEMMA Workers ==
    /\ IsFiniteSet(Worker) /\ Count \in Nat /\ Services \in Nat /\ MaxJobs \in Nat
    /\ \A t \in Worker : t # Free /\ t \notin {"timer", "socket", "monitor", "main"}
<1>1. IsFiniteSet(Worker) /\ Cardinality(Worker) \in Nat
  BY SchedulerAssumption, FS_CardinalityType
<1> QED  BY <1>1, SchedulerAssumption DEF Count

(* Those asleep are some of the workers. *)
LEMMA SleepersCounted == IsFiniteSet(Sleepers) /\ Cardinality(Sleepers) \in 0 .. Count
<1>1. IsFiniteSet(Sleepers) /\ Cardinality(Sleepers) <= Cardinality(Worker)
  BY Workers, FS_Subset DEF Sleepers
<1>2. Cardinality(Sleepers) \in Nat
  BY <1>1, FS_CardinalityType
<1> QED  BY <1>1, <1>2, Workers DEF Count

(* All threads start awake. *)
LEMMA IInvInit == Init => IInv
<1> SUFFICES ASSUME Init PROVE IInv
  OBVIOUS
<1>1. Types
  <2>1. pc \in [Threads \cup {"main"} -> Labels]
    BY DEF Init, Labels
  <2>2. jobs \in 0 .. MaxJobs /\ work \in 0 .. jobs /\ total \in 0 .. Services
    BY Workers DEF Init
  <2>3. quit \in BOOLEAN /\ waiting \subseteq Worker /\ mutex \in Worker \cup {Free}
    BY DEF Init
  <2> QED  BY <2>1, <2>2, <2>3 DEF Types
<1>2. \A t \in Worker : pc[t] = "while"
  BY Workers DEF Init, Threads
<1>3. Holders /\ Blocked /\ QuitSeen
  BY <1>2, Workers DEF Init, Holders, Blocked, QuitSeen
<1>4. Sleepers = {}
  BY <1>2 DEF Sleepers
<1> QED  BY <1>1, <1>3, <1>4, FS_EmptySet DEF Init, IInv

-----------------------------------------------------------------------------
(* A worker goes on outside of the mutex: it is neither counted nor waits. *)
LEMMA AwakeKeeps ==
    ASSUME IInv, NEW t \in Worker, While(t) \/ Dispatch(t) \/ DispatchNothing(t)
    PROVE  IInv'
<1>1. /\ pc[t] \in {"while", "dispatch"} /\ pc' = [pc EXCEPT ![t] = pc'[t]]
      /\ pc'[t] \in {"end", "dispatch", "while", "lock"}
      /\ UNCHANGED <<sleep, quit, mutex, waiting>>
  BY DEF IInv, Types, Threads, Labels, While, Dispatch, DispatchNothing, At, Goto
<1>2. Types'
  BY Workers, SMTT(30) DEF IInv, Types, Threads, Labels, While, Dispatch, DispatchNothing, At, Goto
<1>3. Holders' /\ Blocked' /\ QuitSeen'
  <2>1. Holders'
    BY <1>1 DEF IInv, Types, Threads, Labels, Holders
  <2>2. Blocked'
    BY <1>1 DEF IInv, Types, Threads, Labels, Blocked
  <2>3. QuitSeen'
    BY <1>1 DEF IInv, Types, Threads, Labels, QuitSeen
  <2> QED  BY <2>1, <2>2, <2>3
<1>4. Sleepers' = Sleepers
  BY <1>1 DEF IInv, Types, Threads, Labels, Sleepers
<1> QED  BY <1>1, <1>2, <1>3, <1>4 DEF IInv

(* A worker that found nothing takes the mutex and is counted. *)
LEMMA LockKeeps == ASSUME IInv, NEW t \in Worker, Lock(t) PROVE IInv'
<1>1. /\ pc[t] = "lock" /\ pc' = [pc EXCEPT ![t] = "sleep"] /\ mutex = Free /\ mutex' = t
      /\ sleep' = sleep + 1 /\ UNCHANGED <<work, jobs, total, quit, waiting>>
  BY DEF Lock, At, Goto
<1>2. Types'
  BY <1>1 DEF IInv, Types, Threads, Labels
<1>3. Holders' /\ Blocked' /\ QuitSeen'
  <2>1. Holders'
    BY <1>1, Workers DEF IInv, Types, Threads, Labels, Holders
  <2>2. Blocked'
    BY <1>1, Workers DEF IInv, Types, Threads, Labels, Blocked
  <2>3. QuitSeen'
    BY <1>1, Workers DEF IInv, Types, Threads, Labels, QuitSeen
  <2> QED  BY <2>1, <2>2, <2>3
<1>4. Sleepers' = Sleepers \cup {t} /\ t \notin Sleepers
  BY <1>1 DEF IInv, Types, Threads, Labels, Sleepers
<1>5. Cardinality(Sleepers') = Cardinality(Sleepers) + 1
  BY <1>4, SleepersCounted, FS_AddElement
<1> QED  BY <1>1, <1>2, <1>3, <1>5 DEF IInv

(* A worker sees quit, or goes to wait when it is not set. *)
LEMMA TestQuitKeeps == ASSUME IInv, NEW t \in Worker, TestQuit(t) PROVE IInv'
<1>1. /\ pc[t] = "sleep" /\ pc' = [pc EXCEPT ![t] = IF quit THEN "wake" ELSE "wait"]
      /\ UNCHANGED <<work, jobs, total, sleep, quit, mutex, waiting>>
  BY DEF TestQuit, At, Goto
<1>2. Types'
  BY <1>1 DEF IInv, Types, Threads, Labels
<1>3. Holders' /\ Blocked' /\ QuitSeen'
  <2>1. Holders'
    BY <1>1 DEF IInv, Types, Threads, Labels, Holders
  <2>2. Blocked'
    BY <1>1 DEF IInv, Types, Threads, Labels, Blocked
  <2>3. QuitSeen'
    BY <1>1 DEF IInv, Types, Threads, Labels, QuitSeen
  <2> QED  BY <2>1, <2>2, <2>3
<1>4. Sleepers' = Sleepers
  BY <1>1 DEF IInv, Types, Threads, Labels, Sleepers
<1> QED  BY <1>1, <1>2, <1>3, <1>4 DEF IInv

(* A worker gives up the mutex and waits, at once; quit was not set since. *)
LEMMA WaitKeeps == ASSUME IInv, NEW t \in Worker, Wait(t) PROVE IInv'
<1>1. /\ pc[t] = "wait" /\ pc' = [pc EXCEPT ![t] = "waiting"]
      /\ waiting' = waiting \cup {t} /\ mutex' = Free
      /\ UNCHANGED <<work, jobs, total, sleep, quit>>
  BY DEF Wait, At, Goto
<1>2. mutex = t /\ ~quit
  BY <1>1 DEF IInv, Holders, QuitSeen, Types
<1>3. Types'
  BY <1>1 DEF IInv, Types, Threads, Labels
<1>4. Holders' /\ Blocked' /\ QuitSeen'
  <2>1. Holders'
    BY <1>1, <1>2, Workers DEF IInv, Types, Threads, Labels, Holders
  <2>2. Blocked'
    BY <1>1, <1>2, Workers DEF IInv, Types, Threads, Labels, Blocked
  <2>3. QuitSeen'
    BY <1>1, <1>2, Workers DEF IInv, Types, Threads, Labels, QuitSeen
  <2> QED  BY <2>1, <2>2, <2>3
<1>5. Sleepers' = Sleepers
  BY <1>1 DEF IInv, Types, Threads, Labels, Sleepers
<1> QED  BY <1>1, <1>3, <1>4, <1>5 DEF IInv

(* A worker that was woken has the mutex again. *)
LEMMA RelockKeeps == ASSUME IInv, NEW t \in Worker, Relock(t) PROVE IInv'
<1>1. /\ pc[t] = "waiting" /\ pc' = [pc EXCEPT ![t] = "wake"] /\ mutex = Free /\ mutex' = t
      /\ t \notin waiting /\ UNCHANGED <<work, jobs, total, sleep, quit, waiting>>
  BY DEF Relock, At, Goto
<1>2. Types'
  BY <1>1 DEF IInv, Types, Threads, Labels
<1>3. Holders' /\ Blocked' /\ QuitSeen'
  <2>1. Holders'
    BY <1>1, Workers DEF IInv, Types, Threads, Labels, Holders
  <2>2. Blocked'
    BY <1>1, Workers DEF IInv, Types, Threads, Labels, Blocked
  <2>3. QuitSeen'
    BY <1>1, Workers DEF IInv, Types, Threads, Labels, QuitSeen
  <2> QED  BY <2>1, <2>2, <2>3
<1>4. Sleepers' = Sleepers
  BY <1>1 DEF IInv, Types, Threads, Labels, Sleepers
<1> QED  BY <1>1, <1>2, <1>3, <1>4 DEF IInv

(* ... and leaves, counted no more. *)
LEMMA UnlockKeeps == ASSUME IInv, NEW t \in Worker, Unlock(t) PROVE IInv'
<1>1. /\ pc[t] = "wake" /\ pc' = [pc EXCEPT ![t] = "while"] /\ mutex' = Free
      /\ sleep' = sleep - 1 /\ UNCHANGED <<work, jobs, total, quit, waiting>>
  BY DEF Unlock, At, Goto
<1>2. mutex = t
  BY <1>1 DEF IInv, Holders
<1>3. Types'
  BY <1>1 DEF IInv, Types, Threads, Labels
<1>4. Holders' /\ Blocked' /\ QuitSeen'
  <2>1. Holders'
    BY <1>1, <1>2, Workers DEF IInv, Types, Threads, Labels, Holders
  <2>2. Blocked'
    BY <1>1, <1>2, Workers DEF IInv, Types, Threads, Labels, Blocked
  <2>3. QuitSeen'
    BY <1>1, <1>2, Workers DEF IInv, Types, Threads, Labels, QuitSeen
  <2> QED  BY <2>1, <2>2, <2>3
<1>5. Sleepers' = Sleepers \ {t} /\ t \in Sleepers
  BY <1>1 DEF IInv, Types, Threads, Labels, Sleepers
<1>6. Cardinality(Sleepers') = Cardinality(Sleepers) - 1
  BY <1>5, SleepersCounted, FS_RemoveElement
<1> QED  BY <1>1, <1>3, <1>4, <1>6 DEF IInv

(* What other threads do to the workers: they may end the wait of some, and *)
(* set quit when nobody has the mutex and nobody waits any more.            *)
LEMMA OthersKeep ==
    ASSUME IInv, Types', \A t \in Worker : pc'[t] = pc[t],
           UNCHANGED <<sleep, mutex>>, waiting' \subseteq waiting,
           quit' = quit \/ (mutex = Free /\ waiting' = {})
    PROVE  IInv'
<1>1. Holders' /\ Blocked'
  BY DEF IInv, Types, Holders, Blocked
<1>2. QuitSeen'
  BY Workers DEF IInv, Types, Holders, QuitSeen
<1>3. Sleepers' = Sleepers
  BY DEF Sleepers
<1> QED  BY <1>1, <1>2, <1>3 DEF IInv

(* Spurious wakeups, and the steps of the threads that are not workers *)
LEMMA OtherStep ==
    ASSUME IInv,
           \/ \E t \in Worker : Spurious(t)
           \/ Poll \/ PollExit \/ SocketWakeup
           \/ TimerRun \/ Quit \/ MonitorCheck \/ Join \/ SigInt
    PROVE  IInv'
<1> USE DEF IInv, Types, Threads, Labels, At, Goto
<1>1. CASE \E t \in Worker : Spurious(t)
  BY <1>1, OthersKeep DEF Spurious
<1>2. CASE Poll \/ PollExit
  <2>1. Types'
    BY <1>2, Workers DEF Poll, PollExit
  <2>2. (\A t \in Worker : pc'[t] = pc[t]) /\ UNCHANGED <<sleep, mutex, waiting, quit>>
    BY <1>2, Workers DEF Poll, PollExit
  <2> QED  BY <2>1, <2>2, OthersKeep
<1>3. CASE SocketWakeup \/ TimerWakeup
  <2>1. Types'
    BY <1>3, Workers DEF SocketWakeup, TimerWakeup, WakeupTest, WakeupSignal
  <2>2. (\A t \in Worker : pc'[t] = pc[t]) /\ UNCHANGED <<sleep, mutex, quit>> /\ waiting' \subseteq waiting
    BY <1>3, Workers DEF SocketWakeup, TimerWakeup, WakeupTest, WakeupSignal
  <2> QED  BY <2>1, <2>2, OthersKeep
<1>4. CASE Update \/ Usleep
  <2>1. Types'
    BY <1>4, Workers DEF Update, Usleep, MaySchedule
  <2>2. (\A t \in Worker : pc'[t] = pc[t]) /\ UNCHANGED <<sleep, mutex, waiting, quit>>
    BY <1>4, Workers DEF Update, Usleep
  <2> QED  BY <2>1, <2>2, OthersKeep
<1>5. CASE SocketExit \/ MonitorCheck \/ Join \/ SigInt
  <2>1. Types'
    BY <1>5, Workers DEF SocketExit, MonitorCheck, Join, SigInt
  <2>2. (\A t \in Worker : pc'[t] = pc[t]) /\ UNCHANGED <<sleep, mutex, waiting, quit>>
    BY <1>5, Workers DEF SocketExit, MonitorCheck, Join, SigInt
  <2> QED  BY <2>1, <2>2, OthersKeep
<1>6. CASE Quit
  <2>1. Types'
    BY <1>6, Workers DEF Quit
  <2>2. (\A t \in Worker : pc'[t] = pc[t]) /\ UNCHANGED <<sleep, mutex>> /\ waiting' = {} /\ mutex = Free
    BY <1>6, Workers DEF Quit
  <2> QED  BY <2>1, <2>2, OthersKeep
<1> QED  BY <1>1, <1>2, <1>3, <1>4, <1>5, <1>6 DEF TimerRun

(* Every step keeps the count and the hand-over of the mutex. *)
LEMMA IInvStep == IInv /\ [Next]_vars => IInv'
<1> SUFFICES ASSUME IInv, [Next]_vars PROVE IInv'
  OBVIOUS
<1>1. ASSUME NEW t \in Worker, Acquire(t) \/ Run(t) PROVE IInv'
  BY <1>1, AwakeKeeps, LockKeeps, RelockKeeps, TestQuitKeeps, WaitKeeps, UnlockKeeps DEF Acquire, Run
<1>2. CASE UNCHANGED vars
  BY <1>2 DEF vars, IInv, Types, Holders, Blocked, QuitSeen, Sleepers
<1> QED  BY <1>1, <1>2, OtherStep DEF Next

(* What is asked of the scheduler follows. *)
LEMMA IInvImplies == IInv => SleepInv
<1> SUFFICES ASSUME IInv PROVE SleepInv
  OBVIOUS
<1>1. TypeOK
  BY SleepersCounted, Workers DEF IInv, Types, TypeOK
<1>2. SleepExact
  BY DEF IInv, Sleepers, SleepExact
<1> QED  BY <1>1, <1>2 DEF IInv, QuitSeen, QuitWakesAll, SleepInv

(***************************************************************************)
(* In every run of a node, with any number of workers, m->sleep counts     *)
(* those that are about to wait, wait or have been woken, and no worker is *)
(* left in pthread_cond_wait after quit: it is tested and set under the    *)
(* mutex that pthread_cond_wait gives up (thread_worker, thread_timer).    *)
(***************************************************************************)
THEOREM SleepHolds == Spec => []SleepInv
<1>1. Init => IInv
  BY IInvInit
<1>2. IInv /\ [Next]_vars => IInv'
  BY IInvStep
<1>3. IInv => SleepInv
  BY IInvImplies
<1> QED  BY <1>1, <1>2, <1>3, PTL DEF Spec

-----------------------------------------------------------------------------
(***************************************************************************)
(* The table of handles: skynet_handle_retireall leaves no service behind, *)
(* although the table grows under it.  Whatever threads launch services at *)
(* the same time, every service is found under its own handle, and         *)
(* doubling the table meets no collision, until a doubling meets a context *)
(* that has no handle yet (raced); the run handles_race shows what that    *)
(* one does.                                                               *)
(***************************************************************************)

(* What pending holds for a launcher that has still to store a handle *)
Joint == [ctx : Ctx, handle : 1 .. HandleMask]

TableOK == /\ slot_size \in Nat \ {0}
           /\ slot \in [0 .. slot_size - 1 -> Ctx \cup {Nil}]
           /\ handle_index \in Nat \ {0}
           /\ handle \in [Ctx -> 0 .. HandleMask]
           /\ pending \in [Launcher -> Joint \cup {Nil}]

(* A context without a slot, and one that waits for its handle, has the    *)
(* handle 0, so that nothing can be found under it; no two launchers wait  *)
(* for the same context.                                                   *)
Joined ==
    /\ \A c \in Ctx \ Registered : handle[c] = 0
    /\ \A t \in Launcher : pending[t] # Nil => pending[t].ctx \in Registered /\ handle[pending[t].ctx] = 0
    /\ \A t, u \in Launcher : pending[t] # Nil /\ pending[u] # Nil /\ pending[t].ctx = pending[u].ctx => t = u

(***************************************************************************)
(* The services that a pass of skynet_handle_retireall has to retire are   *)
(* still there, and are in slots it has still to read, unless it retired   *)
(* some service already and will make another pass.  The one in the slot   *)
(* that was read last is the one that is retired next.                     *)
(***************************************************************************)
Ahead ==
    /\ ra \in [pc : {"idle", "read", "retire", "done"}, i : Nat, n : Nat, h : Nat, start : SUBSET (1 .. HandleMask)]
    /\ ra.start \subseteq Live
    /\ ra.pc = "retire" => ra.h \in 1 .. HandleMask
    /\ ra.pc \in {"read", "retire"} /\ ra.n = 0 => \A x \in ra.start : x % slot_size >= ra.i
    /\ ra.pc = "retire" /\ ra.n = 0 => \A x \in ra.start : x % slot_size = ra.i => x = ra.h
    /\ ra.pc = "done" => ra.start = {}

RetireInv == TableOK /\ Joined /\ Ahead

-----------------------------------------------------------------------------
(* Division *)
LEMMA ModRange == ASSUME NEW a \in Nat, NEW n \in Nat \ {0} PROVE a % n \in 0 .. n - 1
OBVIOUS

(* A number is its quotient times the divisor and its remainder. *)
LEMMA DivMod ==
    ASSUME NEW a \in Nat, NEW n \in Nat \ {0}
    PROVE  a = n * (a \div n) + (a % n) /\ a \div n \in Nat
OBVIOUS

(* Two divisions of the same number leave the same remainder. *)
LEMMA OneRemainder ==
    ASSUME NEW n \in Nat \ {0}, NEW q \in Int, NEW r \in Int, NEW p \in Int, NEW s \in Int,
           0 <= r, r < n, 0 <= s, s < n, n * q + r = n * p + s
    PROVE  r = s
OBVIOUS

(* The slot of a handle after the table is doubled: the same one, or the   *)
(* one in the same place of the second half.                               *)
LEMMA ModDouble ==
    ASSUME NEW a \in Nat, NEW n \in Nat \ {0}
    PROVE  a % (2 * n) = a % n \/ a % (2 * n) = (a % n) + n
<1> DEFINE m == 2 * n
           q == a \div m
           r == a % m
           p == a \div n
           s == a % n
<1>1. m \in Nat \ {0}
  OBVIOUS
<1>2. a = m * q + r /\ q \in Nat /\ r \in 0 .. m - 1
  BY <1>1, DivMod, ModRange
<1>3. a = n * p + s /\ p \in Nat /\ s \in 0 .. n - 1
  BY DivMod, ModRange
<1> HIDE DEF q, r, p, s
<1>4. m * q = n * (2 * q) /\ 2 * q \in Int
  BY <1>2
<1>5. CASE r < n
  <2> DEFINE w == 2 * q
  <2>1. n * w + r = n * p + s /\ w \in Int
    BY <1>2, <1>3, <1>4
  <2> HIDE DEF w
  <2>2. 0 <= r /\ r \in Int /\ 0 <= s /\ s < n /\ s \in Int /\ p \in Int
    BY <1>2, <1>3
  <2> HIDE DEF m
  <2>3. r = s
    BY <1>5, <2>1, <2>2, OneRemainder
  <2> QED  BY <2>3 DEF r, s, m
<1>6. CASE r >= n
  <2> DEFINE w == 2 * q + 1
             u == r - n
  <2>1. n * w = n * (2 * q) + n /\ w \in Int
    BY <1>2
  <2>2. 0 <= u /\ u < n /\ u \in Int
    BY <1>2, <1>6
  <2>3. n * w + u = n * p + s
    BY <1>2, <1>3, <1>4, <2>1
  <2>4. 0 <= s /\ s < n /\ s \in Int /\ p \in Int
    BY <1>3
  <2> HIDE DEF w, u, m
  <2>5. u = s
    BY <2>1, <2>2, <2>3, <2>4, OneRemainder
  <2>6. r = s + n
    BY <1>2, <1>3, <2>5 DEF u
  <2> QED  BY <2>6 DEF r, s, m
<1> QED  BY <1>2, <1>5, <1>6

-----------------------------------------------------------------------------
(* The slots of the table, and the handles that can be grabbed *)
LEMMA SlotOfHandle ==
    ASSUME TableOK, NEW h \in Nat
    PROVE  h % slot_size \in DOMAIN slot /\ slot[h % slot_size] \in Ctx \cup {Nil}
BY ModRange DEF TableOK

(* Registered is the set of the contexts in the slots. *)
LEMMA RegisteredIs ==
    ASSUME TableOK
    PROVE  /\ Registered \subseteq Ctx
           /\ \A c : c \in Registered <=> c # Nil /\ \E i \in DOMAIN slot : slot[i] = c
BY DEF Registered, TableOK

LiveMeans ==
    \A h : h \in Live <=> /\ h \in 1 .. HandleMask /\ slot[h % slot_size] # Nil
                          /\ handle[slot[h % slot_size]] = h

(* Live is the set of the handles in the slots, before and after a step. *)
LEMMA LiveIs == LiveMeans /\ LiveMeans'
<1>1. \A h : Grab(h) # Nil <=> slot[h % slot_size] # Nil /\ handle[slot[h % slot_size]] = h
  BY DEF Grab
<1>2. \A h : (Grab(h) # Nil)' <=> slot'[h % slot_size'] # Nil /\ handle'[slot'[h % slot_size']] = h
  BY DEF Grab
<1> QED  BY <1>1, <1>2 DEF Live, LiveMeans

(* The scan looks at handles that are in range and are not 0. *)
LEMMA ProbeRange == ASSUME TableOK, NEW k \in Nat PROVE Probe(k) \in 1 .. HandleMask
<1>1. handle_index + k - 1 \in Nat /\ HandleMask \in Nat \ {0}
  BY StorageAssumption DEF TableOK
<1>2. (handle_index + k - 1) % HandleMask \in 0 .. HandleMask - 1
  BY <1>1, ModRange
<1> QED  BY <1>1, <1>2 DEF Probe

(* A table into which a context may be stored: all contexts are still in   *)
(* it, and what can be found in the old table can be found in it.          *)
Good(s, n) ==
    /\ n \in Nat \ {0} /\ s \in [0 .. n - 1 -> Ctx \cup {Nil}]
    /\ n = slot_size \/ n = 2 * slot_size
    /\ \A c \in Registered : \E i \in 0 .. n - 1 : s[i] = c
    /\ \A i \in 0 .. n - 1 : s[i] = Nil \/ s[i] \in Registered
    /\ \A h \in Live : s[h % n] # Nil /\ handle[s[h % n]] = h

(* Storing a context in a free slot loses no handle. *)
LEMMA StoreKeeps ==
    ASSUME TableOK, Joined, NEW t \in Launcher, NEW c \in Fresh, NEW s, NEW n, Good(s, n),
           Store(t, c, s, n), handle' = handle
    PROVE  TableOK' /\ Joined' /\ Live \subseteq Live' /\ slot_size' \in {slot_size, 2 * slot_size}
<1>1. PICK k \in Hits(s, n) : /\ slot' = [s EXCEPT ![Probe(k) % n] = c]
                              /\ slot_size' = n /\ handle_index' = Probe(k) + 1
                              /\ pending' = [pending EXCEPT ![t] = [ctx |-> c, handle |-> Probe(k)]]
  BY DEF Store
<1> DEFINE h == Probe(k)
           j == h % n
<1>2. k \in Nat /\ s[j] = Nil
  BY DEF Hits, Good
<1>3. h \in 1 .. HandleMask /\ h \in Nat
  BY <1>2, ProbeRange, StorageAssumption
<1> HIDE DEF h
<1>4. j \in 0 .. n - 1 /\ n \in Nat \ {0}
  BY <1>3, ModRange DEF Good
<1> HIDE DEF j
<1>5. c \in Ctx /\ c # Nil /\ c \notin Registered /\ handle[c] = 0
  BY StorageAssumption DEF Fresh, Joined
<1>6. /\ slot' \in [0 .. n - 1 -> Ctx \cup {Nil}] /\ slot'[j] = c
      /\ \A i \in 0 .. n - 1 : i # j => slot'[i] = s[i]
  BY <1>1, <1>4, <1>5 DEF Good, h, j
<1>7. /\ pending'[t] = [ctx |-> c, handle |-> h] /\ pending'[t] \in Joint
      /\ \A u \in Launcher \ {t} : pending'[u] = pending[u]
  BY <1>1, <1>3, <1>5 DEF TableOK, Joint, h
<1>8. TableOK'
  <2>1. pending' \in [Launcher -> Joint' \cup {Nil}]
    BY <1>1, <1>7 DEF TableOK, Joint
  <2>2. slot_size' \in Nat \ {0} /\ handle_index' \in Nat \ {0}
    BY <1>1, <1>3, <1>4 DEF h
  <2>3. slot' \in [0 .. slot_size' - 1 -> Ctx \cup {Nil}]
    BY <1>1, <1>6
  <2>4. handle' \in [Ctx -> 0 .. HandleMask]
    BY DEF TableOK
  <2> QED  BY <2>1, <2>2, <2>3, <2>4 DEF TableOK
<1>9. Registered' = Registered \cup {c}
  <2>1. \A d : d \in Registered' <=> d # Nil /\ \E i \in 0 .. n - 1 : slot'[i] = d
    <3>1. DOMAIN slot' = 0 .. n - 1
      BY <1>6
    <3> QED  BY <1>8, <3>1, RegisteredIs DEF Registered
  <2>2. ASSUME NEW d \in Registered' PROVE d \in Registered \cup {c}
    <3>1. PICK i \in 0 .. n - 1 : slot'[i] = d /\ d # Nil
      BY <2>1
    <3> QED  BY <1>6, <3>1 DEF Good
  <2>3. c \in Registered'
    BY <1>4, <1>5, <1>6, <2>1
  <2>4. ASSUME NEW d \in Registered PROVE d \in Registered'
    <3>1. PICK i \in 0 .. n - 1 : s[i] = d
      BY DEF Good
    <3>2. d # Nil
      BY RegisteredIs
    <3>3. i # j
      BY <1>2, <3>1, <3>2 DEF h, j
    <3> QED  BY <1>6, <2>1, <3>1, <3>2, <3>3
  <2> QED  BY <2>2, <2>3, <2>4
<1>10. Joined'
  <2>1. \A d \in Ctx \ Registered' : handle'[d] = 0
    BY <1>9 DEF Joined
  <2>2. ASSUME NEW u \in Launcher, pending'[u] # Nil
        PROVE  pending'[u].ctx \in Registered' /\ handle'[pending'[u].ctx] = 0
    BY <1>5, <1>7, <1>9, <2>2 DEF Joined
  <2>3. ASSUME NEW u \in Launcher \ {t}, pending'[u] # Nil PROVE pending'[u].ctx # c
    BY <1>5, <1>7, <2>3 DEF Joined
  <2>4. pending'[t].ctx = c
    BY <1>7
  <2>5. \A u, v \in Launcher : pending'[u] # Nil /\ pending'[v] # Nil /\ pending'[u].ctx = pending'[v].ctx => u = v
    BY <1>7, <2>3, <2>4 DEF Joined
  <2> QED  BY <2>1, <2>2, <2>5 DEF Joined
<1>11. Live \subseteq Live'
  <2> SUFFICES ASSUME NEW x \in Live PROVE x \in Live'
    OBVIOUS
  <2>1. x \in 1 .. HandleMask /\ x \in Nat /\ s[x % n] # Nil /\ handle[s[x % n]] = x
    BY LiveIs, StorageAssumption DEF Good, LiveMeans
  <2>2. x % n \in 0 .. n - 1 /\ x % n # j
    BY <1>2, <1>4, <2>1, ModRange DEF h, j
  <2>3. slot'[x % n] = s[x % n]
    BY <1>6, <2>2
  <2> QED  BY <1>1, <2>1, <2>3, LiveIs DEF LiveMeans
<1>12. slot_size' \in {slot_size, 2 * slot_size}
  BY <1>1 DEF Good
<1> QED  BY <1>8, <1>10, <1>11, <1>12

(* The table as it is, and the doubled one, which is taken only when no    *)
(* two handles fall into the same slot                                     *)
LEMMA SameGood == ASSUME TableOK PROVE Good(slot, slot_size)
BY RegisteredIs, LiveIs DEF Good, TableOK, LiveMeans

(* The table of twice the size, filled by the loop of                        *)
(* skynet_handle_register, holds what the old one did.                       *)
LEMMA RehashGood ==
    ASSUME TableOK, GrowFails(2 * slot_size) = "no"
    PROVE  Good(Rehash(2 * slot_size), 2 * slot_size)
<1> DEFINE n == 2 * slot_size
           r == Rehash(n)
           here(i) == {c \in Registered : handle[c] % n = i}
<1>1. n \in Nat \ {0}
  BY DEF TableOK
<1>2. \A c, d \in Registered : handle[c] % n = handle[d] % n => c = d
  BY DEF GrowFails
<1> HIDE DEF n
<1>3. Registered \subseteq Ctx /\ Nil \notin Registered
  BY RegisteredIs, StorageAssumption
<1>4. ASSUME NEW i \in 0 .. n - 1
      PROVE  r[i] = IF here(i) = {} THEN Nil ELSE CHOOSE c \in here(i) : TRUE
  BY DEF Rehash
<1>5. ASSUME NEW i \in 0 .. n - 1
      PROVE  r[i] = Nil \/ r[i] \in here(i)
  BY <1>4
<1>6. ASSUME NEW c \in Registered
      PROVE  handle[c] % n \in 0 .. n - 1 /\ r[handle[c] % n] = c
  <2>1. handle[c] \in Nat
    BY <1>3, StorageAssumption DEF TableOK
  <2>2. handle[c] % n \in 0 .. n - 1
    BY <1>1, <2>1, ModRange
  <2>3. here(handle[c] % n) = {c}
    BY <1>2
  <2> QED  BY <1>4, <2>2, <2>3
<1>7. r \in [0 .. n - 1 -> Ctx \cup {Nil}]
  <2>1. r = [i \in 0 .. n - 1 |-> r[i]]
    BY DEF Rehash
  <2>2. \A i \in 0 .. n - 1 : r[i] \in Ctx \cup {Nil}
    BY <1>3, <1>5
  <2> QED  BY <2>1, <2>2
<1>8. ASSUME NEW h \in Live PROVE r[h % n] # Nil /\ handle[r[h % n]] = h
  <2> DEFINE c == slot[h % slot_size]
  <2>1. h \in Nat /\ c # Nil /\ handle[c] = h
    BY LiveIs, StorageAssumption DEF LiveMeans
  <2>2. c \in Registered
    BY <2>1, SlotOfHandle, RegisteredIs
  <2> HIDE DEF c
  <2> QED  BY <1>3, <1>6, <2>1, <2>2
<1> QED  BY <1>1, <1>5, <1>6, <1>7, <1>8 DEF Good, n

(* skynet_handle_register keeps the table, and retires nothing. *)
LEMMA RegisterKeeps ==
    ASSUME TableOK, Joined, NEW t \in Launcher, Register(t)
    PROVE  TableOK' /\ Joined' /\ Live \subseteq Live' /\ slot_size' \in {slot_size, 2 * slot_size} /\ ra' = ra
<1>1. handle' = handle /\ ra' = ra
  BY DEF Register
<1>2. PICK c \in Fresh : \/ Store(t, c, slot, slot_size)
                         \/ GrowFails(2 * slot_size) = "no" /\ Store(t, c, Rehash(2 * slot_size), 2 * slot_size)
                         \/ UNCHANGED <<table, pending>>
  BY DEF Register
<1>3. CASE Store(t, c, slot, slot_size)
  BY <1>1, <1>3, SameGood, StoreKeeps
<1>4. CASE GrowFails(2 * slot_size) = "no" /\ Store(t, c, Rehash(2 * slot_size), 2 * slot_size)
  BY <1>1, <1>4, RehashGood, StoreKeeps
<1>5. CASE UNCHANGED <<table, pending>>
  <2>1. UNCHANGED <<slot_size, slot, handle_index, pending, handle>>
    BY <1>1, <1>5 DEF table
  <2>2. Live' = Live /\ Registered' = Registered
    BY <2>1 DEF Live, Grab, Registered
  <2> QED  BY <1>1, <2>1, <2>2 DEF TableOK, Joined, Joint
<1> QED  BY <1>2, <1>3, <1>4, <1>5

(* ctx->handle is set: what could be grabbed still can. *)
LEMMA SetHandleKeeps ==
    ASSUME TableOK, Joined, NEW t \in Launcher, SetHandle(t)
    PROVE  TableOK' /\ Joined' /\ Live \subseteq Live' /\ slot_size' = slot_size /\ ra' = ra
<1> DEFINE c == pending[t].ctx
           h == pending[t].handle
<1>1. /\ pending[t] # Nil /\ handle' = [handle EXCEPT ![c] = h] /\ pending' = [pending EXCEPT ![t] = Nil]
      /\ UNCHANGED <<slot_size, slot, handle_index, ra>>
  BY DEF SetHandle, table
<1>2. c \in Ctx /\ h \in 1 .. HandleMask /\ c \in Registered /\ handle[c] = 0
  BY <1>1 DEF TableOK, Joint, Joined
<1> HIDE DEF c, h
<1>3. /\ handle'[c] = h /\ (\A d \in Ctx \ {c} : handle'[d] = handle[d])
      /\ pending'[t] = Nil /\ \A u \in Launcher \ {t} : pending'[u] = pending[u]
  BY <1>1, <1>2 DEF TableOK
<1>4. Registered' = Registered
  BY <1>1 DEF Registered
<1>5. TableOK'
  <2>1. handle' \in [Ctx -> 0 .. HandleMask]
    BY <1>1, <1>2, StorageAssumption DEF TableOK
  <2>2. pending' \in [Launcher -> Joint' \cup {Nil}]
    BY <1>1 DEF TableOK, Joint
  <2> QED  BY <1>1, <2>1, <2>2 DEF TableOK
<1>6. Joined'
  <2>1. \A d \in Ctx \ Registered' : handle'[d] = 0
    BY <1>2, <1>3, <1>4 DEF Joined
  <2>2. ASSUME NEW u \in Launcher, pending'[u] # Nil
        PROVE  pending'[u].ctx \in Registered' /\ handle'[pending'[u].ctx] = 0
    <3>1. u # t /\ pending'[u] = pending[u]
      BY <1>3, <2>2
    <3>2. pending[u].ctx \in Registered /\ handle[pending[u].ctx] = 0 /\ pending[u].ctx \in Ctx
      BY <2>2, <3>1, RegisteredIs DEF Joined
    <3>3. pending[u].ctx # c
      BY <1>1, <2>2, <3>1 DEF Joined, c
    <3> QED  BY <1>3, <1>4, <3>1, <3>2, <3>3
  <2>3. \A u, v \in Launcher : pending'[u] # Nil /\ pending'[v] # Nil /\ pending'[u].ctx = pending'[v].ctx => u = v
    BY <1>3 DEF Joined
  <2> QED  BY <2>1, <2>2, <2>3 DEF Joined
<1>7. Live \subseteq Live'
  <2> SUFFICES ASSUME NEW x \in Live PROVE x \in Live'
    OBVIOUS
  <2>1. /\ x \in 1 .. HandleMask /\ x \in Nat /\ x # 0 /\ slot[x % slot_size] # Nil
        /\ handle[slot[x % slot_size]] = x
    BY LiveIs, StorageAssumption DEF LiveMeans
  <2>2. slot[x % slot_size] \in Ctx
    BY <2>1, SlotOfHandle
  <2>3. slot[x % slot_size] # c
    BY <1>2, <2>1
  <2>4. handle'[slot[x % slot_size]] = x
    BY <1>3, <2>1, <2>2, <2>3
  <2> QED  BY <1>1, <2>1, <2>4, LiveIs DEF LiveMeans
<1> QED  BY <1>1, <1>5, <1>6, <1>7

(* A context is retired: only its handle can no longer be grabbed. *)
LEMMA ClearKeeps ==
    ASSUME TableOK, Joined, NEW h \in 1 .. HandleMask, Clear(h), pending' = pending
    PROVE  TableOK' /\ Joined' /\ Live \ {h} \subseteq Live' /\ slot_size' = slot_size
<1> DEFINE c == Grab(h)
           j == h % slot_size
<1>1. /\ slot' = [slot EXCEPT ![j] = IF c = Nil THEN slot[j] ELSE Nil]
      /\ handle' = [d \in Ctx |-> IF d = c THEN 0 ELSE handle[d]]
      /\ UNCHANGED <<slot_size, handle_index>>
  BY DEF Clear, ClearSlot
<1>2. h \in Nat /\ h # 0
  BY StorageAssumption
<1>3. j \in DOMAIN slot /\ slot[j] \in Ctx \cup {Nil} /\ DOMAIN slot = 0 .. slot_size - 1
  BY <1>2, SlotOfHandle DEF TableOK
<1>4. c # Nil => c = slot[j] /\ handle[c] = h /\ c \in Ctx
  BY <1>3 DEF Grab
<1> HIDE DEF c, j
<1>5. /\ slot' \in [0 .. slot_size - 1 -> Ctx \cup {Nil}] /\ DOMAIN slot' = DOMAIN slot
      /\ \A i \in DOMAIN slot : slot'[i] = IF i = j /\ c # Nil THEN Nil ELSE slot[i]
  BY <1>1, <1>3 DEF TableOK
<1>6. /\ handle' \in [Ctx -> 0 .. HandleMask]
      /\ \A d \in Ctx : handle'[d] = IF d = c THEN 0 ELSE handle[d]
  BY <1>1, StorageAssumption DEF TableOK
<1>7. TableOK'
  BY <1>1, <1>5, <1>6 DEF TableOK, Joint
<1>8. ASSUME NEW d \in Registered, d # c PROVE d \in Registered'
  <2>1. PICK i \in DOMAIN slot : slot[i] = d /\ d # Nil
    BY RegisteredIs
  <2>2. slot'[i] = d
    BY <1>4, <1>5, <1>8, <2>1
  <2> QED  BY <1>5, <2>1, <2>2 DEF Registered
<1>9. Joined'
  <2>1. ASSUME NEW d \in Ctx \ Registered' PROVE handle'[d] = 0
    BY <1>6, <1>8 DEF Joined
  <2>2. ASSUME NEW u \in Launcher, pending'[u] # Nil
        PROVE  pending'[u].ctx \in Registered' /\ handle'[pending'[u].ctx] = 0
    <3> DEFINE d == pending[u].ctx
    <3>1. d \in Registered /\ handle[d] = 0 /\ d \in Ctx
      BY <2>2, RegisteredIs DEF Joined
    <3>2. d # c
      BY <1>2, <1>4, <3>1, StorageAssumption
    <3> QED  BY <1>6, <1>8, <3>1, <3>2
  <2> QED  BY <2>1, <2>2 DEF Joined
<1>10. ASSUME NEW x \in Live \ {h} PROVE x \in Live'
  <2> DEFINE i == x % slot_size
  <2>1. x \in 1 .. HandleMask /\ x \in Nat /\ slot[i] # Nil /\ handle[slot[i]] = x
    BY LiveIs, StorageAssumption DEF LiveMeans
  <2>2. i \in DOMAIN slot /\ slot[i] \in Ctx
    BY <2>1, SlotOfHandle
  <2> HIDE DEF i
  <2>3. slot[i] # c
    BY <1>4, <2>1
  <2>4. slot'[i] = slot[i] /\ handle'[slot[i]] = x
    BY <1>4, <1>5, <1>6, <2>1, <2>2, <2>3
  <2> QED  BY <1>1, <2>1, <2>4, LiveIs DEF LiveMeans, i
<1> QED  BY <1>1, <1>7, <1>9, <1>10

-----------------------------------------------------------------------------
(* What is ahead of a pass stays ahead of it when the table grows, or when *)
(* some of it is retired by another thread.                                *)
LEMMA StaysAhead ==
    ASSUME TableOK, Ahead, slot_size' \in {slot_size, 2 * slot_size}, NEW D, ra' = [ra EXCEPT !.start = @ \ D],
           Live \ D \subseteq Live'
    PROVE  Ahead'
<1> DEFINE Pc == {"idle", "read", "retire", "done"}
           H == 1 .. HandleMask
<1>1. /\ ra \in [pc : Pc, i : Nat, n : Nat, h : Nat, start : SUBSET H]
      /\ ra.start \subseteq Live /\ slot_size \in Nat \ {0}
  BY DEF Ahead, TableOK
<1>2. \A x \in H : x \in Nat
  BY StorageAssumption
<1> HIDE DEF Pc, H
<1>3. /\ ra'.pc = ra.pc /\ ra'.i = ra.i /\ ra'.n = ra.n /\ ra'.h = ra.h /\ ra'.start = ra.start \ D
      /\ ra' \in [pc : Pc, i : Nat, n : Nat, h : Nat, start : SUBSET H]
  BY <1>1
<1>4. ra'.start \subseteq Live' /\ ra'.start \subseteq ra.start /\ ra.start \subseteq H
  BY <1>1, <1>3
<1>5. ASSUME NEW x \in ra'.start
      PROVE  /\ x % slot_size' = x % slot_size \/ x % slot_size' = (x % slot_size) + slot_size
             /\ x % slot_size \in 0 .. slot_size - 1 /\ x \in ra.start
  <2>1. x \in Nat /\ x \in ra.start
    BY <1>2, <1>4
  <2>2. x % slot_size \in 0 .. slot_size - 1
    BY <1>1, <2>1, ModRange
  <2>3. CASE slot_size' = slot_size
    BY <2>1, <2>2, <2>3
  <2>4. CASE slot_size' = 2 * slot_size
    BY <1>1, <2>1, <2>2, <2>4, ModDouble
  <2> QED  BY <2>3, <2>4
<1>6. ra'.pc = "retire" => ra'.h \in H
  BY <1>3 DEF Ahead, H
<1>7. ra'.pc = "done" => ra'.start = {}
  BY <1>3 DEF Ahead
<1>8. ASSUME ra'.pc \in {"read", "retire"}, ra'.n = 0, NEW x \in ra'.start
      PROVE  x % slot_size' >= ra'.i
  <2>1. x % slot_size >= ra.i
    BY <1>3, <1>5, <1>8 DEF Ahead
  <2> QED  BY <1>1, <1>3, <1>5, <2>1
<1>9. ASSUME ra'.pc = "retire", ra'.n = 0, NEW x \in ra'.start, x % slot_size' = ra'.i
      PROVE  x = ra'.h
  <2>1. x % slot_size >= ra.i /\ ra.i \in Nat /\ (x % slot_size = ra.i => x = ra.h)
    BY <1>1, <1>3, <1>5, <1>9 DEF Ahead
  <2>2. x % slot_size = ra.i
    BY <1>1, <1>3, <1>5, <1>9, <2>1
  <2> QED  BY <1>3, <2>1, <2>2
<1> QED  BY <1>3, <1>4, <1>6, <1>7, <1>8, <1>9 DEF Ahead, Pc, H

(* The steps of skynet_handle_retireall itself *)
LEMMA RetireAllKeeps ==
    ASSUME RetireInv, RetireAll \/ RetireAllRead \/ RetireAllPass
    PROVE  RetireInv'
<1> DEFINE Pc == {"idle", "read", "retire", "done"}
           H == 1 .. HandleMask
           Ra == [pc : Pc, i : Nat, n : Nat, h : Nat, start : SUBSET H]
<1>1. UNCHANGED <<slot_size, slot, handle_index, handle, pending>>
  BY DEF RetireAll, RetireAllRead, RetireAllPass, table
<1>2. TableOK' /\ Joined'
  BY <1>1 DEF RetireInv, TableOK, Joined, Joint, Registered
<1>3. Live' = Live /\ Live \subseteq H
  BY <1>1 DEF Live, Grab
<1>4. ra \in Ra /\ slot_size \in Nat \ {0}
  BY DEF RetireInv, Ahead, TableOK
<1>5. \A x \in H : x \in Nat /\ x # 0
  BY StorageAssumption
<1>6. \A x \in H : x % slot_size \in 0 .. slot_size - 1
  BY <1>4, <1>5, ModRange
<1>7. CASE RetireAll \/ (RetireAllPass /\ ra.n # 0)
  <2>1. ra' = [pc |-> "read", i |-> 0, n |-> 0, h |-> 0, start |-> Live]
    BY <1>7 DEF RetireAll, RetireAllPass
  <2>2. ra' \in Ra
    BY <1>3, <2>1
  <2>3. /\ ra'.pc = "read" /\ ra'.start = Live /\ ra'.i = 0
        /\ \A x \in ra'.start : x % slot_size' >= 0
    BY <1>1, <1>3, <1>6, <2>1
  <2> QED  BY <1>2, <1>3, <2>2, <2>3 DEF RetireInv, Ahead
<1>8. CASE RetireAllPass /\ ra.n = 0
  <2>1. ra.pc = "read" /\ ra.i >= slot_size /\ ra' = [ra EXCEPT !.pc = "done", !.i = 0]
    BY <1>8 DEF RetireAllPass
  <2>2. ra' \in Ra /\ ra'.pc = "done" /\ ra'.start = ra.start
    BY <1>4, <2>1
  <2>3. \A x \in ra.start : x % slot_size >= ra.i /\ x \in H
    BY <1>3, <1>8, <2>1 DEF RetireInv, Ahead
  <2>4. ra.start = {}
    BY <1>4, <1>6, <2>1, <2>3
  <2> QED  BY <1>2, <2>2, <2>4 DEF RetireInv, Ahead
<1>9. CASE RetireAllRead
  <2> DEFINE h == IF slot[ra.i] = Nil THEN 0 ELSE handle[slot[ra.i]]
  <2>1. /\ ra.pc = "read" /\ ra.i < slot_size
        /\ ra' = IF h = 0 THEN [ra EXCEPT !.i = @ + 1] ELSE [ra EXCEPT !.pc = "retire", !.h = h]
    BY <1>9 DEF RetireAllRead
  <2>2. ra.start \subseteq Live /\ ra.start \subseteq H /\ (ra.n = 0 => \A x \in ra.start : x % slot_size >= ra.i)
    BY <1>3, <2>1 DEF RetireInv, Ahead
  <2>3. \A x \in ra.start : x % slot_size = ra.i => x = h
    BY <2>2, LiveIs DEF LiveMeans
  <2>4. h \in 0 .. HandleMask
    BY <1>4, <2>1, StorageAssumption DEF RetireInv, TableOK
  <2> HIDE DEF h
  <2>5. CASE h = 0
    <3>1. ra' \in Ra /\ ra'.pc = "read" /\ ra'.start = ra.start /\ ra'.n = ra.n /\ ra'.i = ra.i + 1
      BY <1>4, <2>1, <2>5
    <3>2. ASSUME ra'.n = 0, NEW x \in ra'.start PROVE x % slot_size' >= ra'.i
      <4>1. x \in H /\ x # 0 /\ x % slot_size # ra.i /\ x % slot_size >= ra.i
        BY <1>5, <2>2, <2>3, <2>5, <3>1, <3>2
      <4> QED  BY <1>1, <1>4, <1>6, <3>1, <4>1
    <3> QED  BY <1>2, <1>3, <2>2, <3>1, <3>2 DEF RetireInv, Ahead
  <2>6. CASE h # 0
    <3>1. h \in H /\ h \in Nat
      BY <2>4, <2>6, StorageAssumption
    <3>2. ra' \in Ra /\ ra'.pc = "retire" /\ ra'.start = ra.start /\ ra'.n = ra.n /\ ra'.i = ra.i /\ ra'.h = h
      BY <1>4, <2>1, <2>6, <3>1
    <3> QED  BY <1>1, <1>2, <1>3, <2>2, <2>3, <3>1, <3>2 DEF RetireInv, Ahead
  <2> QED  BY <2>5, <2>6
<1> QED  BY <1>7, <1>8, <1>9

(* The step of skynet_handle_retireall that retires what it found *)
LEMMA RetireAllRetireKeeps ==
    ASSUME RetireInv, RetireAllRetire
    PROVE  RetireInv'
<1> DEFINE Pc == {"idle", "read", "retire", "done"}
           H == 1 .. HandleMask
           Ra == [pc : Pc, i : Nat, n : Nat, h : Nat, start : SUBSET H]
<1> DEFINE next == [ra EXCEPT !.pc = "read", !.i = @ + 1, !.h = 0]
<1>1. /\ ra.pc = "retire" /\ Clear(ra.h) /\ pending' = pending
      /\ ra' = IF Grab(ra.h) = Nil THEN next ELSE [next EXCEPT !.n = @ + 1, !.start = Live \ {ra.h}]
  BY DEF RetireAllRetire
<1>2. ra.h \in H /\ ra \in Ra /\ ra.start \subseteq Live /\ Live \subseteq H /\ slot_size \in Nat \ {0}
  BY <1>1 DEF RetireInv, Ahead, TableOK, Live
<1>3. TableOK' /\ Joined' /\ Live \ {ra.h} \subseteq Live' /\ slot_size' = slot_size
  BY <1>1, <1>2, ClearKeeps DEF RetireInv
<1>4. /\ next \in Ra /\ next.pc = "read" /\ next.i = ra.i + 1 /\ next.n = ra.n
      /\ next.start = ra.start
  <2>1. ra.i + 1 \in Nat /\ ra \in Ra
    BY <1>2
  <2> HIDE DEF H
  <2>2. next = [ra EXCEPT !.pc = "read", !.i = ra.i + 1, !.h = 0]
    BY <2>1
  <2> HIDE DEF next
  <2> QED  BY <2>1, <2>2
<1> HIDE DEF next
<1>5. CASE Grab(ra.h) = Nil
  <2>1. ra' = next /\ ra.h \notin Live
    BY <1>1, <1>5 DEF Live
  <2>2. ra'.start \subseteq Live'
    BY <1>2, <1>3, <1>4, <2>1
  <2>3. ASSUME ra'.n = 0, NEW x \in ra'.start PROVE x % slot_size' >= ra'.i
    <3>1. ra.n = 0 /\ ra.i \in Nat /\ x \in ra.start /\ x # ra.h
      BY <1>2, <1>4, <2>1, <2>3
    <3>2. x % slot_size >= ra.i /\ x % slot_size # ra.i /\ x \in H
      BY <1>1, <1>2, <3>1 DEF RetireInv, Ahead
    <3>3. x \in Nat
      BY <3>2, StorageAssumption
    <3>4. x % slot_size \in 0 .. slot_size - 1
      BY <1>2, <3>3, ModRange
    <3> QED  BY <1>2, <1>3, <1>4, <2>1, <3>1, <3>2, <3>4
  <2> QED  BY <1>3, <1>4, <2>1, <2>2, <2>3 DEF RetireInv, Ahead
<1>6. CASE Grab(ra.h) # Nil
  <2> DEFINE rest == Live \ {ra.h}
  <2>1. ra' = [next EXCEPT !.n = @ + 1, !.start = rest]
    BY <1>1, <1>6
  <2>2. rest \in SUBSET H /\ rest \subseteq Live'
    BY <1>2, <1>3
  <2> HIDE DEF rest
  <2>3. ra' \in Ra /\ ra'.pc = "read" /\ ra'.n = ra.n + 1 /\ ra'.start = rest
    <3>1. next \in Ra /\ next.n + 1 \in Nat /\ next.pc = "read" /\ next.n = ra.n
      BY <1>2, <1>4
    <3> HIDE DEF H
    <3>2. ra' = [next EXCEPT !.n = next.n + 1, !.start = rest]
      BY <2>1, <3>1
    <3> QED  BY <2>2, <3>1, <3>2
  <2>4. ra'.n # 0
    BY <1>2, <2>3
  <2> QED  BY <1>3, <2>2, <2>3, <2>4 DEF RetireInv, Ahead
<1> QED  BY <1>5, <1>6

(* The empty table satisfies the invariant. *)
LEMMA RetireInit == HandleInit => RetireInv
<1> SUFFICES ASSUME HandleInit PROVE RetireInv
  OBVIOUS
<1>1. TableOK
  BY StorageAssumption DEF HandleInit, TableOK
<1>2. Joined
  BY DEF HandleInit, Joined
<1>3. Ahead
  BY DEF HandleInit, Ahead
<1> QED  BY <1>1, <1>2, <1>3 DEF RetireInv

(* Every step keeps the invariant behind RetireAllComplete. *)
LEMMA RetireNext == RetireInv /\ [HandleNext]_handleVars => RetireInv'
<1> SUFFICES ASSUME RetireInv, [HandleNext]_handleVars PROVE RetireInv'
  OBVIOUS
<1> DEFINE none == {}
<1>0. /\ TableOK /\ Joined /\ Ahead
      /\ ra = [ra EXCEPT !.start = @ \ none]
  BY DEF RetireInv, Ahead
<1> HIDE DEF none
<1>1. ASSUME NEW t \in Launcher, Register(t) PROVE RetireInv'
  <2>1. TableOK' /\ Joined' /\ Live \subseteq Live' /\ slot_size' \in {slot_size, 2 * slot_size} /\ ra' = ra
    BY <1>0, <1>1, RegisterKeeps
  <2>2. Live \ none \subseteq Live' /\ ra' = [ra EXCEPT !.start = @ \ none]
    BY <1>0, <2>1
  <2> QED  BY <1>0, <2>1, <2>2, StaysAhead DEF RetireInv
<1>2. ASSUME NEW t \in Launcher, SetHandle(t) PROVE RetireInv'
  <2>1. TableOK' /\ Joined' /\ Live \subseteq Live' /\ slot_size' = slot_size /\ ra' = ra
    BY <1>0, <1>2, SetHandleKeeps
  <2>2. Live \ none \subseteq Live' /\ ra' = [ra EXCEPT !.start = @ \ none]
    BY <1>0, <2>1
  <2> QED  BY <1>0, <2>1, <2>2, StaysAhead DEF RetireInv
<1>3. ASSUME NEW h \in Live, Retire(h) PROVE RetireInv'
  <2>1. h \in 1 .. HandleMask /\ Clear(h) /\ pending' = pending /\ ra' = [ra EXCEPT !.start = @ \ {h}]
    BY <1>3 DEF Retire, Live
  <2>2. TableOK' /\ Joined' /\ Live \ {h} \subseteq Live' /\ slot_size' = slot_size
    BY <1>0, <2>1, ClearKeeps
  <2> QED  BY <1>0, <2>1, <2>2, StaysAhead DEF RetireInv
<1>4. CASE RetireAll \/ RetireAllRead \/ RetireAllPass
  BY <1>4, RetireAllKeeps
<1>5. CASE RetireAllRetire
  BY <1>5, RetireAllRetireKeeps
<1>6. CASE UNCHANGED handleVars \/ \E x \in Name, h \in 1 .. HandleMask : NameHandle(x, h)
  <2>1. UNCHANGED <<slot_size, slot, handle_index, handle, pending, ra>>
    BY <1>6 DEF NameHandle, handleVars, table
  <2>2. Live' = Live /\ Registered' = Registered
    BY <2>1 DEF Live, Grab, Registered
  <2> QED  BY <2>1, <2>2 DEF RetireInv, TableOK, Joined, Ahead, Joint
<1> QED  BY <1>1, <1>2, <1>3, <1>4, <1>5, <1>6 DEF HandleNext

(***************************************************************************)
(* skynet_handle_retireall returns only when every service that could be   *)
(* found when it last began a pass, or last retired a service, is retired: *)
(* for any number of threads that launch and retire services and double    *)
(* the table under it, also when a doubling raced with a launch.           *)
(***************************************************************************)
THEOREM RetireAllCompletes == HandleSpec => []RetireAllComplete
<1>1. RetireInv => RetireAllComplete
  BY DEF RetireInv, Ahead, RetireAllComplete
<1> QED  BY <1>1, RetireInit, RetireNext, PTL DEF HandleSpec

-----------------------------------------------------------------------------
(***************************************************************************)
(* Every context is in the slot of the handle it has or is about to get,   *)
(* and in no other.  A doubling that finds two contexts for one slot has   *)
(* not happened.                                                           *)
(***************************************************************************)
Placed ==
    /\ \A c \in Registered \ Unset : handle[c] # 0 /\ slot[handle[c] % slot_size] = c
    /\ \A t \in Launcher : pending[t] # Nil => slot[pending[t].handle % slot_size] = pending[t].ctx
    /\ \A i, j \in DOMAIN slot : slot[i] # Nil /\ slot[i] = slot[j] => i = j
    /\ crash # "collision"

PlacedInv == TableOK /\ Joined /\ Placed

(* This is so until a doubling races with a launch. *)
PlacedUnlessRaced == ~raced => PlacedInv

(* Unset is the set of the contexts whose handle is not written yet. *)
LEMMA UnsetIs == \A c : c \in Unset <=> \E t \in Launcher : pending[t] # Nil /\ pending[t].ctx = c
BY DEF Unset

(* A record is not NULL. *)
LEMMA JointNotNil == Nil \notin Joint
BY StorageAssumption DEF Joint

(* The context goes to a free slot of table s, in which all others are placed. *)
LEMMA StorePlaces ==
    ASSUME TableOK, Joined, crash # "collision",
           NEW t \in Launcher, pending[t] = Nil, NEW c \in Fresh, NEW s, NEW n, Good(s, n),
           \A d \in Registered \ Unset : handle[d] # 0 /\ s[handle[d] % n] = d,
           \A u \in Launcher : pending[u] # Nil => s[pending[u].handle % n] = pending[u].ctx,
           \A i, j \in 0 .. n - 1 : s[i] # Nil /\ s[i] = s[j] => i = j,
           Store(t, c, s, n), handle' = handle
    PROVE  PlacedInv'
<1>0. TableOK' /\ Joined'
  BY StoreKeeps
<1>1. PICK k \in Hits(s, n) : /\ slot' = [s EXCEPT ![Probe(k) % n] = c]
                              /\ slot_size' = n /\ UNCHANGED crash
                              /\ pending' = [pending EXCEPT ![t] = [ctx |-> c, handle |-> Probe(k)]]
  BY DEF Store
<1> DEFINE h == Probe(k)
           j == h % n
<1>2. k \in Nat /\ s[j] = Nil
  BY DEF Hits, Good
<1>3. h \in 1 .. HandleMask /\ h \in Nat
  BY <1>2, ProbeRange, StorageAssumption
<1> HIDE DEF h
<1>4. j \in 0 .. n - 1 /\ n \in Nat \ {0}
  BY <1>3, ModRange DEF Good
<1>5. c \in Ctx /\ c # Nil /\ c \notin Registered
  BY StorageAssumption DEF Fresh
<1>6. /\ slot'[j] = c /\ DOMAIN slot' = 0 .. n - 1
      /\ \A i \in 0 .. n - 1 : i # j => slot'[i] = s[i]
  BY <1>1, <1>4, <1>5 DEF Good, h
<1>7. pending'[t] = [ctx |-> c, handle |-> h] /\ [ctx |-> c, handle |-> h] \in Joint
  BY <1>1, <1>3, <1>5 DEF TableOK, Joint, h
<1>8. pending'[t] # Nil /\ pending'[t].ctx = c /\ pending'[t].handle = h
  BY <1>7, JointNotNil
<1>9. \A u \in Launcher \ {t} : pending'[u] = pending[u]
  BY <1>1 DEF TableOK
<1>10. c \in Unset' /\ \A d : d \in Unset => d \in Unset'
  <2>1. \A d : d \in Unset' <=> \E u \in Launcher : pending'[u] # Nil /\ pending'[u].ctx = d
    BY DEF Unset
  <2>2. ASSUME NEW d, d \in Unset PROVE d \in Unset'
    <3>1. PICK u \in Launcher : pending[u] # Nil /\ pending[u].ctx = d
      BY <2>2, UnsetIs
    <3>2. pending'[u] = pending[u]
      BY <1>9, <3>1
    <3> QED  BY <2>1, <3>1, <3>2
  <2> QED  BY <1>8, <2>1, <2>2
<1>11. ASSUME NEW i \in 0 .. n - 1 PROVE s[i] = Nil \/ (s[i] \in Registered /\ s[i] # c)
  <2>1. s[i] = Nil \/ s[i] \in Registered
    BY DEF Good
  <2> QED  BY <1>5, <2>1
<1>12. ASSUME NEW d \in Registered' \ Unset'
       PROVE  handle'[d] # 0 /\ slot'[handle'[d] % slot_size'] = d
  <2>1. PICK i \in 0 .. n - 1 : slot'[i] = d /\ d # Nil
    BY <1>6 DEF Registered
  <2>2. d \in Registered /\ handle[d] # 0 /\ s[handle[d] % n] = d
    <3>1. d # c /\ d \notin Unset
      BY <1>10
    <3>2. d \in Registered
      BY <1>6, <1>11, <2>1, <3>1
    <3> QED  BY <3>1, <3>2
  <2>3. handle[d] \in Nat
    BY <2>2, RegisteredIs, StorageAssumption DEF TableOK
  <2>4. handle[d] % n \in 0 .. n - 1
    BY <1>4, <2>3, ModRange
  <2>5. handle[d] % n # j
    BY <1>2, <2>1, <2>2 DEF h
  <2> HIDE DEF j
  <2> QED  BY <1>1, <1>6, <2>2, <2>4, <2>5
<1>13. ASSUME NEW u \in Launcher, pending'[u] # Nil
       PROVE  slot'[pending'[u].handle % slot_size'] = pending'[u].ctx
  <2>1. CASE u = t
    BY <1>1, <1>6, <1>8, <2>1
  <2>2. CASE u # t
    <3> DEFINE d == pending[u].ctx
               x == pending[u].handle
    <3>1. pending'[u] = pending[u] /\ pending[u] # Nil
      BY <1>9, <1>13, <2>2
    <3>2. d \in Ctx /\ d # Nil /\ x \in Nat /\ s[x % n] = d
      BY <3>1, StorageAssumption DEF TableOK, Joint
    <3> HIDE DEF d, x
    <3>3. x % n \in 0 .. n - 1 /\ x % n # j
      BY <1>2, <1>4, <3>2, ModRange DEF h
    <3> HIDE DEF j
    <3>4. slot'[x % n] = d
      BY <1>6, <3>2, <3>3
    <3> QED  BY <1>1, <3>1, <3>4 DEF d, x
  <2> QED  BY <2>1, <2>2
<1> HIDE DEF j
<1>14. ASSUME NEW a \in DOMAIN slot', NEW b \in DOMAIN slot', slot'[a] # Nil, slot'[a] = slot'[b]
       PROVE  a = b
  <2>1. a \in 0 .. n - 1 /\ b \in 0 .. n - 1
    BY <1>6
  <2>2. CASE a # j /\ b # j
    BY <1>6, <1>14, <2>1, <2>2
  <2>3. CASE a = j \/ b = j
    BY <1>6, <1>11, <1>14, <2>1, <2>3, <1>5
  <2> QED  BY <2>2, <2>3
<1>15. crash' # "collision"
  BY <1>1
<1> QED  BY <1>0, <1>12, <1>13, <1>14, <1>15 DEF PlacedInv, Placed

(* Two handles in different slots stay in different slots when n doubles. *)
LEMMA StillApart ==
    ASSUME NEW a \in Nat, NEW b \in Nat, NEW n \in Nat \ {0}, a % (2 * n) = b % (2 * n)
    PROVE  a % n = b % n
<1> DEFINE r == a % n
           s == b % n
<1>1. r \in 0 .. n - 1 /\ s \in 0 .. n - 1
  BY ModRange
<1>2. \/ a % (2 * n) = r \/ a % (2 * n) = r + n
  BY ModDouble
<1>3. \/ b % (2 * n) = s \/ b % (2 * n) = s + n
  BY ModDouble
<1> HIDE DEF r, s
<1>4. r = s
  BY <1>1, <1>2, <1>3
<1> QED  BY <1>4 DEF r, s

(* Every handle is in its place after the next one is registered, unless a   *)
(* doubling meets a context whose handle is not written yet.                 *)
LEMMA RegisterPlaces ==
    ASSUME PlacedInv, NEW t \in Launcher, Register(t), ~raced'
    PROVE  PlacedInv'
<1> DEFINE n == 2 * slot_size
           Quiet == \A u \in Launcher : pending[u] = Nil
<1>1. handle' = handle /\ pending[t] = Nil
  BY DEF Register
<1>2. TableOK /\ Joined /\ crash # "collision" /\ slot_size \in Nat \ {0} /\ DOMAIN slot = 0 .. slot_size - 1
  BY DEF PlacedInv, Placed, TableOK
<1>3. Quiet => Unset = {}
  BY UnsetIs
<1>4. ASSUME Quiet
      PROVE  \A d \in Registered : handle[d] # 0 /\ slot[handle[d] % slot_size] = d /\ d \in Ctx /\ handle[d] \in Nat
  BY <1>2, <1>3, <1>4, RegisteredIs, StorageAssumption DEF PlacedInv, Placed, TableOK
<1>5. ASSUME Quiet PROVE \A c, d \in Registered : handle[c] % n = handle[d] % n => c = d
  <2> SUFFICES ASSUME NEW c \in Registered, NEW d \in Registered, handle[c] % n = handle[d] % n
               PROVE  c = d
    OBVIOUS
  <2>0. handle[c] \in Nat /\ handle[d] \in Nat /\ slot[handle[c] % slot_size] = c /\ slot[handle[d] % slot_size] = d
    BY <1>4, <1>5
  <2>1. handle[c] % slot_size = handle[d] % slot_size
    BY <1>2, <2>0, StillApart
  <2> QED  BY <2>0, <2>1
<1>6. Quiet => GrowFails(n) # "collision"
  BY <1>5 DEF GrowFails
<1>7. PICK c \in Fresh : \/ Store(t, c, slot, slot_size)
                         \/ Quiet /\ GrowFails(n) = "no" /\ Store(t, c, Rehash(n), n)
                         \/ Quiet /\ UNCHANGED <<table, pending>> /\ crash' = GrowFails(n)
  <2>1. PICK c \in Fresh :
          \/ Store(t, c, slot, slot_size)
          \/ /\ raced' = (raced \/ \E u \in Launcher : pending[u] # Nil)
             /\ \/ GrowFails(n) = "no" /\ Store(t, c, Rehash(n), n)
                \/ UNCHANGED <<table, pending>> /\ crash' = GrowFails(n)
    BY DEF Register
  <2>2. raced' = (raced \/ \E u \in Launcher : pending[u] # Nil) => Quiet
    OBVIOUS
  <2> HIDE DEF Quiet
  <2> QED  BY <2>1, <2>2
<1>8. CASE Store(t, c, slot, slot_size)
  <2>1. /\ \A i, j \in 0 .. slot_size - 1 : slot[i] # Nil /\ slot[i] = slot[j] => i = j
        /\ \A d \in Registered \ Unset : handle[d] # 0 /\ slot[handle[d] % slot_size] = d
        /\ \A u \in Launcher : pending[u] # Nil => slot[pending[u].handle % slot_size] = pending[u].ctx
    BY <1>2 DEF PlacedInv, Placed
  <2> QED  BY <1>1, <1>2, <1>8, <2>1, SameGood, StorePlaces
<1>9. CASE Quiet /\ GrowFails(n) = "no" /\ Store(t, c, Rehash(n), n)
  <2> DEFINE r == Rehash(n)
             here(i) == {d \in Registered : handle[d] % n = i}
  <2>1. Good(r, n) /\ n \in Nat \ {0}
    BY <1>2, <1>9, RehashGood
  <2> HIDE DEF n
  <2>2. ASSUME NEW i \in 0 .. n - 1
        PROVE  r[i] = IF here(i) = {} THEN Nil ELSE CHOOSE d \in here(i) : TRUE
    BY DEF Rehash
  <2>3. ASSUME NEW d \in Registered PROVE handle[d] # 0 /\ r[handle[d] % n] = d
    <3>1. handle[d] % n \in 0 .. n - 1
      BY <1>4, <1>9, <2>1, ModRange
    <3>2. here(handle[d] % n) = {d}
      BY <1>5, <1>9
    <3> QED  BY <1>4, <1>9, <2>2, <3>1, <3>2
  <2>4. ASSUME NEW i \in 0 .. n - 1, r[i] # Nil PROVE r[i] \in Registered /\ handle[r[i]] % n = i
    BY <2>2, <2>4
  <2>5. \A i, j \in 0 .. n - 1 : r[i] # Nil /\ r[i] = r[j] => i = j
    BY <2>4
  <2> HIDE DEF r
  <2>6. \A u \in Launcher : pending[u] # Nil => r[pending[u].handle % n] = pending[u].ctx
    BY <1>9
  <2>7. Store(t, c, r, n)
    BY <1>9 DEF r
  <2> HIDE DEF Quiet
  <2> QED  BY <1>1, <1>2, <2>1, <2>3, <2>5, <2>6, <2>7, StorePlaces
<1>10. CASE Quiet /\ UNCHANGED <<table, pending>> /\ crash' = GrowFails(n)
  <2>1. UNCHANGED <<slot_size, slot, handle_index, pending, handle>> /\ crash' # "collision"
    BY <1>1, <1>6, <1>10 DEF table
  <2>2. Registered' = Registered /\ Unset' = Unset
    BY <2>1 DEF Registered, Unset
  <2> QED  BY <2>1, <2>2 DEF PlacedInv, Placed, TableOK, Joined, Joint
<1> QED  BY <1>7, <1>8, <1>9, <1>10

(* Writing the handle into the context completes its place. *)
LEMMA SetHandlePlaces ==
    ASSUME PlacedInv, NEW t \in Launcher, SetHandle(t)
    PROVE  PlacedInv'
<1> DEFINE c == pending[t].ctx
           h == pending[t].handle
<1>1. /\ pending[t] # Nil /\ handle' = [handle EXCEPT ![c] = h] /\ pending' = [pending EXCEPT ![t] = Nil]
      /\ UNCHANGED <<slot_size, slot, handle_index, crash>>
  BY DEF SetHandle, table
<1>2. TableOK /\ Joined
  BY DEF PlacedInv
<1>3. TableOK' /\ Joined'
  BY <1>2, SetHandleKeeps
<1>4. c \in Ctx /\ h \in 1 .. HandleMask /\ h # 0 /\ slot[h % slot_size] = c
  BY <1>1, StorageAssumption DEF PlacedInv, Placed, TableOK, Joint
<1> HIDE DEF c, h
<1>5. /\ handle'[c] = h /\ (\A d \in Ctx \ {c} : handle'[d] = handle[d])
      /\ pending'[t] = Nil /\ \A u \in Launcher \ {t} : pending'[u] = pending[u]
  BY <1>1, <1>2, <1>4 DEF TableOK
<1>6. Registered' = Registered /\ Registered \subseteq Ctx
  BY <1>1, <1>2, RegisteredIs DEF Registered
<1>7. ASSUME NEW d, d \in Unset, d # c PROVE d \in Unset'
  <2>1. PICK u \in Launcher : pending[u] # Nil /\ pending[u].ctx = d
    BY <1>7, UnsetIs
  <2>2. pending'[u] = pending[u]
    BY <1>5, <1>7, <2>1 DEF c
  <2> QED  BY <2>1, <2>2 DEF Unset
<1>8. ASSUME NEW d \in Registered' \ Unset' PROVE handle'[d] # 0 /\ slot'[handle'[d] % slot_size'] = d
  <2>1. CASE d = c
    BY <1>1, <1>4, <1>5, <2>1
  <2>2. CASE d # c
    <3>1. d \in Registered \ Unset /\ d \in Ctx
      BY <1>6, <1>7, <2>2
    <3>2. handle[d] # 0 /\ slot[handle[d] % slot_size] = d
      BY <3>1 DEF PlacedInv, Placed
    <3> QED  BY <1>1, <1>5, <2>2, <3>1, <3>2
  <2> QED  BY <2>1, <2>2
<1>9. ASSUME NEW u \in Launcher, pending'[u] # Nil
      PROVE  slot'[pending'[u].handle % slot_size'] = pending'[u].ctx
  BY <1>1, <1>5, <1>9 DEF PlacedInv, Placed
<1>10. /\ \A i, j \in DOMAIN slot' : slot'[i] # Nil /\ slot'[i] = slot'[j] => i = j
       /\ crash' # "collision"
  BY <1>1 DEF PlacedInv, Placed
<1> QED  BY <1>3, <1>8, <1>9, <1>10 DEF PlacedInv, Placed

(* Retiring a handle empties its own slot only. *)
LEMMA ClearPlaces ==
    ASSUME PlacedInv, NEW h \in 1 .. HandleMask, Clear(h), UNCHANGED <<pending, crash>>
    PROVE  PlacedInv'
<1> DEFINE c == Grab(h)
           j == h % slot_size
<1>1. /\ slot' = [slot EXCEPT ![j] = IF c = Nil THEN slot[j] ELSE Nil]
      /\ handle' = [d \in Ctx |-> IF d = c THEN 0 ELSE handle[d]]
      /\ UNCHANGED <<slot_size, handle_index>>
  BY DEF Clear, ClearSlot
<1>2. TableOK /\ Joined /\ h \in Nat /\ h # 0
  BY StorageAssumption DEF PlacedInv
<1>3. TableOK' /\ Joined'
  BY <1>2, ClearKeeps
<1>4. j \in DOMAIN slot /\ slot[j] \in Ctx \cup {Nil} /\ DOMAIN slot = 0 .. slot_size - 1
  BY <1>2, SlotOfHandle DEF TableOK
<1>5. c # Nil => c = slot[j] /\ handle[c] = h /\ c \in Ctx
  BY <1>4 DEF Grab
<1> HIDE DEF c, j
<1>6. /\ DOMAIN slot' = DOMAIN slot
      /\ \A i \in DOMAIN slot : slot'[i] = IF i = j /\ c # Nil THEN Nil ELSE slot[i]
  BY <1>1, <1>2, <1>4 DEF TableOK
<1>7. \A d \in Ctx : handle'[d] = IF d = c THEN 0 ELSE handle[d]
  BY <1>1
<1>8. \A a, b \in DOMAIN slot : slot[a] # Nil /\ slot[a] = slot[b] => a = b
  BY DEF PlacedInv, Placed
<1>9. Unset' = Unset
  BY DEF Unset
<1>10. ASSUME NEW d \in Registered' PROVE d \in Registered /\ d # c /\ d \in Ctx /\ d # Nil
  <2>1. PICK i \in DOMAIN slot : slot'[i] = d /\ d # Nil
    BY <1>6 DEF Registered
  <2>2. slot[i] = d
    BY <1>6, <2>1
  <2>3. d \in Registered /\ d \in Ctx
    BY <1>2, <2>1, <2>2, RegisteredIs
  <2>4. d # c
    BY <1>4, <1>5, <1>6, <1>8, <2>1, <2>2
  <2> QED  BY <2>1, <2>3, <2>4
<1>11. ASSUME NEW i \in DOMAIN slot, slot[i] # c PROVE slot'[i] = slot[i]
  BY <1>5, <1>6, <1>11
<1>12. ASSUME NEW d \in Registered' \ Unset' PROVE handle'[d] # 0 /\ slot'[handle'[d] % slot_size'] = d
  <2>1. d \in Registered \ Unset /\ d # c /\ d \in Ctx
    BY <1>9, <1>10
  <2>2. handle[d] # 0 /\ slot[handle[d] % slot_size] = d /\ handle[d] \in Nat
    BY <1>2, <2>1, StorageAssumption DEF PlacedInv, Placed, TableOK
  <2>3. handle[d] % slot_size \in DOMAIN slot
    BY <1>2, <2>2, SlotOfHandle
  <2>4. slot'[handle[d] % slot_size] = d
    BY <1>11, <2>1, <2>2, <2>3
  <2> QED  BY <1>1, <1>7, <2>1, <2>2, <2>4
<1>13. ASSUME NEW u \in Launcher, pending'[u] # Nil
       PROVE  slot'[pending'[u].handle % slot_size'] = pending'[u].ctx
  <2> DEFINE d == pending[u].ctx
             x == pending[u].handle
  <2>1. d \in Ctx /\ x \in Nat /\ handle[d] = 0 /\ slot[x % slot_size] = d
    BY <1>2, <1>13, StorageAssumption DEF PlacedInv, Placed, Joined, TableOK, Joint
  <2>2. d # c
    BY <1>2, <1>5, <2>1, StorageAssumption
  <2>3. x % slot_size \in DOMAIN slot
    BY <1>2, <2>1, SlotOfHandle
  <2> QED  BY <1>1, <1>11, <2>1, <2>2, <2>3
<1>14. ASSUME NEW a \in DOMAIN slot', NEW b \in DOMAIN slot', slot'[a] # Nil, slot'[a] = slot'[b]
       PROVE  a = b
  BY <1>6, <1>8, <1>14
<1>15. crash' # "collision"
  BY DEF PlacedInv, Placed
<1> QED  BY <1>3, <1>12, <1>13, <1>14, <1>15 DEF PlacedInv, Placed

(* In the empty table every handle is in its place. *)
LEMMA PlacedInit == HandleInit => PlacedInv
<1> SUFFICES ASSUME HandleInit PROVE PlacedInv
  OBVIOUS
<1>1. TableOK /\ Joined
  BY RetireInit DEF RetireInv
<1>2. Registered = {}
  BY DEF HandleInit, Registered
<1>3. Placed
  BY <1>2 DEF HandleInit, Placed
<1> QED  BY <1>1, <1>3 DEF PlacedInv

(* A doubling that raced with a launch is not forgotten. *)
LEMMA RacedStays == [HandleNext]_handleVars /\ ~raced' => ~raced
<1> SUFFICES ASSUME [HandleNext]_handleVars, ~raced' PROVE ~raced
  OBVIOUS
<1>1. ASSUME NEW t \in Launcher, Register(t) PROVE ~raced
  <2>1. raced' = raced \/ raced' = (raced \/ \E u \in Launcher : pending[u] # Nil)
    BY <1>1 DEF Register
  <2> QED  BY <2>1, Zenon
<1>2. CASE raced' = raced
  BY <1>2
<1>3. \/ \E t \in Launcher : Register(t)
      \/ raced' = raced
  BY DEF HandleNext, SetHandle, Retire, RetireAll, RetireAllRead, RetireAllRetire, RetireAllPass, NameHandle, handleVars
<1> QED  BY <1>1, <1>2, <1>3

(* Every other step keeps the handles in their places. *)
LEMMA PlacedNext == RetireInv /\ PlacedInv /\ [HandleNext]_handleVars /\ ~raced' => PlacedInv'
<1> SUFFICES ASSUME RetireInv, PlacedInv, [HandleNext]_handleVars, ~raced' PROVE PlacedInv'
  OBVIOUS
<1>1. ASSUME NEW t \in Launcher, Register(t) PROVE PlacedInv'
  BY <1>1, RegisterPlaces
<1>2. ASSUME NEW t \in Launcher, SetHandle(t) PROVE PlacedInv'
  BY <1>2, SetHandlePlaces
<1>3. ASSUME NEW h \in Live, Retire(h) PROVE PlacedInv'
  <2>1. h \in 1 .. HandleMask /\ Clear(h) /\ UNCHANGED <<pending, crash>>
    BY <1>3 DEF Retire, Live
  <2> QED  BY <2>1, ClearPlaces
<1>4. CASE RetireAllRetire
  <2>1. ra.h \in 1 .. HandleMask /\ Clear(ra.h) /\ UNCHANGED <<pending, crash>>
    BY <1>4 DEF RetireAllRetire, RetireInv, Ahead
  <2> QED  BY <2>1, ClearPlaces
<1>5. CASE \/ RetireAll \/ RetireAllRead \/ RetireAllPass \/ UNCHANGED handleVars
           \/ \E x \in Name, h \in 1 .. HandleMask : NameHandle(x, h)
  <2>1. UNCHANGED <<slot_size, slot, handle_index, handle, pending, crash>>
    BY <1>5 DEF RetireAll, RetireAllRead, RetireAllPass, NameHandle, handleVars, table
  <2>2. Registered' = Registered /\ Unset' = Unset
    BY <2>1 DEF Registered, Unset
  <2> QED  BY <2>1, <2>2 DEF PlacedInv, Placed, TableOK, Joined, Joint
<1> QED  BY <1>1, <1>2, <1>3, <1>4, <1>5 DEF HandleNext

(* Every handle is in its place until a doubling races with a launch. *)
LEMMA PlacedHolds == HandleSpec => []PlacedUnlessRaced
<1>1. HandleInit => PlacedUnlessRaced
  BY PlacedInit DEF PlacedUnlessRaced
<1>2. RetireInv /\ PlacedUnlessRaced /\ [HandleNext]_handleVars => PlacedUnlessRaced'
  <2> SUFFICES ASSUME RetireInv, PlacedUnlessRaced, [HandleNext]_handleVars, ~raced' PROVE PlacedInv'
    BY DEF PlacedUnlessRaced
  <2>1. PlacedInv
    BY RacedStays DEF PlacedUnlessRaced
  <2> QED  BY <2>1, PlacedNext
<1> QED  BY <1>1, <1>2, RetireInit, RetireNext, PTL DEF HandleSpec

(***************************************************************************)
(* Every service is found under its handle by skynet_handle_grab, which is *)
(* not 0, however often the table of skynet_handle_register was doubled    *)
(* and handles were given again, with any number of threads that launch:   *)
(* until a doubling meets a context whose handle is still to be stored.    *)
(***************************************************************************)
THEOREM ReachableHolds == HandleSpec => [](~raced => Reachable)
<1>1. PlacedUnlessRaced => (~raced => Reachable)
  <2>1. PlacedInv => Reachable
    BY DEF PlacedInv, Placed, Reachable, Grab
  <2> QED  BY <2>1 DEF PlacedUnlessRaced
<1> QED  BY <1>1, PlacedHolds, PTL

(***************************************************************************)
(* No two contexts have or are about to get the same handle, also when     *)
(* several threads are between skynet_handle_register and the store of the *)
(* handle: until a doubling meets such a context.                          *)
(***************************************************************************)
THEOREM UniqueHandlesHold == HandleSpec => [](~raced => UniqueHandles)
<1>1. PlacedInv => UniqueHandles
  <2> SUFFICES ASSUME PlacedInv PROVE UniqueHandles
    OBVIOUS
  <2> DEFINE p(c) == CHOOSE q \in {pending[t] : t \in Launcher} : q # Nil /\ q.ctx = c
             h(c) == IF c \in Unset THEN p(c).handle ELSE handle[c]
  <2>1. ASSUME NEW c \in Registered \cup Unset PROVE slot[h(c) % slot_size] = c
    <3>1. CASE c \in Unset
      <4>1. \E q \in {pending[t] : t \in Launcher} : q # Nil /\ q.ctx = c
        BY <3>1, UnsetIs
      <4>2. p(c) \in {pending[t] : t \in Launcher} /\ p(c) # Nil /\ p(c).ctx = c
        BY <4>1
      <4> HIDE DEF p
      <4>3. PICK t \in Launcher : pending[t] = p(c)
        BY <4>2
      <4> QED  BY <3>1, <4>2, <4>3 DEF PlacedInv, Placed
    <3>2. CASE c \notin Unset
      BY <3>2 DEF PlacedInv, Placed
    <3> QED  BY <3>1, <3>2
  <2> HIDE DEF h
  <2>2. \A c, d \in Registered \cup Unset : c # d => h(c) # h(d)
    BY <2>1
  <2> QED  BY <2>2 DEF UniqueHandles, h
<1>2. PlacedUnlessRaced => (~raced => UniqueHandles)
  BY <1>1 DEF PlacedUnlessRaced
<1> QED  BY <1>2, PlacedHolds, PTL

(***************************************************************************)
(* assert(new_slot[hash] == NULL) of skynet_handle_register fails only in  *)
(* a doubling that meets a context whose handle its launcher has still to  *)
(* store, however many threads launch services: the race of handles_race   *)
(* is the one way to it.                                                   *)
(***************************************************************************)
THEOREM NoCollisionHolds == HandleSpec => [](~raced => NoCollision)
<1>1. PlacedUnlessRaced => (~raced => NoCollision)
  BY DEF PlacedUnlessRaced, PlacedInv, Placed, NoCollision
<1> QED  BY <1>1, PlacedHolds, PTL

-----------------------------------------------------------------------------
(* The names of services: a sorted table and the binary search in it. *)

(* The names are in the order of strcmp, and none is there twice. *)
Entry == [name : Name, handle : 1 .. HandleMask]
Sorted(s) == \A i, j \in DOMAIN s : i < j => s[i].name < s[j].name

(* Where x is, or where it has to be inserted before *)
Cut(k, s, x) ==
    /\ k \in 0 .. Len(s)
    /\ \A i \in DOMAIN s : IF i <= k THEN s[i].name < x ELSE x <= s[i].name

(* An entry has a name, and names are ordered. *)
LEMMA EntryIs ==
    ASSUME NEW s \in Seq(Entry)
    PROVE  /\ Len(s) \in Nat /\ DOMAIN s = 1 .. Len(s)
           /\ \A i \in 1 .. Len(s) : s[i] \in Entry /\ s[i].name \in Name /\ s[i].name \in Nat
<1>1. Len(s) \in Nat /\ DOMAIN s = 1 .. Len(s) /\ \A i \in 1 .. Len(s) : s[i] \in Entry
  BY ElementOfSeq
<1>2. \A y \in Entry : y.name \in Name /\ y.name \in Nat
  BY StorageAssumption DEF Entry
<1> QED  BY <1>1, <1>2

(* There is such a place. *)
LEMMA CutExists == ASSUME NEW s \in Seq(Entry), Sorted(s), NEW x \in Name PROVE \E k : Cut(k, s, x)
<1> DEFINE T == {k \in 0 .. Len(s) : \A i \in DOMAIN s : i > k => x <= s[i].name}
<1>0. Len(s) \in Nat /\ DOMAIN s = 1 .. Len(s) /\ x \in Nat /\ \A i \in 1 .. Len(s) : s[i].name \in Nat
  BY EntryIs, StorageAssumption
<1>1. Len(s) \in T
  BY <1>0
<1>2. PICK k \in T : \A j \in T : k <= j
  <2>1. T \in SUBSET Nat /\ T # {}
    BY <1>0, <1>1
  <2> HIDE DEF T
  <2> QED  BY <2>1, LeastNat
<1>3. ASSUME NEW i \in DOMAIN s, i <= k PROVE s[i].name < x
  <2>1. k - 1 \notin T /\ k \in 1 .. Len(s)
    BY <1>0, <1>2, <1>3, SMTT(30)
  <2>2. s[k].name < x
    BY <1>0, <1>2, <2>1
  <2> QED  BY <1>0, <1>3, <2>1, <2>2 DEF Sorted
<1> QED  BY <1>0, <1>2, <1>3 DEF Cut

(* The two answers of the search, *)
Hit(i) == [found |-> TRUE, at |-> i]
Miss(i) == [found |-> FALSE, at |-> i]

(* the one it has to give, and what is found between the indices b and e *)
Found(k, s, x) == k < Len(s) /\ s[k + 1].name = x
Place(k, s, x) == IF Found(k, s, x) THEN Hit(k) ELSE Miss(k)
Between(k, s, x, b, e) ==
    IF b > e \/ k < b THEN Miss(b) ELSE IF k > e THEN Miss(e + 1) ELSE Place(k, s, x)

(* One step of the search *)
Middle(b, e) == (b + e) \div 2
Halving(f, s, x, r) ==
    IF r[1] > r[2] THEN Miss(r[1])
    ELSE LET mid == Middle(r[1], r[2])
             y == s[mid + 1].name
         IN  IF y = x THEN Hit(mid)
             ELSE IF y < x THEN f[<<mid + 1, r[2]>>] ELSE f[<<r[1], mid - 1>>]
Ranges(n) == (0 .. n) \X (-1 .. n - 1)
Halves(f, s, x) == f = [r \in Ranges(Len(s)) |-> Halving(f, s, x, r)]

(* The middle lies between the ends. *)
LEMMA MiddleIs == ASSUME NEW b \in Nat, NEW e \in Nat, b <= e PROVE Middle(b, e) \in b .. e
BY DEF Middle

(* It stays what it is when either half is left out. *)
LEMMA BetweenHalves ==
    ASSUME NEW s \in Seq(Entry), Sorted(s), NEW x \in Name, NEW k, Cut(k, s, x),
           NEW b \in 0 .. Len(s), NEW e \in 0 .. Len(s) - 1, b <= e, NEW mid \in b .. e
    PROVE  Between(k, s, x, b, e) = IF s[mid + 1].name = x THEN Hit(mid)
                                    ELSE IF s[mid + 1].name < x THEN Between(k, s, x, mid + 1, e)
                                    ELSE Between(k, s, x, b, mid - 1)
<1>0. /\ Len(s) \in Nat /\ DOMAIN s = 1 .. Len(s) /\ x \in Nat /\ mid + 1 \in 1 .. Len(s) /\ k \in 0 .. Len(s)
      /\ \A i \in 1 .. Len(s) : s[i].name \in Nat
  <2>1. Len(s) \in Nat /\ DOMAIN s = 1 .. Len(s) /\ \A i \in 1 .. Len(s) : s[i].name \in Nat
    BY EntryIs
  <2> QED  BY <2>1, StorageAssumption DEF Cut
<1>1. CASE s[mid + 1].name = x
  <2>1. k = mid
    <3>1. k <= mid
      BY <1>0, <1>1 DEF Cut
    <3>2. ASSUME k < mid PROVE FALSE
      <4>1. k + 1 \in 1 .. Len(s) /\ ~(k + 1 <= k) /\ k + 1 < mid + 1 /\ s[k + 1].name \in Nat
        BY <1>0, <3>2
      <4>2. x <= s[k + 1].name
        BY <1>0, <4>1 DEF Cut
      <4>3. s[k + 1].name < s[mid + 1].name
        BY <1>0, <4>1 DEF Sorted
      <4> QED  BY <1>0, <1>1, <4>1, <4>2, <4>3
    <3> QED  BY <1>0, <3>1, <3>2
  <2> QED  BY <1>0, <1>1, <2>1 DEF Between, Found, Place
<1>2. CASE s[mid + 1].name < x
  <2>1. mid < k
    BY <1>0, <1>2 DEF Cut
  <2> QED  BY <1>0, <1>2, <2>1 DEF Between
<1>3. CASE x < s[mid + 1].name
  <2>1. k <= mid
    BY <1>0, <1>3 DEF Cut
  <2>2. k = mid => ~Found(k, s, x)
    BY <1>0, <1>3 DEF Found
  <2> QED  BY <1>0, <1>3, <2>1, <2>2 DEF Between, Place
<1> QED  BY <1>0, <1>1, <1>2, <1>3

(* The search finds it. *)
LEMMA HalvesFind ==
    ASSUME NEW s \in Seq(Entry), Sorted(s), NEW x \in Name, NEW k, Cut(k, s, x)
    PROVE  /\ \E f : Halves(f, s, x)
           /\ \A f : Halves(f, s, x) => f[<<0, Len(s) - 1>>] = Place(k, s, x)
<1> DEFINE n == Len(s)
           g == [r \in Ranges(n) |-> Between(k, s, x, r[1], r[2])]
<1>0. n \in Nat /\ k \in 0 .. n /\ \A r : r \in Ranges(n) <=> \E b \in 0 .. n, e \in -1 .. n - 1 : r = <<b, e>>
  BY DEF Cut, Ranges
<1>1. ASSUME NEW b \in 0 .. n, NEW e \in -1 .. n - 1
      PROVE  g[<<b, e>>] = Between(k, s, x, b, e)
  <2>1. <<b, e>> \in Ranges(n)
    BY DEF Ranges
  <2> QED  BY <2>1
<1>2. ASSUME NEW b \in 0 .. n, NEW e \in -1 .. n - 1, b <= e
      PROVE  b \in Nat /\ e \in 0 .. n - 1 /\ e \in Nat /\ Middle(b, e) \in b .. e /\ Middle(b, e) + 1 \in 0 .. n
             /\ Middle(b, e) - 1 \in -1 .. n - 1 /\ Middle(b, e) \in Int
  <2>1. b \in Nat /\ e \in 0 .. n - 1 /\ e \in Nat
    BY <1>0, <1>2
  <2>2. Middle(b, e) \in b .. e
    BY <1>2, <2>1, MiddleIs
  <2> QED  BY <1>0, <2>1, <2>2
<1> HIDE DEF g
<1>3. ASSUME NEW b \in 0 .. n, NEW e \in -1 .. n - 1 PROVE g[<<b, e>>] = Halving(g, s, x, <<b, e>>)
  <2>1. CASE b > e
    BY <1>1, <2>1 DEF Halving, Between
  <2>2. CASE b <= e
    <3>1. PICK mid \in b .. e : mid = Middle(b, e) /\ mid + 1 \in 0 .. n /\ mid - 1 \in -1 .. n - 1
      BY <1>2, <2>2
    <3>2. g[<<b, e>>] = IF s[mid + 1].name = x THEN Hit(mid)
                        ELSE IF s[mid + 1].name < x THEN Between(k, s, x, mid + 1, e)
                        ELSE Between(k, s, x, b, mid - 1)
      <4>1. e \in 0 .. Len(s) - 1 /\ b \in 0 .. Len(s)
        BY <1>2, <2>2
      <4>2. Between(k, s, x, b, e) = IF s[mid + 1].name = x THEN Hit(mid)
                        ELSE IF s[mid + 1].name < x THEN Between(k, s, x, mid + 1, e)
                        ELSE Between(k, s, x, b, mid - 1)
        BY <2>2, <4>1, BetweenHalves
      <4> QED  BY <1>1, <4>2
    <3>3. g[<<mid + 1, e>>] = Between(k, s, x, mid + 1, e) /\ g[<<b, mid - 1>>] = Between(k, s, x, b, mid - 1)
      BY <1>1, <3>1
    <3>4. ~(b > e)
      BY <1>2, <2>2
    <3> QED  BY <3>1, <3>2, <3>3, <3>4 DEF Halving
  <2> QED  BY <1>0, <2>1, <2>2
<1>4. Halves(g, s, x)
  <2>1. \A r \in Ranges(n) : g[r] = Halving(g, s, x, r)
    BY <1>0, <1>3
  <2>2. g = [r \in Ranges(n) |-> g[r]]
    BY DEF g
  <2> QED  BY <2>1, <2>2 DEF Halves
<1>5. ASSUME NEW f, Halves(f, s, x) PROVE \A b \in 0 .. n, e \in -1 .. n - 1 : f[<<b, e>>] = g[<<b, e>>]
  <2>1. ASSUME NEW b \in 0 .. n, NEW e \in -1 .. n - 1 PROVE f[<<b, e>>] = Halving(f, s, x, <<b, e>>)
    <3>1. <<b, e>> \in Ranges(n)
      BY DEF Ranges
    <3> QED  BY <1>5, <3>1 DEF Halves
  <2> DEFINE Bad(d) == \E b \in 0 .. n, e \in -1 .. n - 1 : d = e + 1 - b /\ b <= e /\ f[<<b, e>>] # g[<<b, e>>]
             T == {d \in Nat : Bad(d)}
  <2>2. ASSUME NEW b \in 0 .. n, NEW e \in -1 .. n - 1, b > e PROVE f[<<b, e>>] = g[<<b, e>>]
    <3>1. f[<<b, e>>] = Miss(b)
      BY <2>1, <2>2 DEF Halving
    <3>2. g[<<b, e>>] = Miss(b)
      BY <1>1, <2>2 DEF Between
    <3> QED  BY <3>1, <3>2
  <2>3. T = {}
    <3> SUFFICES ASSUME T # {} PROVE FALSE
      OBVIOUS
    <3>1. PICK d \in T : \A c \in T : d <= c
      <4>1. T \in SUBSET Nat
        OBVIOUS
      <4> HIDE DEF T
      <4> QED  BY <4>1, LeastNat
    <3>2. PICK b \in 0 .. n, e \in -1 .. n - 1 : d = e + 1 - b /\ b <= e /\ f[<<b, e>>] # g[<<b, e>>]
      BY <3>1
    <3>3. PICK mid \in b .. e : mid = Middle(b, e) /\ mid + 1 \in 0 .. n /\ mid - 1 \in -1 .. n - 1
      BY <1>2, <3>2
    <3>4. ASSUME NEW a \in 0 .. n, NEW c \in -1 .. n - 1, c + 1 - a < d PROVE f[<<a, c>>] = g[<<a, c>>]
      <4>1. CASE a > c
        BY <2>2, <4>1
      <4>2. CASE a <= c
        <5>1. PICK z \in Nat : z = c + 1 - a /\ z < d
          BY <1>0, <3>4, <4>2
        <5>2. z \notin T
          <6>1. d \in Nat
            BY <3>1
          <6> HIDE DEF T
          <6> QED  BY <3>1, <5>1, <6>1
        <5>3. ~Bad(z)
          BY <5>2
        <5> QED  BY <4>2, <5>1, <5>3
      <4> QED  BY <1>0, <4>1, <4>2
    <3>5. f[<<mid + 1, e>>] = g[<<mid + 1, e>>] /\ f[<<b, mid - 1>>] = g[<<b, mid - 1>>]
      BY <1>0, <3>2, <3>3, <3>4, SMTT(30)
    <3>6. Halving(f, s, x, <<b, e>>) = Halving(g, s, x, <<b, e>>)
      BY <3>3, <3>5 DEF Halving
    <3> QED  BY <1>3, <2>1, <3>2, <3>6
  <2>4. ASSUME NEW b \in 0 .. n, NEW e \in -1 .. n - 1, b <= e PROVE f[<<b, e>>] = g[<<b, e>>]
    <3>1. PICK z \in Nat : z = e + 1 - b
      BY <1>0, <2>4
    <3>2. ~Bad(z)
      BY <2>3
    <3> QED  BY <2>4, <3>1, <3>2
  <2>5. ASSUME NEW b \in 0 .. n, NEW e \in -1 .. n - 1 PROVE f[<<b, e>>] = g[<<b, e>>]
    <3>1. b > e \/ b <= e
      BY <1>0
    <3> QED  BY <2>2, <2>4, <3>1
  <2> QED  BY <2>5
<1>6. g[<<0, n - 1>>] = Place(k, s, x)
  <2>1. 0 \in 0 .. n /\ n - 1 \in -1 .. n - 1 /\ g[<<0, n - 1>>] = Between(k, s, x, 0, n - 1)
    BY <1>0, <1>1
  <2>2. k = n => ~Found(k, s, x)
    BY <1>0 DEF Found
  <2> QED  BY <1>0, <2>1, <2>2 DEF Between, Place
<1>7. 0 \in 0 .. n /\ n - 1 \in -1 .. n - 1
  BY <1>0
<1> QED  BY <1>4, <1>5, <1>6, <1>7

(* skynet_handle_findname and _insert_name look in the right place. *)
LEMMA SearchIs ==
    ASSUME name \in Seq(Entry), Sorted(name), NEW x \in Name
    PROVE  \E k : Cut(k, name, x) /\ Search(x) = Place(k, name, x)
<1> DEFINE f == CHOOSE g : Halves(g, name, x)
<1>1. PICK k : Cut(k, name, x)
  BY CutExists
<1>2. Halves(f, name, x)
  BY <1>1, HalvesFind
<1>3. Search(x) = f[<<0, Len(name) - 1>>]
  BY DEF Search, Halves, Halving, Middle, Ranges, Hit, Miss
<1> HIDE DEF f
<1>4. f[<<0, Len(name) - 1>>] = Place(k, name, x)
  BY <1>1, <1>2, HalvesFind
<1> QED  BY <1>1, <1>3, <1>4


(* What the loop of skynet_handle_retire has moved up after i names *)
Moved(f, s, h, i) == IF i = 0 THEN <<>> ELSE IF s[i].handle = h THEN f[i - 1] ELSE Append(f[i - 1], s[i])
Moves(f, s, h, n) == f = [i \in 0 .. n |-> Moved(f, s, h, i)]

(* The loop comes to its end. *)
LEMMA MovesExist == ASSUME NEW s, NEW h, NEW n \in Nat PROVE \E f : Moves(f, s, h, n)
<1> DEFINE T == {m \in Nat : ~\E f : Moves(f, s, h, m)}
<1> SUFFICES ASSUME T # {} PROVE FALSE
  OBVIOUS
<1>1. PICK m \in T : \A c \in T : m <= c
  <2>1. T \in SUBSET Nat
    OBVIOUS
  <2> HIDE DEF T
  <2> QED  BY <2>1, LeastNat
<1>2. m \in Nat /\ ~\E f : Moves(f, s, h, m)
  BY <1>1
<1>3. CASE m = 0
  <2> DEFINE e == [i \in 0 .. 0 |-> <<>>]
  <2>1. e = [i \in 0 .. 0 |-> Moved(e, s, h, i)]
    BY DEF Moved
  <2> HIDE DEF e
  <2> QED  BY <1>2, <1>3, <2>1 DEF Moves
<1>4. CASE m # 0
  <2>1. PICK l \in Nat : m = l + 1
    <3>1. m - 1 \in Nat /\ m = (m - 1) + 1
      BY <1>2, <1>4
    <3> QED  BY <3>1
  <2>2. l \notin T
    <3> HIDE DEF T
    <3> QED  BY <1>1, <1>2, <2>1
  <2>3. PICK f : Moves(f, s, h, l)
    BY <2>2
  <2>4. \A i \in 0 .. l : f[i] = Moved(f, s, h, i)
    BY <2>3 DEF Moves
  <2> DEFINE e == [i \in 0 .. m |-> IF i = m THEN Moved(f, s, h, m) ELSE f[i]]
  <2>5. \A i \in 0 .. m : e[i] = IF i = m THEN Moved(f, s, h, m) ELSE f[i]
    OBVIOUS
  <2>6. e = [i \in 0 .. m |-> e[i]]
    OBVIOUS
  <2> HIDE DEF e
  <2>7. ASSUME NEW i \in 0 .. m PROVE e[i] = Moved(e, s, h, i)
    <3>1. i # 0 => i - 1 \in 0 .. m /\ e[i - 1] = f[i - 1]
      BY <2>1, <2>5
    <3>2. Moved(e, s, h, i) = Moved(f, s, h, i)
      BY <3>1 DEF Moved
    <3>3. CASE i = m
      BY <2>5, <3>2, <3>3
    <3>4. CASE i # m
      <4>1. i \in 0 .. l
        BY <2>1, <3>4
      <4> QED  BY <2>4, <2>5, <3>2, <3>4, <4>1
    <3> QED  BY <3>3, <3>4
  <2>8. Moves(e, s, h, m)
    BY <2>6, <2>7 DEF Moves
  <2> QED  BY <1>2, <2>8
<1> QED  BY <1>3, <1>4

(* Some of the first i names, in their order *)
Part(q, s, i) ==
    /\ q \in Seq(Entry) /\ Len(q) <= i /\ Sorted(q)
    /\ \A j \in DOMAIN q : \E m \in 1 .. i : q[j] = s[m]

(* So are they with the next one, and without it. *)
LEMMA PartNext ==
    ASSUME NEW s \in Seq(Entry), Sorted(s), NEW i \in 1 .. Len(s), NEW q, Part(q, s, i - 1)
    PROVE  Part(q, s, i) /\ Part(Append(q, s[i]), s, i)
<1>0. i \in Nat /\ i - 1 \in Nat /\ s[i] \in Entry /\ DOMAIN s = 1 .. Len(s) /\ Len(s) \in Nat /\ q \in Seq(Entry)
      /\ Len(q) \in Nat /\ Len(q) <= i - 1
  <2>1. Len(s) \in Nat /\ DOMAIN s = 1 .. Len(s) /\ \A m \in 1 .. Len(s) : s[m] \in Entry
    BY EntryIs
  <2> QED  BY <2>1 DEF Part
<1>1. \A j \in DOMAIN q : \E m \in 1 .. i - 1 : q[j] = s[m]
  BY DEF Part
<1>2. Part(q, s, i)
  BY <1>0, <1>1 DEF Part
<1>3. PICK p : p = Append(q, s[i])
  OBVIOUS
<1>4. p \in Seq(Entry) /\ Len(p) = Len(q) + 1 /\ DOMAIN p = 1 .. Len(q) + 1 /\ DOMAIN q = 1 .. Len(q)
      /\ p[Len(q) + 1] = s[i] /\ \A j \in 1 .. Len(q) : p[j] = q[j]
  BY <1>0, <1>3
<1>5. ASSUME NEW j \in DOMAIN p PROVE \E m \in 1 .. i : p[j] = s[m]
  <2>1. CASE j \in DOMAIN q
    BY <1>0, <1>1, <1>4, <2>1
  <2>2. CASE j = Len(q) + 1
    BY <1>0, <1>4, <2>2
  <2> QED  BY <1>0, <1>4, <2>1, <2>2
<1>6. Sorted(p)
  <2> SUFFICES ASSUME NEW j \in DOMAIN p, NEW l \in DOMAIN p, j < l PROVE p[j].name < p[l].name
    BY DEF Sorted
  <2>1. j \in DOMAIN q
    BY <1>0, <1>4
  <2>2. CASE l \in DOMAIN q
    BY <1>4, <2>1, <2>2 DEF Part, Sorted
  <2>3. CASE l = Len(q) + 1
    <3>1. PICK m \in 1 .. i - 1 : q[j] = s[m]
      BY <1>1, <2>1
    <3>2. m \in DOMAIN s /\ m < i /\ i \in DOMAIN s
      BY <1>0
    <3> QED  BY <1>4, <2>1, <2>3, <3>1, <3>2 DEF Sorted
  <2> QED  BY <1>0, <1>4, <2>2, <2>3
<1>7. Part(p, s, i)
  BY <1>0, <1>4, <1>5, <1>6 DEF Part
<1> QED  BY <1>2, <1>3, <1>7

(* skynet_handle_retire leaves the names in their order. *)
LEMMA WithoutIs ==
    ASSUME NEW h, name \in Seq(Entry), Sorted(name)
    PROVE  Part(NamesWithout(h), name, Len(name))
<1> DEFINE f == CHOOSE g : Moves(g, name, h, Len(name))
<1>0. Len(name) \in Nat
  BY EntryIs
<1>1. Moves(f, name, h, Len(name))
  BY <1>0, MovesExist
<1>2. NamesWithout(h) = f[Len(name)]
  BY DEF NamesWithout, Moves, Moved
<1> HIDE DEF f
<1>3. \A i \in 0 .. Len(name) : f[i] = Moved(f, name, h, i)
  BY <1>1 DEF Moves
<1> DEFINE T == {i \in 0 .. Len(name) : ~Part(f[i], name, i)}
<1>4. T = {}
  <2> SUFFICES ASSUME T # {} PROVE FALSE
    OBVIOUS
  <2>1. PICK i \in T : \A c \in T : i <= c
    <3>1. T \in SUBSET Nat
      OBVIOUS
    <3> HIDE DEF T
    <3> QED  BY <3>1, LeastNat
  <2>2. i \in 0 .. Len(name) /\ i \in Nat /\ ~Part(f[i], name, i)
    BY <2>1
  <2>3. CASE i = 0
    <3>1. f[i] = <<>>
      BY <1>3, <2>2, <2>3 DEF Moved
    <3>2. Part(<<>>, name, 0)
      BY DEF Part, Sorted
    <3> QED  BY <2>2, <2>3, <3>1, <3>2
  <2>4. CASE i # 0
    <3>1. i \in 1 .. Len(name) /\ i - 1 \in 0 .. Len(name) /\ i - 1 < i
      BY <1>0, <2>2, <2>4
    <3>2. i - 1 \notin T
      <4> HIDE DEF T
      <4> QED  BY <2>1, <2>2, <3>1
    <3>3. Part(f[i - 1], name, i - 1)
      BY <3>1, <3>2
    <3>4. f[i] = f[i - 1] \/ f[i] = Append(f[i - 1], name[i])
      BY <1>3, <2>2, <2>4 DEF Moved
    <3>5. PICK p : p = f[i - 1]
      OBVIOUS
    <3>6. Part(p, name, i) /\ Part(Append(p, name[i]), name, i)
      BY <3>1, <3>3, <3>5, PartNext
    <3> QED  BY <2>2, <3>4, <3>5, <3>6
  <2> QED  BY <2>3, <2>4
<1>5. Len(name) \in 0 .. Len(name)
  BY <1>0
<1> QED  BY <1>2, <1>4, <1>5

(* A name that is put in where it has to be *)
Inserted(s, k, y) == SubSeq(s, 1, k) \o <<y>> \o SubSeq(s, k + 1, Len(s))
LEMMA InsertIs ==
    ASSUME NEW s \in Seq(Entry), Sorted(s), NEW y \in Entry, NEW k, Cut(k, s, y.name), ~Found(k, s, y.name)
    PROVE  LET q == Inserted(s, k, y) IN q \in Seq(Entry) /\ Len(q) = Len(s) + 1 /\ Sorted(q)
<1>q. PICK q : q = Inserted(s, k, y)
  OBVIOUS
<1>0. k \in 0 .. Len(s) /\ k \in Nat /\ Len(s) \in Nat /\ DOMAIN s = 1 .. Len(s)
      /\ \A i \in 1 .. Len(s) : s[i].name \in Nat
  <2>1. Len(s) \in Nat /\ DOMAIN s = 1 .. Len(s) /\ \A i \in 1 .. Len(s) : s[i].name \in Nat
    BY EntryIs
  <2> QED  BY <2>1 DEF Cut
<1>a. PICK a : a = SubSeq(s, 1, k)
  OBVIOUS
<1>b. PICK b : b = SubSeq(s, k + 1, Len(s))
  OBVIOUS
<1>1. a \in Seq(Entry) /\ Len(a) = k /\ \A i \in 1 .. k : a[i] = s[i]
  <2>1. k <= Len(s) /\ \A i \in 1 .. k : i \in 1 .. Len(s) /\ s[i] \in Entry
    BY <1>0, EntryIs
  <2>2. SubSeq(s, 1, k) = [i \in 1 .. k |-> s[i]]
    BY <1>0, <2>1
  <2> QED  BY <1>0, <1>a, <2>1, <2>2
<1>2. b \in Seq(Entry) /\ Len(b) = Len(s) - k /\ \A i \in 1 .. Len(s) - k : b[i] = s[k + i]
  <2>1. k + 1 \in Int /\ Len(s) \in Int /\ \A i \in k + 1 .. Len(s) : s[i] \in Entry
    BY <1>0, EntryIs
  <2>2. /\ b \in Seq(Entry) /\ Len(b) = IF k + 1 <= Len(s) THEN Len(s) - (k + 1) + 1 ELSE 0
        /\ \A i \in 1 .. Len(s) - (k + 1) + 1 : b[i] = s[(k + 1) + i - 1]
    BY <1>b, <2>1, SubSeqProperties
  <2>3. Len(b) = Len(s) - k
    BY <1>0, <2>2
  <2>4. ASSUME NEW i \in 1 .. Len(s) - k PROVE b[i] = s[k + i]
    <3>1. i \in 1 .. Len(s) - (k + 1) + 1 /\ (k + 1) + i - 1 = k + i
      BY <1>0
    <3> QED  BY <2>2, <3>1
  <2> QED  BY <2>2, <2>3, <2>4
<1>3. PICK c : c = a \o <<y>>
  OBVIOUS
<1>4. c \in Seq(Entry) /\ Len(c) = k + 1 /\ c[k + 1] = y /\ \A i \in 1 .. k : c[i] = s[i]
  <2>1. c \in Seq(Entry) /\ Len(c) = Len(a) + 1
    BY <1>1, <1>3
  <2> QED  BY <1>0, <1>1, <1>3, <2>1
<1>5. q = c \o b
  BY <1>a, <1>b, <1>q, <1>3 DEF Inserted
<1>6. q \in Seq(Entry) /\ Len(q) = Len(s) + 1 /\ DOMAIN q = 1 .. Len(s) + 1
  <2>1. q \in Seq(Entry) /\ Len(q) = Len(c) + Len(b)
    BY <1>2, <1>4, <1>5, ConcatProperties
  <2>2. DOMAIN q = 1 .. Len(q)
    BY <2>1
  <2>3. Len(c) = k + 1 /\ Len(b) = Len(s) - k
    BY <1>2, <1>4
  <2>4. Len(q) = Len(s) + 1
    <3>1. k \in Int /\ Len(s) \in Int
      BY <1>0
    <3>2. Len(q) = (k + 1) + (Len(s) - k)
      BY <2>1, <2>3
    <3> QED  BY <3>1, <3>2
  <2> QED  BY <2>1, <2>2, <2>4
<1>7. /\ \A i \in 1 .. k : q[i] = s[i]
      /\ q[k + 1] = y
      /\ \A i \in k + 2 .. Len(s) + 1 : q[i] = s[i - 1]
  <2>1. \A i \in 1 .. Len(c) + Len(b) : q[i] = IF i <= Len(c) THEN c[i] ELSE b[i - Len(c)]
    <3>1. \A i \in 1 .. Len(c) + Len(b) : (c \o b)[i] = IF i <= Len(c) THEN c[i] ELSE b[i - Len(c)]
      BY <1>2, <1>4, ConcatProperties, Zenon
    <3> QED  BY <1>5, <3>1, Zenon
  <2>2. ASSUME NEW i \in 1 .. k + 1 PROVE q[i] = c[i]
    <3>1. i \in 1 .. Len(c) + Len(b) /\ i <= Len(c)
      BY <1>0, <1>2, <1>4
    <3> QED  BY <2>1, <3>1
  <2>3. ASSUME NEW i \in k + 2 .. Len(s) + 1 PROVE q[i] = s[i - 1]
    <3>1. i \in 1 .. Len(c) + Len(b) /\ ~(i <= Len(c)) /\ i - Len(c) \in 1 .. Len(s) - k /\ k + (i - Len(c)) = i - 1
      BY <1>0, <1>2, <1>4
    <3>2. q[i] = b[i - Len(c)]
      BY <2>1, <3>1
    <3> QED  BY <1>2, <3>1, <3>2
  <2>4. k + 1 \in 1 .. k + 1 /\ \A i \in 1 .. k : i \in 1 .. k + 1
    BY <1>0
  <2> QED  BY <1>4, <2>2, <2>3, <2>4
<1>8. y.name \in Nat
  BY StorageAssumption DEF Entry
<1>9. (\A i \in 1 .. k : s[i].name < y.name) /\ \A i \in k + 1 .. Len(s) : y.name < s[i].name
  <2>1. \A i \in 1 .. k : s[i].name < y.name
    BY <1>0 DEF Cut
  <2>2. ASSUME NEW i \in k + 1 .. Len(s) PROVE y.name < s[i].name
    <3>1. k + 1 \in 1 .. Len(s) /\ i \in 1 .. Len(s) /\ k < Len(s)
      BY <1>0
    <3>2. y.name <= s[i].name /\ y.name <= s[k + 1].name
      <4>1. ~(i <= k) /\ ~(k + 1 <= k) /\ i \in DOMAIN s /\ k + 1 \in DOMAIN s
        BY <1>0, <3>1
      <4> QED  BY <4>1 DEF Cut
    <3>3. s[k + 1].name # y.name
      BY <3>1 DEF Found
    <3>4. i # k + 1 => s[k + 1].name < s[i].name
      <4>1. i # k + 1 => k + 1 < i
        BY <1>0
      <4> QED  BY <1>0, <3>1, <4>1 DEF Sorted
    <3>5. s[i].name \in Nat /\ s[k + 1].name \in Nat
      BY <1>0, <3>1
    <3> QED  BY <1>8, <3>2, <3>3, <3>4, <3>5
  <2> QED  BY <2>1, <2>2
<1>10. Sorted(q)
  <2> SUFFICES ASSUME NEW i \in 1 .. Len(s) + 1, NEW j \in 1 .. Len(s) + 1, i < j PROVE q[i].name < q[j].name
    BY <1>6 DEF Sorted
  <2>1. CASE j <= k
    <3>1. i \in 1 .. k /\ j \in 1 .. k /\ i \in DOMAIN s /\ j \in DOMAIN s
      BY <1>0, <2>1
    <3> QED  BY <1>7, <3>1 DEF Sorted
  <2>2. CASE j = k + 1
    <3>1. i \in 1 .. k
      BY <1>0, <2>2
    <3> QED  BY <1>7, <1>9, <2>2, <3>1
  <2>3. CASE j > k + 1 /\ i = k + 1
    <3>1. j \in k + 2 .. Len(s) + 1 /\ j - 1 \in k + 1 .. Len(s)
      BY <1>0, <2>3
    <3> QED  BY <1>7, <1>9, <2>3, <3>1
  <2>4. CASE j > k + 1 /\ i <= k
    <3>1. j \in k + 2 .. Len(s) + 1 /\ j - 1 \in 1 .. Len(s) /\ i \in 1 .. k /\ i < j - 1 /\ i \in 1 .. Len(s)
      BY <1>0, <2>4
    <3> QED  BY <1>0, <1>7, <3>1 DEF Sorted
  <2>5. CASE i > k + 1
    <3>1. j \in k + 2 .. Len(s) + 1 /\ j - 1 \in 1 .. Len(s) /\ i \in k + 2 .. Len(s) + 1 /\ i - 1 \in 1 .. Len(s) /\ i - 1 < j - 1
      BY <1>0, <2>5
    <3> QED  BY <1>0, <1>7, <3>1 DEF Sorted
  <2>6. i \in Nat /\ j \in Nat
    BY <1>0
  <2>7. \/ j <= k \/ j = k + 1 \/ (j > k + 1 /\ i = k + 1)
        \/ (j > k + 1 /\ i <= k) \/ i > k + 1
    BY <1>0, <2>6
  <2> QED  BY <2>1, <2>2, <2>3, <2>4, <2>5, <2>7
<1> QED  BY <1>q, <1>6, <1>10


(***************************************************************************)
(* The name table and the sizes: names are sorted and fit into their       *)
(* array, and neither the table nor handle_index goes beyond HANDLE_MASK.  *)
(***************************************************************************)
NamesInv == name \in Seq(Entry) /\ Sorted(name) /\ name_cap \in Nat \ {0} /\ Len(name) <= name_cap
SizesInv == slot_size <= HandleMask + 1 /\ handle_index <= HandleMask + 1

(* There are no names at first. *)
LEMMA TablesInit == HandleInit => NamesInv /\ SizesInv
<1> SUFFICES ASSUME HandleInit PROVE NamesInv /\ SizesInv
  OBVIOUS
<1>1. name = <<>> /\ name_cap = NameCap /\ slot_size = DefaultSlotSize /\ handle_index = 1
  BY DEF HandleInit
<1>2. NamesInv
  BY <1>1, StorageAssumption DEF NamesInv, Sorted
<1>3. SizesInv
  BY <1>1, StorageAssumption DEF SizesInv
<1> QED  BY <1>2, <1>3

(* A context goes to a slot of a table that is no larger than it may be. *)
LEMMA RegisterSizes == ASSUME TableOK, SizesInv, NEW t \in Launcher, Register(t) PROVE SizesInv'
<1>1. ASSUME NEW c, NEW s, NEW n \in Nat, n <= HandleMask + 1, Store(t, c, s, n) PROVE SizesInv'
  <2>1. PICK k \in Hits(s, n) : slot_size' = n /\ handle_index' = Probe(k) + 1
    BY <1>1 DEF Store
  <2>2. k \in Nat
    BY <2>1 DEF Hits
  <2>3. Probe(k) \in 1 .. HandleMask
    BY <2>2, ProbeRange
  <2> QED  BY <1>1, <2>1, <2>3, StorageAssumption DEF SizesInv
<1>2. PICK c \in Fresh :
        \/ Store(t, c, slot, slot_size)
        \/ GrowFails(2 * slot_size) = "no" /\ Store(t, c, Rehash(2 * slot_size), 2 * slot_size)
        \/ UNCHANGED <<table, pending>>
  BY DEF Register
<1>3. slot_size \in Nat /\ 2 * slot_size \in Nat /\ slot_size <= HandleMask + 1
  BY DEF TableOK, SizesInv
<1>4. CASE Store(t, c, slot, slot_size)
  BY <1>1, <1>3, <1>4
<1>5. CASE GrowFails(2 * slot_size) = "no" /\ Store(t, c, Rehash(2 * slot_size), 2 * slot_size)
  <2>1. ~(2 * slot_size - 1 > HandleMask)
    <3> SUFFICES ASSUME 2 * slot_size - 1 > HandleMask PROVE FALSE
      OBVIOUS
    <3> QED  BY <1>5 DEF GrowFails
  <2>2. 2 * slot_size <= HandleMask + 1
    BY <1>3, <2>1, StorageAssumption
  <2> QED  BY <1>1, <1>3, <1>5, <2>2
<1>6. CASE UNCHANGED <<table, pending>>
  BY <1>6 DEF SizesInv, table
<1> QED  BY <1>2, <1>4, <1>5, <1>6

(* skynet_handle_namehandle keeps the order. *)
LEMMA NameKeeps ==
    ASSUME NamesInv, NEW x \in Name, NEW h \in 1 .. HandleMask, NameHandle(x, h)
    PROVE  NamesInv'
<1>0. name \in Seq(Entry) /\ Sorted(name) /\ name_cap \in Nat \ {0} /\ Len(name) <= name_cap /\ Len(name) \in Nat
  BY EntryIs DEF NamesInv
<1>1. PICK k : Cut(k, name, x) /\ Search(x) = Place(k, name, x)
  BY <1>0, SearchIs
<1>2. ~Found(k, name, x) /\ Search(x).at = k
  <2>1. ~Search(x).found
    BY DEF NameHandle
  <2> QED  BY <1>1, <2>1 DEF Place, Hit, Miss
<1> DEFINE y == [name |-> x, handle |-> h]
<1>3. y \in Entry /\ y.name = x
  BY DEF Entry
<1>4. name' = Inserted(name, k, y)
  BY <1>2 DEF NameHandle, InsertBefore, Inserted
<1>5. name_cap' = IF Len(name) >= name_cap THEN 2 * name_cap ELSE name_cap
  BY DEF NameHandle
<1> HIDE DEF y
<1>6. name' \in Seq(Entry) /\ Len(name') = Len(name) + 1 /\ Sorted(name')
  BY <1>0, <1>1, <1>2, <1>3, <1>4, InsertIs
<1>7. name_cap' \in Nat \ {0} /\ Len(name') <= name_cap'
  BY <1>0, <1>5, <1>6
<1>8. Entry' = Entry /\ Sorted(name)' = Sorted(name')
  BY DEF Entry, Sorted
<1> QED  BY <1>6, <1>7, <1>8 DEF NamesInv

(* skynet_handle_retire keeps it. *)
LEMMA ClearNames == ASSUME NamesInv, NEW h, Clear(h), UNCHANGED name_cap PROVE NamesInv'
<1>0. name \in Seq(Entry) /\ Sorted(name) /\ name_cap \in Nat \ {0} /\ Len(name) <= name_cap /\ Len(name) \in Nat
  BY EntryIs DEF NamesInv
<1>1. Part(NamesWithout(h), name, Len(name))
  BY <1>0, WithoutIs
<1>2. name' = name \/ name' = NamesWithout(h)
  BY DEF Clear
<1>3. name' \in Seq(Entry) /\ Sorted(name') /\ Len(name') <= Len(name) /\ Len(name') \in Nat
  <2>1. name' \in Seq(Entry) /\ Sorted(name') /\ Len(name') <= Len(name)
    BY <1>0, <1>1, <1>2 DEF Part
  <2> QED  BY <2>1, EntryIs
<1> QED  BY <1>0, <1>3 DEF NamesInv, Sorted

(* Every step keeps the names and the sizes. *)
LEMMA TablesNext == TableOK /\ NamesInv /\ SizesInv /\ [HandleNext]_handleVars => NamesInv' /\ SizesInv'
<1> SUFFICES ASSUME TableOK, NamesInv, SizesInv, [HandleNext]_handleVars PROVE NamesInv' /\ SizesInv'
  OBVIOUS
<1>n. ASSUME UNCHANGED <<name, name_cap>> PROVE NamesInv'
  BY <1>n DEF NamesInv, Sorted
<1>s. ASSUME UNCHANGED <<slot_size, handle_index>> PROVE SizesInv'
  BY <1>s DEF SizesInv
<1>1. ASSUME NEW t \in Launcher, Register(t) PROVE NamesInv' /\ SizesInv'
  <2>1. UNCHANGED <<name, name_cap>>
    BY <1>1 DEF Register
  <2> QED  BY <1>1, <1>n, <2>1, RegisterSizes
<1>2. CASE \/ RetireAll \/ RetireAllRead \/ RetireAllPass \/ UNCHANGED handleVars \/ \E t \in Launcher : SetHandle(t)
  <2>1. UNCHANGED <<name, name_cap, slot_size, handle_index>>
    BY <1>2 DEF RetireAll, RetireAllRead, RetireAllPass, SetHandle, handleVars, table
  <2> QED  BY <1>n, <1>s, <2>1
<1>3. ASSUME NEW h \in Live, Retire(h) PROVE NamesInv' /\ SizesInv'
  <2>1. Clear(h) /\ UNCHANGED <<name_cap, slot_size, handle_index>>
    BY <1>3 DEF Retire, Clear, ClearSlot
  <2> QED  BY <1>s, <2>1, ClearNames
<1>4. CASE RetireAllRetire
  <2>1. Clear(ra.h) /\ UNCHANGED <<name_cap, slot_size, handle_index>>
    BY <1>4 DEF RetireAllRetire, Clear, ClearSlot
  <2> QED  BY <1>s, <2>1, ClearNames
<1>5. ASSUME NEW x \in Name, NEW h \in 1 .. HandleMask, NameHandle(x, h) PROVE NamesInv' /\ SizesInv'
  <2>1. UNCHANGED <<slot_size, handle_index>>
    BY <1>5 DEF NameHandle, table
  <2> QED  BY <1>5, <1>s, <2>1, NameKeeps
<1> QED  BY <1>1, <1>2, <1>3, <1>4, <1>5 DEF HandleNext

(* The search of sorted names sees what is there. *)
LEMMA SortedFound == NamesInv => NamesFound
<1> SUFFICES ASSUME NamesInv, NEW x \in Name
             PROVE  FindName(x) = IF \E i \in DOMAIN name : name[i].name = x
                                  THEN (CHOOSE r \in {name[i] : i \in DOMAIN name} : r.name = x).handle
                                  ELSE 0
  BY DEF NamesFound
<1>0. name \in Seq(Entry) /\ Sorted(name) /\ Len(name) \in Nat /\ DOMAIN name = 1 .. Len(name) /\ x \in Nat
      /\ \A i \in 1 .. Len(name) : name[i].name \in Nat
  <2>1. name \in Seq(Entry) /\ Sorted(name)
    BY DEF NamesInv
  <2> QED  BY <2>1, EntryIs, StorageAssumption
<1>1. PICK k : Cut(k, name, x) /\ Search(x) = Place(k, name, x)
  BY <1>0, SearchIs
<1>2. k \in 0 .. Len(name) /\ \A i \in DOMAIN name : IF i <= k THEN name[i].name < x ELSE x <= name[i].name
  BY <1>1 DEF Cut
<1>3. CASE Found(k, name, x)
  <2>1. k + 1 \in DOMAIN name /\ name[k + 1].name = x
    BY <1>0, <1>2, <1>3 DEF Found
  <2>2. FindName(x) = name[k + 1].handle
    <3>1. Search(x) = Hit(k)
      BY <1>1, <1>3 DEF Place
    <3>2. Search(x).found /\ Search(x).at = k
      BY <3>1 DEF Hit
    <3> QED  BY <3>2 DEF FindName
  <2>3. ASSUME NEW i \in DOMAIN name, name[i].name = x PROVE i = k + 1
    <3>1. ~(i < k + 1) /\ ~(k + 1 < i)
      BY <1>0, <2>1, <2>3 DEF Sorted
    <3> QED  BY <1>0, <1>2, <3>1
  <2> DEFINE p == CHOOSE r \in {name[i] : i \in DOMAIN name} : r.name = x
  <2>4. p \in {name[i] : i \in DOMAIN name} /\ p.name = x
    BY <2>1
  <2> HIDE DEF p
  <2>5. p = name[k + 1]
    BY <2>3, <2>4
  <2> QED  BY <2>1, <2>2, <2>5 DEF p
<1>4. CASE ~Found(k, name, x)
  <2>1. ASSUME NEW i \in DOMAIN name, name[i].name = x PROVE FALSE
    <3>1. ~(i <= k)
      BY <1>0, <1>2, <2>1
    <3>2. k + 1 \in 1 .. Len(name) /\ k < Len(name) /\ k + 1 <= i /\ i \in 1 .. Len(name) /\ ~(k + 1 <= k)
      BY <1>0, <1>2, <3>1
    <3>3. x <= name[k + 1].name /\ name[k + 1].name # x
      BY <1>0, <1>2, <1>4, <3>2 DEF Found
    <3>4. i # k + 1 /\ k + 1 < i
      BY <1>0, <1>2, <2>1, <3>2, <3>3
    <3>5. name[k + 1].name < name[i].name
      BY <1>0, <3>2, <3>4 DEF Sorted
    <3>6. name[k + 1].name \in Nat
      BY <1>0, <3>2
    <3> QED  BY <1>0, <2>1, <3>3, <3>5, <3>6
  <2>2. FindName(x) = 0
    <3>1. Search(x) = Miss(k)
      BY <1>1, <1>4 DEF Place
    <3>2. ~Search(x).found
      BY <3>1 DEF Miss
    <3> QED  BY <3>2 DEF FindName
  <2> QED  BY <2>1, <2>2
<1> QED  BY <1>3, <1>4

(***************************************************************************)
(* skynet_handle_findname finds every name that was given to a service     *)
(* with the handle it was given to, and no other: whatever names come and  *)
(* go, and also when several threads launch services.                      *)
(***************************************************************************)
THEOREM NamesFoundHolds == HandleSpec => []NamesFound
<1>1. HandleInit => RetireInv /\ NamesInv /\ SizesInv
  BY RetireInit, TablesInit
<1>2. RetireInv /\ NamesInv /\ SizesInv /\ [HandleNext]_handleVars => (RetireInv /\ NamesInv /\ SizesInv)'
  BY RetireNext, TablesNext DEF RetireInv
<1> QED  BY <1>1, <1>2, SortedFound, PTL DEF HandleSpec

(***************************************************************************)
(* However many threads launch and retire services at once, the storage of *)
(* skynet_handle.c is what it should be: the table is well formed and no   *)
(* larger than HANDLE_MASK allows, each service is found by its handle,    *)
(* which no other service has, and by its names.  The one exception is a   *)
(* doubling that meets a context whose handle is still to be stored.       *)
(***************************************************************************)
THEOREM StorageHolds == HandleSpec => []StorageSound
<1>1. HandleInit => RetireInv /\ NamesInv /\ SizesInv
  BY RetireInit, TablesInit
<1>2. RetireInv /\ NamesInv /\ SizesInv /\ [HandleNext]_handleVars => (RetireInv /\ NamesInv /\ SizesInv)'
  BY RetireNext, TablesNext DEF RetireInv
<1>3. RetireInv /\ NamesInv /\ SizesInv => HandleTypeOK
  BY StorageAssumption DEF RetireInv, TableOK, NamesInv, SizesInv, HandleTypeOK, Entry
<1>4. HandleSpec => []HandleTypeOK
  BY <1>1, <1>2, <1>3, PTL DEF HandleSpec
<1>5. HandleTypeOK /\ (~raced => Reachable) /\ (~raced => UniqueHandles) /\ NamesFound => StorageSound
  BY DEF StorageInv, StorageSound
<1> QED  BY <1>4, <1>5, ReachableHolds, UniqueHandlesHold, NamesFoundHolds, PTL

-----------------------------------------------------------------------------
(* The timing wheel: blocks of time. *)

(* Division of natural numbers *)
LEMMA DivIs ==
    ASSUME NEW a \in Nat, NEW b \in Nat \ {0}
    PROVE  a \div b \in Nat /\ a % b \in 0 .. b - 1 /\ a = b * (a \div b) + (a % b)
<1>1. a % b \in 0 .. b - 1 /\ a \div b \in Int /\ a = b * (a \div b) + (a % b)
  OBVIOUS
<1>2. ASSUME a \div b < 0 PROVE FALSE
  <2> DEFINE q == a \div b
             r == a % b
  <2>1. q \in Int /\ q < 0 /\ a = b * q + r /\ r < b /\ r \in Int
    BY <1>1, <1>2
  <2> HIDE DEF q, r
  <2>2. b * q <= -b
    BY <2>1
  <2> QED  BY <2>1, <2>2
<1> QED  BY <1>1, <1>2

(* When the next number begins a block, it is the next block. *)
LEMMA SuccDiv ==
    ASSUME NEW a \in Nat, NEW b \in Nat \ {0}
    PROVE  (a + 1) \div b = IF (a + 1) % b = 0 THEN a \div b + 1 ELSE a \div b
  OBVIOUS

(* Blocks of blocks *)
LEMMA DivDiv ==
    ASSUME NEW a \in Nat, NEW b \in Nat \ {0}, NEW c \in Nat \ {0}
    PROVE  /\ a \div (b * c) = (a \div b) \div c
           /\ a % (b * c) = 0 <=> a % b = 0 /\ (a \div b) % c = 0
  OBVIOUS

(* Blocks come in order, and what lies in one block is closer than its size. *)
LEMMA DivOrder ==
    ASSUME NEW a \in Nat, NEW c \in Nat, NEW b \in Nat \ {0}
    PROVE  /\ a <= c => a \div b <= c \div b
           /\ a \div b = c \div b => a - c < b
  OBVIOUS

LEMMA ModLess == ASSUME NEW a \in Nat, NEW b \in Nat \ {0}, a < b PROVE a \div b = 0 /\ a % b = a
  OBVIOUS

(* The sizes of the blocks of the levels *)
Inner == -1 .. 2
LEMMA SizeIs == /\ Near \in Nat \ {0} /\ Level \in Nat \ {0, 1}
                /\ Size(-1) = Near /\ Size(3) = Width
                /\ \A i \in -1 .. 3 : Size(i) \in Nat \ {0}
                /\ \A i \in 0 .. 3 : Size(i) = Size(i - 1) * Level
                /\ \A i \in Inner : 2 * Size(i) <= Width
<1> USE TimerAssumption
<1> DEFINE L2 == Level * Level
           L3 == Level * Level * Level
           L4 == Level * Level * Level * Level
<1>0. Level \in Nat /\ Level >= 2 /\ Near \in Nat /\ Near >= 1
  OBVIOUS
<1>1. L2 \in Nat /\ L2 >= 2 * Level
  BY <1>0
<1>2. L3 \in Nat /\ L3 >= 2 * L2 /\ L3 = L2 * Level
  BY <1>0, <1>1
<1>3. L4 \in Nat /\ L4 >= 2 * L3 /\ L4 = L3 * Level
  BY <1>0, <1>2
<1>4. /\ Size(-1) = Near * 1 /\ Size(0) = Near * Level /\ Size(1) = Near * L2
      /\ Size(2) = Near * L3 /\ Size(3) = Near * L4
  BY DEF Size
<1> HIDE DEF L2, L3, L4
<1>5. ASSUME NEW m \in Nat, m >= 1
      PROVE  Near * m \in Nat \ {0} /\ Near * (m * Level) = (Near * m) * Level /\ 2 * (Near * m) <= (Near * m) * Level
  <2>1. PICK n \in Nat : n = Near * m /\ n >= 1
    BY <1>0, <1>5
  <2>2. 2 * n <= n * Level
    BY <1>0, <2>1
  <2> QED  BY <1>0, <1>5, <2>1, <2>2
<1>6. /\ Size(-1) \in Nat \ {0} /\ Size(0) = Size(-1) * Level /\ 2 * Size(-1) <= Size(0)
      /\ Size(-1) = Near
  BY <1>0, <1>4, <1>5
<1>7. /\ Size(0) \in Nat \ {0} /\ Size(1) = Size(0) * Level /\ 2 * Size(0) <= Size(1)
  <2>1. L2 = Level * Level
    BY DEF L2
  <2> QED  BY <1>0, <1>4, <1>5, <2>1
<1>8. /\ Size(1) \in Nat \ {0} /\ Size(2) = Size(1) * Level /\ 2 * Size(1) <= Size(2)
  BY <1>0, <1>1, <1>2, <1>4, <1>5
<1>9. /\ Size(2) \in Nat \ {0} /\ Size(3) = Size(2) * Level /\ 2 * Size(2) <= Size(3)
  BY <1>0, <1>1, <1>2, <1>3, <1>4, <1>5
<1>10. Size(3) \in Nat \ {0}
  BY <1>0, <1>1, <1>2, <1>3, <1>4, <1>5
<1>11. \A i \in -1 .. 3 : i = -1 \/ i = 0 \/ i = 1 \/ i = 2 \/ i = 3
  OBVIOUS
<1>12. \A i \in -1 .. 3 : Size(i) \in Nat \ {0}
  BY <1>6, <1>7, <1>8, <1>9, <1>10, <1>11
<1>13. \A i \in 0 .. 3 : Size(i) = Size(i - 1) * Level
  BY <1>6, <1>7, <1>8, <1>9
<1>14. \A i \in Inner : 2 * Size(i) <= Size(3)
  BY <1>6, <1>7, <1>8, <1>9, <1>10, <1>11 DEF Inner
<1> QED
  BY <1>0, <1>6, <1>12, <1>13, <1>14 DEF Width

(* The clock *)
Moment == 0 .. Width - 1

LEMMA MomentIs == Width \in Nat \ {0} /\ Width >= 2 /\ 0 \in Moment /\ Moment \subseteq Nat
<1>1. Width \in Nat \ {0} /\ 2 * Size(-1) <= Width /\ Size(-1) \in Nat \ {0}
  BY SizeIs DEF Inner
<1> QED  BY <1>1 DEF Moment

(* The blocks of a level are the blocks of Level blocks of the level below. *)
LEMMA BlockUp ==
    ASSUME NEW t \in Nat, NEW i \in 0 .. 3
    PROVE  /\ Block(t, i - 1) \in Nat /\ Block(t, i) \in Nat /\ Index(t, i) \in 0 .. Level - 1
           /\ Block(t, i) = Block(t, i - 1) \div Level
           /\ t % Size(i) = 0 <=> t % Size(i - 1) = 0 /\ Index(t, i) = 0
<1>1. Size(i - 1) \in Nat \ {0} /\ Size(i) = Size(i - 1) * Level /\ Level \in Nat \ {0}
  BY SizeIs
<1>2. t \div Size(i - 1) \in Nat /\ t \div Size(i) \in Nat
  <2>1. Size(i) \in Nat \ {0}
    BY SizeIs
  <2> QED  BY <1>1, <2>1, DivIs
<1>3. (t \div Size(i - 1)) % Level \in 0 .. Level - 1
  BY <1>1, <1>2, DivIs
<1>4. /\ t \div Size(i) = (t \div Size(i - 1)) \div Level
      /\ t % Size(i) = 0 <=> t % Size(i - 1) = 0 /\ (t \div Size(i - 1)) % Level = 0
  <2> DEFINE b == Size(i - 1)
  <2>1. b \in Nat \ {0} /\ Level \in Nat \ {0} /\ Size(i) = b * Level
    BY <1>1
  <2> HIDE DEF b
  <2>2. /\ t \div (b * Level) = (t \div b) \div Level
        /\ t % (b * Level) = 0 <=> t % b = 0 /\ (t \div b) % Level = 0
    BY <2>1, DivDiv
  <2>3. /\ t \div Size(i) = (t \div b) \div Level
        /\ t % Size(i) = 0 <=> t % b = 0 /\ (t \div b) % Level = 0
    BY <2>1, <2>2
  <2> QED  BY <2>3 DEF b
<1> QED  BY <1>2, <1>3, <1>4 DEF Block, Index

LEMMA BlockNat == ASSUME NEW t \in Nat, NEW i \in -1 .. 3 PROVE Block(t, i) \in Nat
BY DivIs, SizeIs DEF Block

(* Times in one block are in one block of every level above. *)
LEMMA BlockNest ==
    ASSUME NEW a \in Nat, NEW c \in Nat, NEW i \in -1 .. 3, Block(a, i) = Block(c, i)
    PROVE  \A j \in i .. 3 : Block(a, j) = Block(c, j)
<1>1. ASSUME NEW j \in 0 .. 3, Block(a, j - 1) = Block(c, j - 1) PROVE Block(a, j) = Block(c, j)
  BY <1>1, BlockUp
<1>2. Block(a, -1) = Block(c, -1) => Block(a, 0) = Block(c, 0)
  BY <1>1
<1>3. Block(a, 0) = Block(c, 0) => Block(a, 1) = Block(c, 1)
  BY <1>1
<1>4. Block(a, 1) = Block(c, 1) => Block(a, 2) = Block(c, 2)
  BY <1>1
<1>5. Block(a, 2) = Block(c, 2) => Block(a, 3) = Block(c, 3)
  BY <1>1
<1>6. \A j \in i .. 3 : j = i \/ j = 0 \/ j = 1 \/ j = 2 \/ j = 3
  OBVIOUS
<1>7. i = -1 \/ i = 0 \/ i = 1 \/ i = 2 \/ i = 3
  OBVIOUS
<1> QED  BY <1>2, <1>3, <1>4, <1>5, <1>6, <1>7

(* All that the clock shows is one block of level 3. *)
LEMMA BlockTop == ASSUME NEW t \in Moment PROVE Block(t, 3) = 0
<1>1. t \in Nat /\ t < Width /\ Width \in Nat \ {0} /\ Size(3) = Width
  BY MomentIs, SizeIs DEF Moment
<1> QED  BY <1>1, ModLess DEF Block

(* The next tick lies in the next block when a block begins with it. *)
LEMMA BlockSucc ==
    ASSUME NEW t \in Nat, NEW i \in -1 .. 3
    PROVE  Block(t + 1, i) = IF (t + 1) % Size(i) = 0 THEN Block(t, i) + 1 ELSE Block(t, i)
BY SuccDiv, SizeIs DEF Block

-----------------------------------------------------------------------------
(* The timing wheel: where add_node puts a node. *)

(* The ring that is chosen for a node outside of the near block *)
Ring(e, t, i) == /\ i \in 0 .. 3
                 /\ Block(e, i) = Block(t, i) \/ i = 3
                 /\ \A j \in -1 .. i - 1 : Block(e, j) # Block(t, j)

LEMMA SlotNear ==
    ASSUME NEW e \in Nat, NEW t \in Nat, Block(e, -1) = Block(t, -1)
    PROVE  SlotOf(e, t) = <<-1, e % Near>>
BY DEF SlotOf

LEMMA RingExists ==
    ASSUME NEW e \in Nat, NEW t \in Nat, Block(e, -1) # Block(t, -1)
    PROVE  \E i \in 0 .. 3 : Ring(e, t, i)
<1>1. CASE Block(e, 0) = Block(t, 0)
  <2>1. Ring(e, t, 0)
    <3>1. \A j \in -1 .. 0 - 1 : j = -1
      OBVIOUS
    <3> QED  BY <1>1, <3>1 DEF Ring
  <2> QED  BY <2>1
<1>2. CASE Block(e, 0) # Block(t, 0) /\ Block(e, 1) = Block(t, 1)
  <2>1. Ring(e, t, 1)
    <3>1. \A j \in -1 .. 1 - 1 : j = -1 \/ j = 0
      OBVIOUS
    <3> QED  BY <1>2, <3>1 DEF Ring
  <2> QED  BY <2>1
<1>3. CASE Block(e, 0) # Block(t, 0) /\ Block(e, 1) # Block(t, 1) /\ Block(e, 2) = Block(t, 2)
  <2>1. Ring(e, t, 2)
    <3>1. \A j \in -1 .. 2 - 1 : j = -1 \/ j = 0 \/ j = 1
      OBVIOUS
    <3> QED  BY <1>3, <3>1 DEF Ring
  <2> QED  BY <2>1
<1>4. CASE Block(e, 0) # Block(t, 0) /\ Block(e, 1) # Block(t, 1) /\ Block(e, 2) # Block(t, 2)
  <2>1. Ring(e, t, 3)
    <3>1. \A j \in -1 .. 3 - 1 : j = -1 \/ j = 0 \/ j = 1 \/ j = 2
      OBVIOUS
    <3> QED  BY <1>4, <3>1 DEF Ring
  <2> QED  BY <2>1
<1> QED  BY <1>1, <1>2, <1>3, <1>4

LEMMA SlotFar ==
    ASSUME NEW e \in Nat, NEW t \in Nat, NEW i, Ring(e, t, i)
    PROVE  SlotOf(e, t) = <<i, Index(e, i)>>
<1> DEFINE P(k) == /\ Block(e, k) = Block(t, k) \/ k = 3
                   /\ \A j \in 0 .. k - 1 : Block(e, j) # Block(t, j)
<1>1. i \in 0 .. 3 /\ P(i) /\ Block(e, -1) # Block(t, -1)
  BY DEF Ring
<1>2. ASSUME NEW k \in 0 .. 3, P(k) PROVE k = i
  <2>1. CASE k < i
    <3>1. k \in 0 .. i - 1 /\ k # 3
      BY <1>1, <2>1
    <3> QED  BY <1>1, <1>2, <3>1
  <2>2. CASE i < k
    <3>1. i \in 0 .. k - 1 /\ i # 3
      BY <1>1, <2>2
    <3> QED  BY <1>1, <1>2, <3>1
  <2> QED  BY <1>1, <2>1, <2>2
<1> HIDE DEF P
<1>3. (CHOOSE k \in 0 .. 3 : P(k)) = i
  BY <1>1, <1>2
<1> QED  BY <1>1, <1>3 DEF SlotOf, P

LEMMA SlotType == ASSUME NEW e \in Nat, NEW t \in Nat PROVE SlotOf(e, t) \in Slot
<1>1. CASE Block(e, -1) = Block(t, -1)
  <2>1. e % Near \in 0 .. Near - 1
    BY DivIs, SizeIs
  <2> QED  BY <1>1, <2>1, SlotNear DEF Slot
<1>2. CASE Block(e, -1) # Block(t, -1)
  <2>1. PICK i \in 0 .. 3 : Ring(e, t, i)
    BY <1>2, RingExists
  <2>2. Index(e, i) \in 0 .. Level - 1
    BY BlockUp
  <2> QED  BY <2>1, <2>2, SlotFar DEF Slot
<1> QED  BY <1>1, <1>2

-----------------------------------------------------------------------------
(* The timing wheel: the next tick. *)

(* A node that waits is due in less than half of the clock. *)
DueLater(e, t) == (e - t) % Width # 0 /\ 2 * ((e - t) % Width) < Width

LEMMA DistanceIs ==
    ASSUME NEW e \in Moment, NEW t \in Moment
    PROVE  (e - t) % Width = IF t <= e THEN e - t ELSE e - t + Width
<1>1. Width \in Nat \ {0} /\ e \in Nat /\ t \in Nat /\ e < Width /\ t < Width
  BY MomentIs DEF Moment
<1> QED  BY <1>1

LEMMA DistanceNat == ASSUME NEW e \in Moment, NEW t \in Moment PROVE (e - t) % Width \in Nat
<1> DEFINE d == (e - t) % Width
<1>1. d = IF t <= e THEN e - t ELSE e - t + Width
  BY DistanceIs
<1> HIDE DEF d
<1>2. d \in Nat
  BY <1>1, MomentIs DEF Moment
<1> QED  BY <1>2 DEF d

NextTick(t) == (t + 1) % Width
LEMMA NextIs ==
    ASSUME NEW t \in Moment
    PROVE  /\ NextTick(t) \in Moment
           /\ IF t + 1 = Width THEN NextTick(t) = 0 ELSE NextTick(t) = t + 1
<1>1. Width \in Nat \ {0} /\ t \in Nat /\ t < Width
  BY MomentIs DEF Moment
<1> QED  BY <1>1 DEF NextTick, Moment

(* One tick less is left of a time that has not come. *)
LEMMA DistanceNext ==
    ASSUME NEW e \in Moment, NEW t \in Moment, DueLater(e, t)
    PROVE  /\ (e - NextTick(t)) % Width = ((e - t) % Width) - 1
           /\ e = NextTick(t) <=> (e - t) % Width = 1
           /\ e # NextTick(t) => DueLater(e, NextTick(t))
<1>1. Width \in Nat \ {0} /\ e \in Nat /\ t \in Nat /\ e < Width /\ t < Width /\ Width >= 2
  BY MomentIs DEF Moment
<1>2. PICK c \in Moment : c = NextTick(t) /\ IF t + 1 = Width THEN c = 0 ELSE c = t + 1
  BY NextIs
<1>3. (e - t) % Width = IF t <= e THEN e - t ELSE e - t + Width
  BY DistanceIs
<1>4. (e - c) % Width = IF c <= e THEN e - c ELSE e - c + Width
  BY DistanceIs
<1>5. c \in Nat /\ c < Width
  BY <1>1, <1>2 DEF Moment
<1>6. (e - t) % Width # 0 /\ 2 * ((e - t) % Width) < Width
  BY DEF DueLater
<1> DEFINE d == (e - t) % Width
           f == (e - c) % Width
<1>7. d = (IF t <= e THEN e - t ELSE e - t + Width) /\ f = (IF c <= e THEN e - c ELSE e - c + Width) /\ d # 0
  BY <1>3, <1>4, <1>6
<1> HIDE DEF d, f
<1>8. f = d - 1 /\ d \in Nat /\ (e = c <=> d = 1)
  BY <1>1, <1>2, <1>5, <1>7
<1>9. e # c => f # 0 /\ 2 * f < Width
  <2>1. 2 * d < Width
    BY <1>6 DEF d
  <2> QED  BY <1>1, <1>8, <2>1
<1> QED  BY <1>2, <1>8, <1>9 DEF DueLater, d, f

(* When a block begins with the next tick, nobody who waits is due in the  *)
(* block that ends.                                                        *)
LEMMA BlockOver ==
    ASSUME NEW e \in Moment, NEW t \in Moment, DueLater(e, t), NEW i \in Inner, NextTick(t) % Size(i) = 0
    PROVE  Block(e, i) # Block(t, i)
<1>1. Width \in Nat \ {0} /\ e \in Nat /\ t \in Nat /\ e < Width /\ t < Width
  BY MomentIs DEF Moment
<1>2. i \in -1 .. 3 /\ Size(i) \in Nat \ {0} /\ 2 * Size(i) <= Width
  BY SizeIs DEF Inner
<1>3. (e - t) % Width = IF t <= e THEN e - t ELSE e - t + Width
  BY DistanceIs
<1>4. IF t + 1 = Width THEN NextTick(t) = 0 ELSE NextTick(t) = t + 1
  BY NextIs
<1>5. CASE e <= t
  <2>1. 2 * (e - t + Width) < Width \/ e = t
    BY <1>1, <1>3, <1>5 DEF DueLater
  <2>2. e # t
    BY <1>1, <1>3 DEF DueLater
  <2>3. t - e >= Size(i)
    BY <1>1, <1>2, <1>5, <2>1, <2>2
  <2> QED  BY <1>1, <1>2, <2>3, DivOrder DEF Block
<1>6. CASE t < e
  <2>1. t + 1 <= e /\ NextTick(t) = t + 1
    BY <1>1, <1>4, <1>6
  <2>2. Block(t + 1, i) = Block(t, i) + 1
    BY <1>1, <1>2, <2>1, BlockSucc
  <2>3. Block(t + 1, i) <= Block(e, i)
    <3>1. t + 1 \in Nat
      BY <1>1
    <3> QED  BY <1>1, <1>2, <2>1, <3>1, DivOrder DEF Block
  <2>4. Block(t, i) \in Nat /\ Block(e, i) \in Nat
    BY <1>1, <1>2, BlockNat
  <2> QED  BY <2>2, <2>3, <2>4
<1> QED  BY <1>1, <1>5, <1>6

(* The level whose block begins with the next tick *)
Begins(t, i) == /\ i \in 0 .. 3
                /\ \A j \in -1 .. i - 1 : NextTick(t) % Size(j) = 0
                /\ \A j \in i .. 3 : Block(NextTick(t), j) = Block(t, j)

(* A node that is not in the slot of that block is where it has to be. *)
LEMMA StaysPut ==
    ASSUME NEW e \in Moment, NEW t \in Moment, DueLater(e, t), NEW i, Begins(t, i),
           SlotOf(e, t) # <<i, Index(NextTick(t), i)>>
    PROVE  SlotOf(e, NextTick(t)) = SlotOf(e, t)
<1>0. e \in Nat /\ t \in Nat /\ i \in 0 .. 3 /\ i \in Int
  BY MomentIs DEF Begins
<1>1. PICK c \in Moment : c = NextTick(t) /\ c \in Nat
  BY NextIs, MomentIs
<1>2. \A j \in -1 .. i - 1 : Block(e, j) # Block(t, j)
  <2> SUFFICES ASSUME NEW j \in -1 .. i - 1 PROVE Block(e, j) # Block(t, j)
    OBVIOUS
  <2>1. j \in Inner /\ NextTick(t) % Size(j) = 0
    BY <1>0 DEF Begins, Inner
  <2> QED  BY <2>1, BlockOver
<1>3. \A j \in i .. 3 : Block(c, j) = Block(t, j)
  BY <1>1 DEF Begins
<1>4. Block(e, -1) # Block(t, -1)
  BY <1>0, <1>2
<1>5. PICK k \in 0 .. 3 : Ring(e, t, k)
  BY <1>0, <1>4, RingExists
<1>6. SlotOf(e, t) = <<k, Index(e, k)>>
  BY <1>0, <1>5, SlotFar
<1>7. k \in i .. 3
  <2>1. k \in -1 .. i - 1 => FALSE
    <3>1. k \in -1 .. i - 1 => k # 3
      BY <1>0
    <3> QED  BY <1>2, <1>5, <3>1 DEF Ring
  <2> QED  BY <1>0, <1>5, <2>1
<1>8. Block(e, i - 1) # Block(c, i - 1)
  <2> SUFFICES ASSUME Block(e, i - 1) = Block(c, i - 1) PROVE FALSE
    OBVIOUS
  <2>1. i - 1 \in -1 .. 3 /\ i \in (i - 1) .. 3
    BY <1>0
  <2>2. Block(e, i) = Block(c, i)
    BY <1>0, <1>1, <2>1, BlockNest
  <2>3. Block(e, i) = Block(t, i)
    BY <1>0, <1>3, <2>2
  <2>4. Ring(e, t, i)
    BY <1>0, <1>2, <2>3 DEF Ring
  <2>5. SlotOf(e, t) = <<i, Index(e, i)>>
    BY <1>0, <2>4, SlotFar
  <2>6. Index(e, i) = Index(c, i)
    BY DEF Index
  <2> QED  BY <1>1, <2>5, <2>6
<1>9. \A j \in -1 .. i - 1 : Block(e, j) # Block(c, j)
  <2> SUFFICES ASSUME NEW j \in -1 .. i - 1, Block(e, j) = Block(c, j) PROVE FALSE
    OBVIOUS
  <2>1. j \in -1 .. 3 /\ i - 1 \in j .. 3
    BY <1>0
  <2> QED  BY <1>0, <1>1, <1>8, <2>1, BlockNest
<1>10. Ring(e, c, k)
  <2>1. k \in 0 .. 3 /\ (Block(e, k) = Block(c, k) \/ k = 3)
    BY <1>3, <1>5, <1>7 DEF Ring
  <2>2. \A j \in -1 .. k - 1 : Block(e, j) # Block(c, j)
    <3> SUFFICES ASSUME NEW j \in -1 .. k - 1 PROVE Block(e, j) # Block(c, j)
      OBVIOUS
    <3>1. j \in -1 .. i - 1 \/ j \in i .. 3
      BY <1>0, <1>7
    <3>2. Block(e, j) # Block(t, j)
      BY <1>5 DEF Ring
    <3> QED  BY <1>3, <1>9, <3>1, <3>2
  <2> QED  BY <2>1, <2>2 DEF Ring
<1> QED  BY <1>0, <1>1, <1>6, <1>10, SlotFar

(* Nor does a node have to move when no block begins. *)
LEMMA StaysWithin ==
    ASSUME NEW e \in Moment, NEW t \in Moment, NextTick(t) % Near # 0
    PROVE  SlotOf(e, NextTick(t)) = SlotOf(e, t)
<1>1. e \in Nat /\ t \in Nat /\ NextTick(t) = t + 1
  <2>1. 0 % Near = 0
    BY SizeIs
  <2> QED  BY <2>1, NextIs, MomentIs
<1>2. Block(t + 1, -1) = Block(t, -1)
  BY <1>1, BlockSucc, SizeIs, SMTT(30)
<1>3. \A j \in -1 .. 3 : Block(t + 1, j) = Block(t, j)
  BY <1>1, <1>2, BlockNest
<1>4. CASE Block(e, -1) = Block(t, -1)
  BY <1>1, <1>2, <1>4, SlotNear
<1>5. CASE Block(e, -1) # Block(t, -1)
  <2>1. PICK k \in 0 .. 3 : Ring(e, t, k)
    BY <1>1, <1>5, RingExists
  <2>2. Ring(e, t + 1, k)
    BY <1>3, <2>1 DEF Ring
  <2> QED  BY <1>1, <2>1, <2>2, SlotFar
<1> QED  BY <1>4, <1>5

(* The first level whose index is not 0 *)
Starts(c, i) == i \in 0 .. 3 /\ Index(c, i) # 0 /\ \A j \in 0 .. i - 1 : Index(c, j) = 0

LEMMA StartsBlocks ==
    ASSUME NEW c \in Nat, c % Near = 0, NEW i \in 0 .. 4, \A j \in 0 .. i - 1 : Index(c, j) = 0
    PROVE  \A j \in -1 .. i - 1 : c % Size(j) = 0
<1>0. c % Size(-1) = 0
  BY SizeIs
<1>1. ASSUME NEW j \in 0 .. 3, j < i, c % Size(j - 1) = 0 PROVE c % Size(j) = 0
  <2>1. j \in 0 .. i - 1
    BY <1>1
  <2>2. Index(c, j) = 0
    BY <2>1
  <2>3. c % Size(j) = 0 <=> c % Size(j - 1) = 0 /\ Index(c, j) = 0
    BY BlockUp
  <2> QED  BY <1>1, <2>2, <2>3
<1>2. 0 < i => c % Size(0) = 0
  BY <1>0, <1>1
<1>3. 1 < i => c % Size(1) = 0
  BY <1>1, <1>2
<1>4. 2 < i => c % Size(2) = 0
  BY <1>1, <1>3
<1>5. 3 < i => c % Size(3) = 0
  BY <1>1, <1>4
<1>6. \A j \in -1 .. i - 1 : j = -1 \/ (j = 0 /\ 0 < i) \/ (j = 1 /\ 1 < i) \/ (j = 2 /\ 2 < i) \/ (j = 3 /\ 3 < i)
  OBVIOUS
<1> QED  BY <1>0, <1>2, <1>3, <1>4, <1>5, <1>6

LEMMA StartsExists == ASSUME NEW c \in Moment, c # 0, c % Near = 0 PROVE \E i \in 0 .. 3 : Starts(c, i)
<1>0. c \in Nat /\ c < Width /\ Width \in Nat \ {0}
  BY MomentIs DEF Moment
<1> SUFFICES ASSUME ~ \E i \in 0 .. 3 : Starts(c, i) PROVE FALSE
  OBVIOUS
<1>1. ASSUME NEW i \in 0 .. 3, \A j \in 0 .. i - 1 : Index(c, j) = 0 PROVE Index(c, i) = 0
  BY <1>1 DEF Starts
<1>2. Index(c, 0) = 0
  BY <1>1
<1>3. Index(c, 1) = 0
  <2>1. \A j \in 0 .. 1 - 1 : j = 0
    OBVIOUS
  <2> QED  BY <1>1, <1>2, <2>1
<1>4. Index(c, 2) = 0
  <2>1. \A j \in 0 .. 2 - 1 : j = 0 \/ j = 1
    OBVIOUS
  <2> QED  BY <1>1, <1>2, <1>3, <2>1
<1>5. Index(c, 3) = 0
  <2>1. \A j \in 0 .. 3 - 1 : j = 0 \/ j = 1 \/ j = 2
    OBVIOUS
  <2> QED  BY <1>1, <1>2, <1>3, <1>4, <2>1
<1>6. \A j \in 0 .. 4 - 1 : Index(c, j) = 0
  <2>1. \A j \in 0 .. 4 - 1 : j = 0 \/ j = 1 \/ j = 2 \/ j = 3
    OBVIOUS
  <2> QED  BY <1>2, <1>3, <1>4, <1>5, <2>1
<1>7. c % Size(3) = 0
  <2>1. \A j \in -1 .. 4 - 1 : c % Size(j) = 0
    BY <1>0, <1>6, StartsBlocks
  <2> QED  BY <2>1
<1>8. c % Width = c
  BY <1>0, ModLess
<1> QED  BY <1>7, <1>8, SizeIs

(* timer_shift moves the block that begins, if one does. *)
LEMMA ShiftIs ==
    ASSUME NEW t \in Moment
    PROVE  IF NextTick(t) % Near # 0 THEN Shift(NextTick(t)) = wheel
           ELSE \E i \in 0 .. 3 : /\ Begins(t, i) /\ <<i, Index(NextTick(t), i)>> \in Slot
                         /\ Shift(NextTick(t)) = MoveList(wheel, <<i, Index(NextTick(t), i)>>, NextTick(t))
<1>0. PICK c \in Moment : c = NextTick(t) /\ c \in Nat /\ t \in Nat /\ IF t + 1 = Width THEN c = 0 ELSE c = t + 1
  BY NextIs, MomentIs
<1>1. CASE c = 0
  <2>1. \A j \in -1 .. 3 : 0 % Size(j) = 0 /\ 0 \div Size(j) = 0
    BY SizeIs
  <2>2. c % Near = 0 /\ Index(c, 3) = 0 /\ <<3, 0>> \in Slot
    <3>1. 0 % Near = 0 /\ 0 % Level = 0 /\ 0 \in 0 .. Level - 1
      BY SizeIs
    <3>2. Block(0, 2) = 0
      BY <2>1 DEF Block
    <3> QED  BY <1>1, <3>1, <3>2 DEF Index, Slot
  <2>3. Begins(t, 3)
    <3>1. \A j \in -1 .. 3 - 1 : c % Size(j) = 0
      BY <1>1, <2>1
    <3>2. Block(c, 3) = Block(t, 3)
      BY BlockTop
    <3>3. \A j \in 3 .. 3 : j = 3
      OBVIOUS
    <3> QED  BY <1>0, <3>1, <3>2, <3>3 DEF Begins
  <2> QED  BY <1>0, <1>1, <2>2, <2>3 DEF Shift
<1>2. CASE c # 0 /\ c % Near # 0
  BY <1>0, <1>2 DEF Shift
<1>3. CASE c # 0 /\ c % Near = 0
  <2>1. PICK i \in 0 .. 3 : Starts(c, i)
    BY <1>3, StartsExists
  <2>2. ASSUME NEW k \in 0 .. 3, Starts(c, k) PROVE k = i
    <3>1. k < i => k \in 0 .. i - 1
      OBVIOUS
    <3>2. i < k => i \in 0 .. k - 1
      OBVIOUS
    <3> QED  BY <2>1, <2>2, <3>1, <3>2 DEF Starts
  <2>3. Shift(c) = MoveList(wheel, <<i, Index(c, i)>>, c)
    <3> DEFINE P(k) == Index(c, k) # 0 /\ \A j \in 0 .. k - 1 : Index(c, j) = 0
    <3>1. P(i) /\ \A k \in 0 .. 3 : P(k) => k = i
      BY <2>1, <2>2 DEF Starts
    <3> HIDE DEF P
    <3>2. (CHOOSE k \in 0 .. 3 : P(k)) = i
      BY <3>1
    <3> QED  BY <1>3, <3>2 DEF Shift, P
  <2>4. \A j \in -1 .. i - 1 : c % Size(j) = 0
    BY <1>0, <1>3, <2>1, StartsBlocks DEF Starts
  <2>5. c % Size(i) # 0
    <3>1. c % Size(i) = 0 <=> c % Size(i - 1) = 0 /\ Index(c, i) = 0
      BY <1>0, BlockUp
    <3> QED  BY <2>1, <3>1 DEF Starts
  <2>6. Block(c, i) = Block(t, i)
    BY <1>0, <1>3, <2>5, BlockSucc
  <2>7. \A j \in i .. 3 : Block(c, j) = Block(t, j)
    BY <1>0, <2>6, BlockNest
  <2>8. Begins(t, i)
    BY <1>0, <2>4, <2>7 DEF Begins
  <2>9. <<i, Index(c, i)>> \in Slot
    <3>1. Index(c, i) \in 0 .. Level - 1
      BY <1>0, BlockUp
    <3> QED  BY <3>1 DEF Slot
  <2> QED  BY <1>0, <1>3, <2>3, <2>8, <2>9
<1> QED  BY <1>1, <1>2, <1>3

-----------------------------------------------------------------------------
(* The timing wheel: the lists. *)

TimerNode == [id : Nat, expire : Moment]
Rings == [Slot -> Seq(TimerNode)]

(* No timer is in the wheel twice, and timers of one tick are in the order *)
(* in which they were set.                                                 *)
IdsOnce(w) == \A s \in Slot, r \in Slot : \A k \in DOMAIN w[s], l \in DOMAIN w[r] :
                  w[s][k].id = w[r][l].id => s = r /\ k = l
InTurn(w) == \A s \in Slot : \A k, l \in DOMAIN w[s] :
                  k < l /\ w[s][k].expire = w[s][l].expire => w[s][k].id < w[s][l].id
InPlace(w, t) == \A s \in Slot : \A k \in DOMAIN w[s] : SlotOf(w[s][k].expire, t) = s

LEMMA ListIs ==
    ASSUME NEW w \in Rings, NEW s \in Slot
    PROVE  /\ w[s] \in Seq(TimerNode) /\ Len(w[s]) \in Nat /\ DOMAIN w[s] = 1 .. Len(w[s])
           /\ \A k \in DOMAIN w[s] : /\ w[s][k] \in TimerNode /\ w[s][k].id \in Nat
                                     /\ w[s][k].expire \in Moment /\ w[s][k].expire \in Nat
<1>1. w[s] \in Seq(TimerNode)
  BY DEF Rings
<1>2. DOMAIN w[s] = 1 .. Len(w[s]) /\ Len(w[s]) \in Nat /\ \A k \in DOMAIN w[s] : w[s][k] \in TimerNode
  BY <1>1
<1> QED  BY <1>1, <1>2, MomentIs DEF TimerNode

LEMMA HeldIs ==
    ASSUME NEW w, NEW n
    PROVE  n \in Held(w) <=> \E s \in Slot : \E k \in DOMAIN w[s] : n = w[s][k]
BY DEF Held

(* A node of the wheel is known by its number. *)
LEMMA HeldOnce ==
    ASSUME NEW w \in Rings, IdsOnce(w), NEW m \in Held(w), NEW n \in Held(w), m.id = n.id
    PROVE  m = n
<1>1. PICK s \in Slot : \E k \in DOMAIN w[s] : m = w[s][k]
  BY HeldIs
<1>2. PICK k \in DOMAIN w[s] : m = w[s][k]
  BY <1>1
<1>3. PICK r \in Slot : \E l \in DOMAIN w[r] : n = w[r][l]
  BY HeldIs
<1>4. PICK l \in DOMAIN w[r] : n = w[r][l]
  BY <1>3
<1> QED  BY <1>2, <1>4 DEF IdsOnce

(* One more node *)
OneMore(v, w, p, n) ==
    /\ p \in Slot /\ v \in Rings /\ Held(v) = Held(w) \cup {n}
    /\ \A s \in Slot : s # p => v[s] = w[s]
    /\ v[p][Len(w[p]) + 1] = n /\ \A k \in DOMAIN w[p] : k \in DOMAIN v[p] /\ v[p][k] = w[p][k]
    /\ \A k \in DOMAIN v[p] : k \in DOMAIN w[p] \/ k = Len(w[p]) + 1

LEMMA AddNodeIs ==
    ASSUME NEW w \in Rings, NEW n \in TimerNode, NEW t \in Nat
    PROVE  OneMore(AddNode(w, n, t), w, SlotOf(n.expire, t), n)
<1>a. PICK v : v = AddNode(w, n, t)
  OBVIOUS
<1>b. PICK p : p = SlotOf(n.expire, t)
  OBVIOUS
<1>1. n.expire \in Nat
  BY MomentIs DEF TimerNode
<1>2. p \in Slot
  BY <1>1, <1>b, SlotType
<1>3. w[p] \in Seq(TimerNode) /\ Len(w[p]) \in Nat /\ DOMAIN w[p] = 1 .. Len(w[p])
  BY <1>2, ListIs
<1>4. v = [w EXCEPT ![p] = Append(w[p], n)] /\ DOMAIN w = Slot
  BY <1>a, <1>b DEF AddNode, Rings
<1>5. Append(w[p], n) \in Seq(TimerNode)
  BY <1>3
<1>6. v \in Rings /\ v[p] = Append(w[p], n) /\ \A s \in Slot : s # p => v[s] = w[s]
  BY <1>2, <1>4, <1>5 DEF Rings
<1>7. /\ Len(v[p]) = Len(w[p]) + 1 /\ DOMAIN v[p] = 1 .. Len(w[p]) + 1
      /\ v[p][Len(w[p]) + 1] = n /\ \A k \in DOMAIN w[p] : k \in DOMAIN v[p] /\ v[p][k] = w[p][k]
      /\ \A k \in DOMAIN v[p] : k \in DOMAIN w[p] \/ k = Len(w[p]) + 1
  BY <1>3, <1>6
<1>8. ASSUME NEW m \in Held(v) PROVE m \in Held(w) \cup {n}
  <2>1. PICK s \in Slot : \E k \in DOMAIN v[s] : m = v[s][k]
    BY <1>8, HeldIs
  <2>2. PICK k \in DOMAIN v[s] : m = v[s][k]
    BY <2>1
  <2>3. m = n \/ (k \in DOMAIN w[s] /\ m = w[s][k])
    BY <1>6, <1>7, <2>2
  <2> QED  BY <2>3, HeldIs
<1>9. n \in Held(v)
  <2>1. Len(w[p]) + 1 \in DOMAIN v[p]
    BY <1>3, <1>7
  <2> QED  BY <1>2, <1>7, <2>1, HeldIs
<1>10. ASSUME NEW m \in Held(w) PROVE m \in Held(v)
  <2>1. PICK s \in Slot : \E k \in DOMAIN w[s] : m = w[s][k]
    BY <1>10, HeldIs
  <2>2. PICK k \in DOMAIN w[s] : m = w[s][k]
    BY <2>1
  <2>3. k \in DOMAIN v[s] /\ m = v[s][k]
    BY <1>6, <1>7, <2>2
  <2> QED  BY <2>3, HeldIs
<1> QED  BY <1>a, <1>b, <1>2, <1>6, <1>7, <1>8, <1>9, <1>10 DEF OneMore

LEMMA AddNodeKeeps ==
    ASSUME NEW w \in Rings, NEW n \in TimerNode, NEW t \in Nat, InPlace(w, t), IdsOnce(w), InTurn(w),
           \A m \in Held(w) : m.id # n.id /\ (m.expire = n.expire => m.id < n.id)
    PROVE  LET v == AddNode(w, n, t)
           IN  v \in Rings /\ InPlace(v, t) /\ IdsOnce(v) /\ InTurn(v) /\ Held(v) = Held(w) \cup {n}
<1>1. PICK v : v = AddNode(w, n, t)
  OBVIOUS
<1>2. PICK p : p = SlotOf(n.expire, t)
  OBVIOUS
<1>3. OneMore(v, w, p, n)
  BY <1>1, <1>2, AddNodeIs
<1>4. ASSUME NEW s \in Slot, NEW k \in DOMAIN v[s]
      PROVE  (k \in DOMAIN w[s] /\ v[s][k] = w[s][k] /\ w[s][k] \in Held(w)) \/ (s = p /\ k = Len(w[p]) + 1 /\ v[s][k] = n)
  BY <1>3, <1>4, HeldIs DEF OneMore
<1>5. InPlace(v, t)
  BY <1>2, <1>4 DEF InPlace
<1>6. IdsOnce(v)
  <2> SUFFICES ASSUME NEW s \in Slot, NEW r \in Slot, NEW k \in DOMAIN v[s], NEW l \in DOMAIN v[r],
                      v[s][k].id = v[r][l].id
               PROVE  s = r /\ k = l
    BY DEF IdsOnce
  <2> QED  BY <1>4 DEF IdsOnce
<1>7. InTurn(v)
  <2> SUFFICES ASSUME NEW s \in Slot, NEW k \in DOMAIN v[s], NEW l \in DOMAIN v[s],
                      k < l, v[s][k].expire = v[s][l].expire
               PROVE  v[s][k].id < v[s][l].id
    BY DEF InTurn
  <2>1. CASE k \in DOMAIN w[s] /\ v[s][k] = w[s][k] /\ w[s][k] \in Held(w)
    BY <1>4, <2>1 DEF InTurn
  <2>2. CASE s = p /\ k = Len(w[p]) + 1
    <3>1. l \in 1 .. Len(w[p]) \/ l = Len(w[p]) + 1
      BY <1>3, <2>2, ListIs DEF OneMore
    <3> QED  BY <1>3, <2>2, <3>1, ListIs DEF OneMore
  <2> QED  BY <1>4, <2>1, <2>2
<1> QED  BY <1>1, <1>3, <1>5, <1>6, <1>7 DEF OneMore

(* What the loop of move_list has made after i nodes of slot s *)
MovedNode(f, w, s, c, i) == IF i = 0 THEN [w EXCEPT ![s] = <<>>] ELSE AddNode(f[i - 1], w[s][i], c)
MovesNodes(f, w, s, c, n) == f = [i \in 0 .. n |-> MovedNode(f, w, s, c, i)]

(* The loop comes to its end. *)
LEMMA MovesNodesExist == ASSUME NEW w, NEW s, NEW c, NEW n \in Nat PROVE \E f : MovesNodes(f, w, s, c, n)
<1> DEFINE T == {m \in Nat : ~\E f : MovesNodes(f, w, s, c, m)}
<1> SUFFICES ASSUME T # {} PROVE FALSE
  OBVIOUS
<1>1. PICK m \in T : \A x \in T : m <= x
  <2>1. T \in SUBSET Nat
    OBVIOUS
  <2> HIDE DEF T
  <2> QED  BY <2>1, LeastNat
<1>2. m \in Nat /\ ~\E f : MovesNodes(f, w, s, c, m)
  BY <1>1
<1>3. CASE m = 0
  <2> DEFINE e == [i \in 0 .. 0 |-> [w EXCEPT ![s] = <<>>]]
  <2>1. e = [i \in 0 .. 0 |-> MovedNode(e, w, s, c, i)]
    BY DEF MovedNode
  <2> HIDE DEF e
  <2> QED  BY <1>2, <1>3, <2>1 DEF MovesNodes
<1>4. CASE m # 0
  <2>1. PICK l \in Nat : m = l + 1
    <3>1. m - 1 \in Nat /\ m = (m - 1) + 1
      BY <1>2, <1>4
    <3> QED  BY <3>1
  <2>2. l \notin T
    <3> HIDE DEF T
    <3> QED  BY <1>1, <1>2, <2>1
  <2>3. PICK f : MovesNodes(f, w, s, c, l)
    BY <2>2
  <2>4. \A i \in 0 .. l : f[i] = MovedNode(f, w, s, c, i)
    BY <2>3 DEF MovesNodes
  <2> DEFINE e == [i \in 0 .. m |-> IF i = m THEN MovedNode(f, w, s, c, m) ELSE f[i]]
  <2>5. \A i \in 0 .. m : e[i] = IF i = m THEN MovedNode(f, w, s, c, m) ELSE f[i]
    OBVIOUS
  <2>6. e = [i \in 0 .. m |-> e[i]]
    OBVIOUS
  <2> HIDE DEF e
  <2>7. ASSUME NEW i \in 0 .. m PROVE e[i] = MovedNode(e, w, s, c, i)
    <3>1. i # 0 => i - 1 \in 0 .. m /\ e[i - 1] = f[i - 1]
      BY <2>1, <2>5
    <3>2. MovedNode(e, w, s, c, i) = MovedNode(f, w, s, c, i)
      BY <3>1 DEF MovedNode
    <3>3. CASE i = m
      BY <2>5, <3>2, <3>3
    <3>4. CASE i # m
      <4>1. i \in 0 .. l
        BY <2>1, <3>4
      <4> QED  BY <2>4, <2>5, <3>2, <3>4, <4>1
    <3> QED  BY <3>3, <3>4
  <2>8. MovesNodes(e, w, s, c, m)
    BY <2>6, <2>7 DEF MovesNodes
  <2> QED  BY <1>2, <2>8
<1> QED  BY <1>3, <1>4

(* The wheel when the first i nodes of slot s have moved *)
PartMoved(v, w, s, c, i) ==
    /\ v \in Rings /\ InPlace(v, c) /\ IdsOnce(v) /\ InTurn(v)
    /\ \A n : n \in Held(v) <=> n \in Held(w) /\ \A l \in DOMAIN w[s] : i < l => n # w[s][l]

(* A wheel that was right for the time t, and is for c but for slot s *)
Moving(w, s, t, c) ==
    /\ w \in Rings /\ InPlace(w, t) /\ IdsOnce(w) /\ InTurn(w) /\ s \in Slot /\ c \in Nat
    /\ \A r \in Slot : r # s => \A k \in DOMAIN w[r] : SlotOf(w[r][k].expire, c) = r

(* It begins with the slot empty, *)
LEMMA MoveStart ==
    ASSUME NEW w, NEW s, NEW t, NEW c, Moving(w, s, t, c)
    PROVE  PartMoved([w EXCEPT ![s] = <<>>], w, s, c, 0)
<1>1. PICK v : v = [w EXCEPT ![s] = <<>>]
  OBVIOUS
<1>2. w \in Rings /\ s \in Slot /\ DOMAIN w = Slot
  BY DEF Moving, Rings
<1>3. v \in Rings /\ v[s] = <<>> /\ DOMAIN v[s] = {} /\ \A r \in Slot : r # s => v[r] = w[r]
  BY <1>1, <1>2 DEF Rings
<1>4. InPlace(v, c) /\ IdsOnce(v) /\ InTurn(v)
  BY <1>2, <1>3 DEF Moving, InPlace, IdsOnce, InTurn
<1>5. \A l \in DOMAIN w[s] : 0 < l
  BY <1>2, ListIs
<1>6. ASSUME NEW n \in Held(v) PROVE n \in Held(w) /\ \A l \in DOMAIN w[s] : n # w[s][l]
  <2>1. PICK r \in Slot : \E k \in DOMAIN v[r] : n = v[r][k]
    BY <1>6, HeldIs
  <2>2. PICK k \in DOMAIN v[r] : n = v[r][k]
    BY <2>1
  <2>3. r # s /\ k \in DOMAIN w[r] /\ n = w[r][k]
    BY <1>3, <2>2
  <2>4. \A l \in DOMAIN w[s] : w[r][k].id # w[s][l].id
    BY <1>2, <2>3 DEF Moving, IdsOnce
  <2> QED  BY <2>3, <2>4, HeldIs
<1>7. ASSUME NEW n \in Held(w), \A l \in DOMAIN w[s] : n # w[s][l] PROVE n \in Held(v)
  <2>1. PICK r \in Slot : \E k \in DOMAIN w[r] : n = w[r][k]
    BY <1>7, HeldIs
  <2>2. r # s /\ v[r] = w[r]
    BY <1>3, <1>7, <2>1
  <2> QED  BY <2>1, <2>2, HeldIs
<1> QED  BY <1>1, <1>3, <1>4, <1>5, <1>6, <1>7 DEF PartMoved

(* and each node keeps to that. *)
LEMMA MoveNext ==
    ASSUME NEW w, NEW s, NEW t, NEW c, Moving(w, s, t, c), NEW i \in DOMAIN w[s],
           NEW v, PartMoved(v, w, s, c, i - 1)
    PROVE  PartMoved(AddNode(v, w[s][i], c), w, s, c, i)
<1>1. w \in Rings /\ s \in Slot /\ c \in Nat /\ InPlace(w, t) /\ IdsOnce(w) /\ InTurn(w) /\ v \in Rings
  BY DEF Moving, PartMoved
<1>2. PICK n \in TimerNode : n = w[s][i] /\ n.id \in Nat /\ n \in Held(w)
  BY <1>1, ListIs, HeldIs
<1>3. DOMAIN w[s] = 1 .. Len(w[s]) /\ Len(w[s]) \in Nat /\ i \in Nat
  BY <1>1, ListIs
<1>4. ASSUME NEW m \in Held(v) PROVE m.id # n.id /\ (m.expire = n.expire => m.id < n.id)
  <2>1. m \in Held(w) /\ \A l \in DOMAIN w[s] : i - 1 < l => m # w[s][l]
    BY <1>4 DEF PartMoved
  <2>2. PICK r \in Slot : \E k \in DOMAIN w[r] : m = w[r][k]
    BY <2>1, HeldIs
  <2>3. PICK k \in DOMAIN w[r] : m = w[r][k]
    BY <2>2
  <2>4. m # n
    BY <1>2, <1>3, <2>1
  <2>5. m.id # n.id
    BY <1>1, <1>2, <2>1, <2>4, HeldOnce
  <2>6. ASSUME m.expire = n.expire PROVE m.id < n.id
    <3>1. r = s
      BY <1>1, <1>2, <2>3, <2>6 DEF InPlace
    <3>2. k < i
      <4>1. k \in DOMAIN w[s] /\ k \in Nat
        BY <1>3, <2>3, <3>1
      <4> QED  BY <1>3, <2>1, <2>3, <3>1, <4>1
    <3> QED  BY <1>1, <1>2, <2>3, <2>6, <3>1, <3>2 DEF InTurn
  <2> QED  BY <2>5, <2>6
<1>5. PICK u : u = AddNode(v, n, c)
  OBVIOUS
<1>6. u \in Rings /\ InPlace(u, c) /\ IdsOnce(u) /\ InTurn(u) /\ Held(u) = Held(v) \cup {n}
  BY <1>1, <1>4, <1>5, AddNodeKeeps DEF PartMoved
<1>7. ASSUME NEW m PROVE m \in Held(u) <=> m \in Held(w) /\ \A l \in DOMAIN w[s] : i < l => m # w[s][l]
  <2>1. m \in Held(u) <=> m \in Held(v) \/ m = n
    BY <1>6
  <2>2. m \in Held(v) <=> m \in Held(w) /\ \A l \in DOMAIN w[s] : i - 1 < l => m # w[s][l]
    BY DEF PartMoved
  <2>3. \A l \in DOMAIN w[s] : (i - 1 < l <=> i < l \/ l = i)
    BY <1>3
  <2>4. \A l \in DOMAIN w[s] : i < l => n # w[s][l]
    <3>1. \A l \in DOMAIN w[s] : w[s][l].id = w[s][i].id => l = i
      BY <1>1 DEF IdsOnce
    <3> QED  BY <1>2, <1>3, <3>1
  <2> QED  BY <1>2, <2>1, <2>2, <2>3, <2>4
<1> QED  BY <1>2, <1>5, <1>6, <1>7 DEF PartMoved

(* move_list puts the nodes of a slot where they have to be, in order. *)
LEMMA MoveListIs ==
    ASSUME NEW w, NEW s, NEW t, NEW c, Moving(w, s, t, c)
    PROVE  LET v == MoveList(w, s, c)
           IN  v \in Rings /\ InPlace(v, c) /\ IdsOnce(v) /\ InTurn(v) /\ Held(v) = Held(w)
<1> DEFINE f == CHOOSE g : MovesNodes(g, w, s, c, Len(w[s]))
<1>0. Len(w[s]) \in Nat /\ DOMAIN w[s] = 1 .. Len(w[s])
  BY ListIs DEF Moving
<1>1. MovesNodes(f, w, s, c, Len(w[s]))
  BY <1>0, MovesNodesExist
<1>2. MoveList(w, s, c) = f[Len(w[s])]
  BY DEF MoveList, MovesNodes, MovedNode
<1> HIDE DEF f
<1>3. \A i \in 0 .. Len(w[s]) : f[i] = MovedNode(f, w, s, c, i)
  BY <1>1 DEF MovesNodes
<1> DEFINE T == {i \in 0 .. Len(w[s]) : ~PartMoved(f[i], w, s, c, i)}
<1>4. T = {}
  <2> SUFFICES ASSUME T # {} PROVE FALSE
    OBVIOUS
  <2>1. PICK i \in T : \A x \in T : i <= x
    <3>1. T \in SUBSET Nat
      OBVIOUS
    <3> HIDE DEF T
    <3> QED  BY <3>1, LeastNat
  <2>2. i \in 0 .. Len(w[s]) /\ i \in Nat /\ ~PartMoved(f[i], w, s, c, i)
    BY <2>1
  <2>3. CASE i = 0
    <3>1. f[i] = [w EXCEPT ![s] = <<>>]
      BY <1>3, <2>2, <2>3 DEF MovedNode
    <3>2. PartMoved([w EXCEPT ![s] = <<>>], w, s, c, 0)
      BY MoveStart
    <3>3. PartMoved(f[i], w, s, c, 0)
      BY <3>1, <3>2
    <3> QED  BY <2>2, <2>3, <3>3
  <2>4. CASE i # 0
    <3>1. i \in DOMAIN w[s] /\ i - 1 \in 0 .. Len(w[s]) /\ i - 1 < i
      BY <1>0, <2>2, <2>4
    <3>2. i - 1 \notin T
      <4> HIDE DEF T
      <4> QED  BY <2>1, <2>2, <3>1
    <3>3. PartMoved(f[i - 1], w, s, c, i - 1)
      BY <3>1, <3>2
    <3>4. f[i] = AddNode(f[i - 1], w[s][i], c)
      BY <1>3, <2>2, <2>4 DEF MovedNode
    <3> QED  BY <2>2, <3>1, <3>3, <3>4, MoveNext
  <2> QED  BY <2>3, <2>4
<1>5. PartMoved(f[Len(w[s])], w, s, c, Len(w[s]))
  <2>1. Len(w[s]) \in 0 .. Len(w[s])
    BY <1>0
  <2> QED  BY <1>4, <2>1
<1>6. \A l \in DOMAIN w[s] : ~(Len(w[s]) < l)
  BY <1>0
<1> QED  BY <1>2, <1>5, <1>6 DEF PartMoved

-----------------------------------------------------------------------------
(* The timing wheel: the steps. *)

(* The slot of the present tick holds what is due then, and nothing else. *)
LEMMA NowIs ==
    ASSUME NEW e \in Nat, NEW t \in Nat
    PROVE  NowSlot(t) \in Slot /\ (SlotOf(e, t) = NowSlot(t) <=> e = t)
<1>1. NowSlot(t) = <<-1, t % Near>> /\ NowSlot(t) = SlotOf(t, t)
  BY SlotNear DEF NowSlot
<1>2. NowSlot(t) \in Slot
  BY <1>1, SlotType
<1>3. ASSUME SlotOf(e, t) = NowSlot(t) PROVE e = t
  <2>1. CASE Block(e, -1) = Block(t, -1)
    <3>1. e % Near = t % Near
      BY <1>1, <1>3, <2>1, SlotNear
    <3>2. Near \in Nat \ {0} /\ e \div Near = t \div Near
      BY <2>1, SizeIs DEF Block
    <3>3. e = Near * (e \div Near) + (e % Near) /\ t = Near * (t \div Near) + (t % Near)
      BY <3>2, DivIs
    <3> QED  BY <3>1, <3>2, <3>3
  <2>2. CASE Block(e, -1) # Block(t, -1)
    <3>1. PICK i \in 0 .. 3 : Ring(e, t, i)
      BY <2>2, RingExists
    <3>2. SlotOf(e, t) = <<i, Index(e, i)>>
      BY <3>1, SlotFar
    <3>3. <<i, Index(e, i)>> # <<-1, t % Near>>
      OBVIOUS
    <3> QED  BY <1>1, <1>3, <3>2, <3>3
  <2> QED  BY <2>1, <2>2
<1> QED  BY <1>1, <1>2, <1>3

(* What holds between the steps of the timer thread and of the services *)
TimerInv ==
    /\ time \in Moment /\ wheel \in Rings /\ cur \in Seq(TimerNode) /\ count \in Nat
    /\ phase = "idle" => cur = <<>>
    /\ InPlace(wheel, time) /\ IdsOnce(wheel) /\ InTurn(wheel)
    /\ \A n \in Held(wheel) : n.id \in 1 .. count /\ DueLater(n.expire, time)

(* The present slot is empty: what a service sets is due later. *)
LEMMA NowEmpty == TimerInv => wheel[NowSlot(time)] = <<>>
<1> SUFFICES ASSUME TimerInv, wheel[NowSlot(time)] # <<>> PROVE FALSE
  OBVIOUS
<1>1. time \in Moment /\ time \in Nat /\ wheel \in Rings
  BY MomentIs DEF TimerInv
<1>2. PICK s \in Slot : s = NowSlot(time)
  BY <1>1, NowIs
<1>3. 1 \in DOMAIN wheel[s]
  <2>1. wheel[s] \in Seq(TimerNode) /\ wheel[s] # <<>>
    BY <1>1, <1>2, ListIs
  <2> QED  BY <2>1
<1>4. PICK n : n = wheel[s][1] /\ n \in Held(wheel) /\ n.expire \in Moment /\ n.expire \in Nat
  BY <1>1, <1>3, ListIs, HeldIs
<1>5. SlotOf(n.expire, time) = s /\ DueLater(n.expire, time)
  BY <1>3, <1>4 DEF TimerInv, InPlace
<1>6. n.expire = time
  BY <1>1, <1>2, <1>4, <1>5, NowIs
<1>7. (time - time) % Width = 0
  <2>1. Width \in Nat \ {0}
    BY MomentIs
  <2> QED  BY <1>1, <2>1
<1> QED  BY <1>5, <1>6, <1>7 DEF DueLater

(* timer_shift leaves each node where it has to be at the next tick. *)
LEMMA ShiftPlaces ==
    ASSUME TimerInv
    PROVE  LET v == Shift(NextTick(time))
           IN  v \in Rings /\ InPlace(v, NextTick(time)) /\ IdsOnce(v) /\ InTurn(v) /\ Held(v) = Held(wheel)
<1>1. PICK c \in Moment : c = NextTick(time) /\ c \in Nat
  BY NextIs, MomentIs DEF TimerInv
<1>2. time \in Moment /\ wheel \in Rings /\ InPlace(wheel, time) /\ IdsOnce(wheel) /\ InTurn(wheel)
  BY DEF TimerInv
<1>3. ASSUME NEW s \in Slot, NEW k \in DOMAIN wheel[s]
      PROVE  wheel[s][k].expire \in Moment /\ DueLater(wheel[s][k].expire, time) /\ SlotOf(wheel[s][k].expire, time) = s
  <2>1. wheel[s][k] \in Held(wheel)
    BY <1>3, HeldIs
  <2> QED  BY <1>2, <1>3, <2>1, ListIs DEF TimerInv, InPlace
<1>4. CASE c % Near # 0
  <2>1. Shift(c) = wheel
    BY <1>1, <1>2, <1>4, ShiftIs
  <2>2. InPlace(wheel, c)
    <3> SUFFICES ASSUME NEW s \in Slot, NEW k \in DOMAIN wheel[s] PROVE SlotOf(wheel[s][k].expire, c) = s
      BY DEF InPlace
    <3> QED  BY <1>1, <1>2, <1>3, <1>4, StaysWithin, ZenonT(30)
  <2> QED  BY <1>1, <1>2, <2>1, <2>2
<1>5. CASE c % Near = 0
  <2>1. PICK i \in 0 .. 3 : /\ Begins(time, i) /\ <<i, Index(c, i)>> \in Slot
                            /\ Shift(c) = MoveList(wheel, <<i, Index(c, i)>>, c)
    BY <1>1, <1>2, <1>5, ShiftIs
  <2>2. PICK r \in Slot : r = <<i, Index(c, i)>>
    BY <2>1
  <2>3. Moving(wheel, r, time, c)
    <3>1. ASSUME NEW s \in Slot, s # r, NEW k \in DOMAIN wheel[s] PROVE SlotOf(wheel[s][k].expire, c) = s
      BY <1>1, <1>2, <1>3, <2>1, <2>2, <3>1, StaysPut, ZenonT(30)
    <3> QED  BY <1>1, <1>2, <3>1 DEF Moving
  <2>4. PICK v : v = MoveList(wheel, r, c)
    OBVIOUS
  <2>5. v \in Rings /\ InPlace(v, c) /\ IdsOnce(v) /\ InTurn(v) /\ Held(v) = Held(wheel)
    BY <2>3, <2>4, MoveListIs
  <2> QED  BY <1>1, <2>1, <2>2, <2>4, <2>5
<1> QED  BY <1>4, <1>5

(* What is left of a wheel when the present slot is taken *)
LEMMA TakeIs ==
    ASSUME NEW v \in Rings, NEW c \in Moment, InPlace(v, c), IdsOnce(v), InTurn(v)
    PROVE  LET u == [v EXCEPT ![NowSlot(c)] = <<>>]
           IN  /\ u \in Rings /\ InPlace(u, c) /\ IdsOnce(u) /\ InTurn(u)
               /\ \A n : n \in Held(u) <=> n \in Held(v) /\ n.expire # c
<1>0. c \in Nat
  BY MomentIs
<1>1. PICK s \in Slot : s = NowSlot(c)
  BY <1>0, NowIs
<1>2. PICK u : u = [v EXCEPT ![s] = <<>>]
  OBVIOUS
<1>3. u \in Rings /\ u[s] = <<>> /\ DOMAIN u[s] = {} /\ \A r \in Slot : r # s => u[r] = v[r]
  BY <1>2 DEF Rings
<1>4. InPlace(u, c) /\ IdsOnce(u) /\ InTurn(u)
  BY <1>3 DEF InPlace, IdsOnce, InTurn
<1>5. ASSUME NEW r \in Slot, NEW k \in DOMAIN v[r] PROVE v[r][k].expire = c <=> r = s
  <2>1. SlotOf(v[r][k].expire, c) = r /\ v[r][k].expire \in Nat
    BY <1>5, ListIs DEF InPlace
  <2> QED  BY <1>0, <1>1, <2>1, NowIs
<1>6. ASSUME NEW n \in Held(u) PROVE n \in Held(v) /\ n.expire # c
  <2>1. PICK r \in Slot : \E k \in DOMAIN u[r] : n = u[r][k]
    BY <1>6, HeldIs
  <2>2. r # s /\ \E k \in DOMAIN v[r] : n = v[r][k]
    BY <1>3, <2>1
  <2> QED  BY <1>5, <2>2, HeldIs
<1>7. ASSUME NEW n \in Held(v), n.expire # c PROVE n \in Held(u)
  <2>1. PICK r \in Slot : \E k \in DOMAIN v[r] : n = v[r][k]
    BY <1>7, HeldIs
  <2>2. r # s
    BY <1>5, <1>7, <2>1
  <2> QED  BY <1>3, <2>1, <2>2, HeldIs
<1> QED  BY <1>1, <1>2, <1>3, <1>4, <1>6, <1>7

(* The next tick takes from the wheel what is due then, in order. *)
Taken == /\ time' = NextTick(time) /\ time' \in Moment
         /\ wheel' \in Rings /\ InPlace(wheel', time') /\ IdsOnce(wheel') /\ InTurn(wheel')
         /\ \A n : n \in Held(wheel') <=> n \in Held(wheel) /\ n.expire # time'
         /\ cur' \in Seq(TimerNode) /\ phase' = "second"
         /\ \A n : n \in Held(wheel) /\ n.expire = time' <=> \E k \in DOMAIN cur' : n = cur'[k]
         /\ \A k, l \in DOMAIN cur' : k < l => cur'[k].id < cur'[l].id

LEMMA ShiftTimeIs == ASSUME TimerInv, ShiftTime PROVE Taken
<1>1. PICK c \in Moment : c = NextTick(time) /\ c \in Nat
  BY NextIs, MomentIs DEF TimerInv
<1>2. PICK v : v = Shift(c)
  OBVIOUS
<1>3. v \in Rings /\ InPlace(v, c) /\ IdsOnce(v) /\ InTurn(v) /\ Held(v) = Held(wheel)
  BY <1>1, <1>2, ShiftPlaces
<1>4. PICK s \in Slot : s = NowSlot(c)
  BY <1>1, NowIs
<1>5. time' = c /\ cur' = v[s] /\ wheel' = [v EXCEPT ![s] = <<>>] /\ phase' = "second"
  BY <1>1, <1>2, <1>4 DEF ShiftTime, Take, NextTick
<1>6. /\ wheel' \in Rings /\ InPlace(wheel', c) /\ IdsOnce(wheel') /\ InTurn(wheel')
      /\ \A n : n \in Held(wheel') <=> n \in Held(v) /\ n.expire # c
  BY <1>3, <1>4, <1>5, TakeIs
<1>7. ASSUME NEW r \in Slot, NEW k \in DOMAIN v[r] PROVE v[r][k].expire = c <=> r = s
  <2>1. SlotOf(v[r][k].expire, c) = r /\ v[r][k].expire \in Nat
    BY <1>3, <1>7, ListIs DEF InPlace
  <2> QED  BY <1>1, <1>4, <2>1, NowIs
<1>8. v[s] \in Seq(TimerNode)
  BY <1>3, ListIs
<1>9. ASSUME NEW n, n \in Held(wheel), n.expire = c PROVE \E k \in DOMAIN v[s] : n = v[s][k]
  <2>1. PICK r \in Slot : \E k \in DOMAIN v[r] : n = v[r][k]
    BY <1>3, <1>9, HeldIs
  <2>2. r = s
    BY <1>7, <1>9, <2>1
  <2> QED  BY <2>1, <2>2
<1>10. ASSUME NEW k \in DOMAIN v[s] PROVE v[s][k] \in Held(wheel) /\ v[s][k].expire = c
  BY <1>3, <1>7, <1>10, HeldIs
<1>11. \A k, l \in DOMAIN v[s] : k < l => v[s][k].id < v[s][l].id
  BY <1>3, <1>7 DEF InTurn
<1> QED  BY <1>1, <1>3, <1>5, <1>6, <1>8, <1>9, <1>10, <1>11 DEF Taken

LEMMA TakenKeeps == ASSUME TimerInv, Taken, count' = count PROVE TimerInv'
<1>1. ASSUME NEW n \in Held(wheel') PROVE n.id \in 1 .. count /\ DueLater(n.expire, time')
  <2>1. n \in Held(wheel) /\ n.expire # time' /\ time' = NextTick(time) /\ time \in Moment
    BY DEF Taken, TimerInv
  <2>2. n.expire \in Moment
    <3>1. PICK s \in Slot : \E k \in DOMAIN wheel[s] : n = wheel[s][k]
      BY <2>1, HeldIs
    <3> QED  BY <3>1, ListIs DEF TimerInv
  <2> QED  BY <2>1, <2>2, DistanceNext DEF TimerInv
<1>2. phase' # "idle"
  BY DEF Taken
<1> QED  BY <1>1, <1>2 DEF Taken, TimerInv

(* skynet_timeout with a delay: one more node *)
Set(d) == [id |-> count + 1, expire |-> (time + d) % Width]

LEMMA SetIs ==
    ASSUME TimerInv, NEW d \in Delay, d > 0
    PROVE  /\ Set(d) \in TimerNode /\ Set(d).id = count + 1 /\ time \in Nat
           /\ (Set(d).expire - time) % Width = d /\ DueLater(Set(d).expire, time)
           /\ \A m \in Held(wheel) : m.id # Set(d).id /\ (m.expire = Set(d).expire => m.id < Set(d).id)
           /\ LET v == AddNode(wheel, Set(d), time)
              IN  v \in Rings /\ InPlace(v, time) /\ IdsOnce(v) /\ InTurn(v) /\ Held(v) = Held(wheel) \cup {Set(d)}
<1>1. Width \in Nat \ {0} /\ time \in Nat /\ time < Width /\ count \in Nat /\ wheel \in Rings
  BY MomentIs DEF Moment, TimerInv
<1>2. d \in Int /\ 2 * d < Width
  BY TimerAssumption
<1>3. PICK e \in Moment : e = (time + d) % Width
  <2>1. time + d \in Nat
    BY <1>1, <1>2
  <2> QED  BY <1>1, <1>2, <2>1, DivIs DEF Moment
<1>4. (e - time) % Width = d
  <2>1. e = IF time + d < Width THEN time + d ELSE time + d - Width
    BY <1>1, <1>2, <1>3
  <2>2. (e - time) % Width = IF time <= e THEN e - time ELSE e - time + Width
    BY DistanceIs DEF TimerInv
  <2> QED  BY <1>1, <1>2, <2>1, <2>2
<1>5. DueLater(e, time)
  BY <1>2, <1>4 DEF DueLater
<1>6. PICK n \in TimerNode : n = Set(d) /\ n.id = count + 1 /\ n.expire = e
  <2>1. [id |-> count + 1, expire |-> e] \in TimerNode /\ Set(d) = [id |-> count + 1, expire |-> e]
    BY <1>1, <1>3 DEF Set, TimerNode
  <2> QED  BY <2>1
<1>7. \A m \in Held(wheel) : m.id # n.id /\ m.id < n.id
  BY <1>1, <1>6 DEF TimerInv
<1>8. LET v == AddNode(wheel, n, time)
      IN  v \in Rings /\ InPlace(v, time) /\ IdsOnce(v) /\ InTurn(v) /\ Held(v) = Held(wheel) \cup {n}
  BY <1>1, <1>7, AddNodeKeeps DEF TimerInv
<1> QED  BY <1>1, <1>4, <1>5, <1>6, <1>7, <1>8

LEMMA TimeoutKeeps == ASSUME TimerInv, NEW d \in Delay, Timeout(d) PROVE TimerInv'
<1>0. count \in Nat /\ d \in Int /\ count' = count + 1 /\ UNCHANGED <<time, cur, phase>>
  BY TimerAssumption DEF TimerInv, Timeout
<1>1. CASE d <= 0
  <2>1. wheel' = wheel
    BY <1>1 DEF Timeout
  <2>2. \A n \in Held(wheel) : n.id \in 1 .. count'
    BY <1>0 DEF TimerInv
  <2> QED  BY <1>0, <2>1, <2>2 DEF TimerInv
<1>2. CASE d > 0
  <2>1. wheel' = AddNode(wheel, Set(d), time)
    BY <1>0, <1>2 DEF Timeout, Set
  <2>2. wheel' \in Rings /\ InPlace(wheel', time) /\ IdsOnce(wheel') /\ InTurn(wheel')
        /\ Held(wheel') = Held(wheel) \cup {Set(d)} /\ DueLater(Set(d).expire, time) /\ Set(d).id = count + 1
    BY <1>2, <2>1, SetIs
  <2>3. \A n \in Held(wheel') : n.id \in 1 .. count' /\ DueLater(n.expire, time)
    BY <1>0, <2>2 DEF TimerInv
  <2> QED  BY <1>0, <2>2, <2>3 DEF TimerInv
<1> QED  BY <1>0, <1>1, <1>2

(* The timer thread finds nothing that is due already. *)
LEMMA TimerTurns ==
    ASSUME TimerInv
    PROVE  /\ TimerUpdate => ShiftTime /\ cur = <<>> /\ UNCHANGED <<count, out>>
           /\ Again => /\ cur = <<>> /\ UNCHANGED <<count, out>>
                       /\ ShiftTime \/ UNCHANGED <<time, wheel, cur>>
BY NowEmpty DEF TimerUpdate, Again, TimerInv

LEMMA WheelStarts == WheelInit => TimerInv
<1> SUFFICES ASSUME WheelInit PROVE TimerInv
  OBVIOUS
<1>1. wheel \in Rings /\ \A s \in Slot : wheel[s] = <<>> /\ DOMAIN wheel[s] = {}
  BY DEF WheelInit, Rings
<1>2. Held(wheel) = {}
  BY <1>1 DEF Held
<1> QED  BY <1>1, <1>2, MomentIs DEF WheelInit, TimerInv, InPlace, IdsOnce, InTurn

LEMMA WheelSteps == TimerInv /\ [WheelNext]_wheelVars => TimerInv'
<1> SUFFICES ASSUME TimerInv, [WheelNext]_wheelVars PROVE TimerInv'
  OBVIOUS
<1>1. CASE \E d \in Delay : Timeout(d)
  BY <1>1, TimeoutKeeps
<1>2. CASE UpdateTime
  BY <1>2 DEF UpdateTime, TimerInv
<1>3. CASE TimerUpdate
  BY <1>3, TimerTurns, ShiftTimeIs, TakenKeeps
<1>4. CASE DispatchList
  BY <1>4 DEF DispatchList, TimerInv
<1>5. CASE Again
  <2>1. CASE ShiftTime
    BY <1>5, <2>1, TimerTurns, ShiftTimeIs, TakenKeeps
  <2>2. CASE UNCHANGED <<time, wheel, cur>>
    BY <1>5, <2>2, TimerTurns DEF TimerInv
  <2> QED  BY <1>5, <2>1, <2>2, TimerTurns
<1>6. CASE UNCHANGED wheelVars
  BY <1>6 DEF wheelVars, TimerInv
<1> QED  BY <1>1, <1>2, <1>3, <1>4, <1>5, <1>6 DEF WheelNext, TimerThread

(***************************************************************************)
(* Where add_node put a node is where timer_shift will look for it, and    *)
(* every timer is due within half of the clock: WheelInv, for rings of any *)
(* size, any number of timers, any delays that an int holds and any pace   *)
(* of the clock.                                                           *)
(***************************************************************************)
THEOREM WheelHolds == WheelSpec => []WheelInv
<1>1. TimerInv => WheelInv
  <2> SUFFICES ASSUME TimerInv, NEW s \in Slot, NEW k \in DOMAIN wheel[s]
               PROVE  /\ (wheel[s][k].expire - time) % Width \in 1 .. Width \div 2
                      /\ s = SlotOf(wheel[s][k].expire, time)
    BY DEF WheelInv
  <2>1. PICK e \in Moment : e = wheel[s][k].expire /\ DueLater(e, time) /\ s = SlotOf(e, time)
    <3>1. wheel[s][k] \in Held(wheel)
      BY HeldIs
    <3> QED  BY <3>1, ListIs DEF TimerInv, InPlace
  <2>2. PICK d \in Nat : d = (e - time) % Width /\ d # 0 /\ 2 * d < Width
    <3>1. (e - time) % Width \in Nat
      BY DistanceNat DEF TimerInv
    <3> QED  BY <2>1, <3>1 DEF DueLater
  <2>3. d \in 1 .. Width \div 2
    <3>1. Width \in Nat
      BY MomentIs
    <3> QED  BY <2>2, <3>1
  <2> QED  BY <2>1, <2>2, <2>3
<1> QED  BY <1>1, WheelStarts, WheelSteps, PTL DEF WheelSpec

-----------------------------------------------------------------------------
(* The timing wheel implements TimerSpec. *)

(* What is left of each timer, and the state of the abstract specification *)
Left(w, t) == [i \in {n.id : n \in Held(w)} |-> ((CHOOSE n \in Held(w) : n.id = i).expire - t) % Width]

LEMMA LeftIs ==
    ASSUME NEW w \in Rings, IdsOnce(w), NEW t
    PROVE  /\ \A i : i \in DOMAIN Left(w, t) <=> \E n \in Held(w) : n.id = i
           /\ \A n \in Held(w) : Left(w, t)[n.id] = (n.expire - t) % Width
<1>1. ASSUME NEW n \in Held(w) PROVE Left(w, t)[n.id] = (n.expire - t) % Width
  <2>1. \A m \in Held(w) : m.id = n.id => m = n
    BY HeldOnce
  <2>2. (CHOOSE m \in Held(w) : m.id = n.id) = n
    BY <2>1
  <2>3. n.id \in {m.id : m \in Held(w)}
    OBVIOUS
  <2> QED  BY <2>2, <2>3 DEF Left
<1>2. DOMAIN Left(w, t) = {n.id : n \in Held(w)}
  BY DEF Left
<1> QED  BY <1>1, <1>2

LEMMA RemainingIs == Remaining = Left(wheel, time)
BY DEF Remaining, Waiting, Left

LEMMA RemainingNext == Remaining' = Left(wheel', time')
BY DEF Remaining, Waiting, Left, Held

LEMMA HeldNode == ASSUME NEW w \in Rings, NEW n \in Held(w) PROVE n \in TimerNode /\ n.expire \in Moment /\ n.id \in Nat
<1>1. PICK s \in Slot : \E k \in DOMAIN w[s] : n = w[s][k]
  BY HeldIs
<1> QED  BY <1>1, ListIs

(* Numbers of a list *)
LEMMA IdsIs ==
    ASSUME NEW q \in Seq(TimerNode)
    PROVE  /\ Ids(q) \in Seq(Nat) /\ Len(Ids(q)) = Len(q) /\ DOMAIN Ids(q) = DOMAIN q
           /\ \A k \in DOMAIN q : Ids(q)[k] = q[k].id
           /\ Ids(q) = <<>> <=> q = <<>>
<1>1. Len(q) \in Nat /\ DOMAIN q = 1 .. Len(q) /\ \A k \in 1 .. Len(q) : q[k].id \in Nat
  <2>1. Len(q) \in Nat /\ DOMAIN q = 1 .. Len(q) /\ \A k \in 1 .. Len(q) : q[k] \in TimerNode
    OBVIOUS
  <2> QED  BY <2>1 DEF TimerNode
<1>2. Ids(q) = [k \in 1 .. Len(q) |-> q[k].id]
  BY <1>1 DEF Ids
<1>3. Ids(q) \in Seq(Nat) /\ Len(Ids(q)) = Len(q)
  BY <1>1, <1>2
<1> QED  BY <1>1, <1>2, <1>3

(* A tick of the wheel is a tick of TimerSpec. *)
LEMMA TickStep == ASSUME TimerInv, Taken, cur = <<>>, UNCHANGED <<count, out>> PROVE Abstract!Tick
<1>0. wheel \in Rings /\ IdsOnce(wheel) /\ wheel' \in Rings /\ IdsOnce(wheel') /\ time' = NextTick(time)
      /\ time \in Moment /\ cur' \in Seq(TimerNode)
  BY DEF TimerInv, Taken
<1>1. ASSUME NEW n \in Held(wheel)
      PROVE  /\ Left(wheel, time)[n.id] = (n.expire - time) % Width
             /\ (n.expire - time) % Width \in Nat \ {0}
             /\ n.expire = time' <=> (n.expire - time) % Width = 1
             /\ (n.expire - time') % Width = ((n.expire - time) % Width) - 1
  <2>1. n.expire \in Moment /\ DueLater(n.expire, time) /\ n.expire \in Nat /\ time \in Nat /\ Width \in Nat \ {0}
    BY <1>0, HeldNode, MomentIs DEF TimerInv
  <2>2. (n.expire - time) % Width \in Nat
    BY <1>0, <2>1, DistanceNat
  <2> QED  BY <1>0, <2>1, <2>2, LeftIs, DistanceNext, SMTT(30) DEF DueLater
<1> DEFINE D == DOMAIN Left(wheel, time)
           D2 == DOMAIN Left(wheel', time')
<1>2. /\ \A i : i \in D <=> \E n \in Held(wheel) : n.id = i
      /\ \A i : i \in D2 <=> \E n \in Held(wheel') : n.id = i
      /\ \A n \in Held(wheel') : Left(wheel', time')[n.id] = (n.expire - time') % Width
  BY <1>0, LeftIs
<1>3. \A n : n \in Held(wheel') <=> n \in Held(wheel) /\ n.expire # time'
  BY DEF Taken
<1>4. D2 = {j \in D : Left(wheel, time)[j] > 1}
  <2>1. ASSUME NEW i \in D2 PROVE i \in D /\ Left(wheel, time)[i] > 1
    <3>1. PICK n \in Held(wheel) : n.id = i /\ n.expire # time'
      BY <1>2, <1>3, <2>1
    <3> QED  BY <1>1, <1>2, <3>1
  <2>2. ASSUME NEW i \in D, Left(wheel, time)[i] > 1 PROVE i \in D2
    <3>1. PICK n \in Held(wheel) : n.id = i
      BY <1>2
    <3>2. n.expire # time'
      BY <1>1, <2>2, <3>1
    <3> QED  BY <1>2, <1>3, <3>1, <3>2
  <2> HIDE DEF D, D2
  <2> QED  BY <2>1, <2>2
<1>5. ASSUME NEW i \in D2 PROVE Left(wheel', time')[i] = Left(wheel, time)[i] - 1
  <2>1. PICK n \in Held(wheel') : n.id = i
    BY <1>2
  <2> QED  BY <1>1, <1>2, <1>3, <2>1
<1>6. Remaining' = [i \in {j \in DOMAIN Remaining : Remaining[j] > 1} |-> Remaining[i] - 1]
  <2>1. Left(wheel', time') = [i \in D2 |-> Left(wheel', time')[i]]
    BY DEF Left
  <2> HIDE DEF D2
  <2>2. Left(wheel', time') = [i \in D2 |-> Left(wheel, time)[i] - 1]
    BY <1>5, <2>1
  <2> QED  BY <1>4, <2>2, RemainingIs, RemainingNext
<1>7. DOMAIN cur' = DOMAIN Ids(cur') /\ Ids(cur') \in Seq(Nat) /\ \A k \in DOMAIN cur' : Ids(cur')[k] = cur'[k].id
  BY <1>0, IdsIs
<1>8. {j \in D : Left(wheel, time)[j] = 1} = {Ids(cur')[k] : k \in DOMAIN Ids(cur')}
  <2>1. ASSUME NEW i \in D, Left(wheel, time)[i] = 1 PROVE \E k \in DOMAIN Ids(cur') : i = Ids(cur')[k]
    <3>1. PICK n \in Held(wheel) : n.id = i
      BY <1>2
    <3>2. n.expire = time'
      BY <1>1, <2>1, <3>1
    <3> QED  BY <1>7, <3>1, <3>2 DEF Taken
  <2>2. ASSUME NEW k \in DOMAIN Ids(cur') PROVE Ids(cur')[k] \in D /\ Left(wheel, time)[Ids(cur')[k]] = 1
    <3>1. cur'[k] \in Held(wheel) /\ cur'[k].expire = time' /\ Ids(cur')[k] = cur'[k].id
      BY <1>7, <2>2 DEF Taken
    <3> QED  BY <1>1, <1>2, <3>1
  <2> HIDE DEF D
  <2> QED  BY <2>1, <2>2
<1>9. Ids(cur') \in Seq({j \in D : Left(wheel, time)[j] = 1})
  <2>1. Len(Ids(cur')) \in Nat /\ Ids(cur') = [k \in 1 .. Len(Ids(cur')) |-> Ids(cur')[k]] /\ DOMAIN Ids(cur') = 1 .. Len(Ids(cur'))
    BY <1>7
  <2>2. PICK S : S = {Ids(cur')[k] : k \in DOMAIN Ids(cur')}
    OBVIOUS
  <2>3. \A k \in 1 .. Len(Ids(cur')) : Ids(cur')[k] \in S
    BY <2>1, <2>2
  <2>4. Ids(cur') \in Seq(S)
    BY <2>1, <2>3
  <2> QED  BY <1>8, <2>2, <2>4
<1>10. \A k, l \in DOMAIN Ids(cur') : k < l => Ids(cur')[k] < Ids(cur')[l]
  BY <1>7 DEF Taken
<1>11. Abstract!IsInOrder(Ids(cur'), {j \in D : Left(wheel, time)[j] = 1})
  BY <1>8, <1>9, <1>10 DEF Abstract!IsInOrder
<1>12. Ids(cur)' = Ids(cur')
  BY DEF Ids
<1>13. Ids(cur) = <<>>
  BY IdsIs DEF TimerInv
<1> HIDE DEF D2
<1> QED  BY <1>6, <1>11, <1>12, <1>13, RemainingIs DEF Abstract!Tick

(* skynet_timeout *)
LEMMA SetStep == ASSUME TimerInv, NEW d \in Delay, Timeout(d) PROVE Abstract!Set(d)
<1>0. wheel \in Rings /\ IdsOnce(wheel) /\ count \in Nat /\ d \in Int /\ count' = count + 1 /\ count < MaxTimers
      /\ UNCHANGED <<time, cur>>
  BY TimerAssumption DEF TimerInv, Timeout
<1>1. Ids(cur)' = Ids(cur)
  BY <1>0 DEF Ids
<1>2. CASE d <= 0
  <2>1. wheel' = wheel /\ out' = Append(out, count')
    BY <1>2 DEF Timeout
  <2>2. Remaining' = Remaining
    BY <1>0, <2>1, RemainingIs, RemainingNext
  <2> QED  BY <1>0, <1>1, <1>2, <2>1, <2>2 DEF Abstract!Set
<1>3. CASE d > 0
  <2>1. wheel' = AddNode(wheel, Set(d), time) /\ UNCHANGED out
    BY <1>0, <1>3 DEF Timeout, Set
  <2>2. PICK n : n = Set(d)
    OBVIOUS
  <2>3. /\ wheel' \in Rings /\ IdsOnce(wheel') /\ Held(wheel') = Held(wheel) \cup {n}
        /\ n.id = count' /\ (n.expire - time) % Width = d /\ \A m \in Held(wheel) : m.id # n.id
    BY <1>0, <1>3, <2>1, <2>2, SetIs
  <2> DEFINE L == Left(wheel, time)
             L2 == Left(wheel', time)
  <2>4. /\ \A i : i \in DOMAIN L <=> \E m \in Held(wheel) : m.id = i
        /\ \A m \in Held(wheel) : L[m.id] = (m.expire - time) % Width
        /\ \A i : i \in DOMAIN L2 <=> \E m \in Held(wheel') : m.id = i
        /\ \A m \in Held(wheel') : L2[m.id] = (m.expire - time) % Width
    BY <1>0, <2>3, LeftIs
  <2>5. L2 = [i \in DOMAIN L2 |-> L2[i]]
    BY DEF Left
  <2> HIDE DEF L, L2
  <2>6. DOMAIN L2 = DOMAIN L \cup {count'}
    <3>1. ASSUME NEW i PROVE i \in DOMAIN L2 <=> i \in DOMAIN L \/ i = count'
      <4>1. i \in DOMAIN L2 <=> \E m \in Held(wheel') : m.id = i
        BY <2>4
      <4>2. (\E m \in Held(wheel') : m.id = i) <=> (\E m \in Held(wheel) : m.id = i) \/ n.id = i
        BY <2>3
      <4> QED  BY <2>3, <2>4, <4>1, <4>2
    <3> QED  BY <3>1
  <2>7. ASSUME NEW i \in DOMAIN L2 PROVE L2[i] = IF i = count' THEN d ELSE L[i]
    <3>1. PICK m \in Held(wheel') : m.id = i
      BY <2>4
    <3>2. CASE m = n
      BY <2>3, <2>4, <3>1, <3>2
    <3>3. CASE m \in Held(wheel)
      BY <2>3, <2>4, <3>1, <3>3
    <3> QED  BY <2>3, <3>1, <3>2, <3>3
  <2>8. L2 = [i \in DOMAIN L \cup {count'} |-> IF i = count' THEN d ELSE L[i]]
    BY <2>5, <2>6, <2>7
  <2>9. L = Remaining /\ L2 = Remaining'
    BY <1>0, RemainingIs, RemainingNext DEF L, L2
  <2> QED  BY <1>0, <1>1, <1>3, <2>1, <2>8, <2>9 DEF Abstract!Set
<1> QED  BY <1>0, <1>2, <1>3

(* dispatch_list *)
LEMMA DeliverStep == ASSUME TimerInv, DispatchList PROVE Abstract!Deliver
<1>1. cur \in Seq(TimerNode) /\ cur # <<>> /\ cur' = Tail(cur) /\ out' = Append(out, Head(cur).id)
      /\ UNCHANGED <<time, wheel, count>>
  BY DEF DispatchList, TimerInv
<1>2. Remaining' = Remaining
  BY <1>1, RemainingIs, RemainingNext
<1>3. Ids(cur)' = Ids(cur')
  BY DEF Ids
<1>4. Len(cur) \in Nat /\ Len(cur) > 0 /\ DOMAIN cur = 1 .. Len(cur)
  BY <1>1
<1>5. cur' \in Seq(TimerNode) /\ Len(cur') = Len(cur) - 1 /\ \A k \in 1 .. Len(cur) - 1 : cur'[k] = cur[k + 1]
  BY <1>1, <1>4
<1>6. PICK q : q = Ids(cur)
  OBVIOUS
<1>7. PICK p : p = Ids(cur')
  OBVIOUS
<1>8. q \in Seq(Nat) /\ Len(q) = Len(cur) /\ q # <<>> /\ \A k \in 1 .. Len(cur) : q[k] = cur[k].id
  BY <1>1, <1>4, <1>6, IdsIs
<1>9. p \in Seq(Nat) /\ Len(p) = Len(cur) - 1 /\ \A k \in 1 .. Len(cur) - 1 : p[k] = cur'[k].id
  <2>1. DOMAIN cur' = 1 .. Len(cur) - 1
    BY <1>5
  <2> QED  BY <1>5, <1>7, <2>1, IdsIs
<1>10. p = Tail(q)
  <2>1. Tail(q) \in Seq(Nat) /\ Len(Tail(q)) = Len(cur) - 1 /\ \A k \in 1 .. Len(cur) - 1 : Tail(q)[k] = q[k + 1]
    BY <1>4, <1>8
  <2>2. \A k \in 1 .. Len(cur) - 1 : p[k] = Tail(q)[k]
    <3> SUFFICES ASSUME NEW k \in 1 .. Len(cur) - 1 PROVE p[k] = Tail(q)[k]
      OBVIOUS
    <3>1. k + 1 \in 1 .. Len(cur) /\ Tail(q)[k] = q[k + 1]
      BY <1>4, <2>1
    <3>2. q[k + 1] = cur[k + 1].id /\ p[k] = cur'[k].id /\ cur'[k] = cur[k + 1]
      BY <1>5, <1>8, <1>9, <3>1
    <3> QED  BY <3>1, <3>2
  <2>3. Len(p) = Len(Tail(q)) /\ \A k \in 1 .. Len(p) : p[k] = Tail(q)[k]
    BY <1>9, <2>1, <2>2
  <2> QED  BY <1>9, <2>1, <2>3, SeqEqual
<1>11. Head(q) = Head(cur).id
  BY <1>1, <1>4, <1>8
<1> QED  BY <1>1, <1>2, <1>3, <1>6, <1>7, <1>8, <1>10, <1>11 DEF Abstract!Deliver

(* Every step of the wheel is a step of TimerSpec or leaves it alone. *)
LEMMA WheelStep == TimerInv /\ [WheelNext]_wheelVars => [Abstract!Next]_(Abstract!vars)
<1> SUFFICES ASSUME TimerInv, [WheelNext]_wheelVars PROVE [Abstract!Next]_(Abstract!vars)
  OBVIOUS
<1>0. ASSUME UNCHANGED <<time, wheel, cur, count, out>> PROVE UNCHANGED Abstract!vars
  <2>1. Remaining' = Remaining
    BY <1>0, RemainingIs, RemainingNext
  <2>2. Ids(cur)' = Ids(cur)
    BY <1>0 DEF Ids
  <2> QED  BY <1>0, <2>1, <2>2 DEF Abstract!vars
<1>1. CASE \E d \in Delay : Timeout(d)
  BY <1>1, SetStep DEF Abstract!Next
<1>2. CASE UpdateTime
  BY <1>0, <1>2 DEF UpdateTime
<1>3. CASE TimerUpdate
  BY <1>3, TimerTurns, ShiftTimeIs, TickStep DEF Abstract!Next
<1>4. CASE DispatchList
  BY <1>4, DeliverStep DEF Abstract!Next
<1>5. CASE Again
  <2>1. CASE ShiftTime
    BY <1>5, <2>1, TimerTurns, ShiftTimeIs, TickStep DEF Abstract!Next
  <2>2. CASE UNCHANGED <<time, wheel, cur>>
    BY <1>0, <1>5, <2>2, TimerTurns
  <2> QED  BY <1>5, <2>1, <2>2, TimerTurns
<1>6. CASE UNCHANGED wheelVars
  BY <1>0, <1>6 DEF wheelVars
<1> QED  BY <1>1, <1>2, <1>3, <1>4, <1>5, <1>6 DEF WheelNext, TimerThread

(***************************************************************************)
(* The wheel implements the promise of skynet_timeout: every timer is      *)
(* delivered at the tick it was set for and only then, once, and those of  *)
(* one tick in the order they were set, through every cascade and through  *)
(* the wrap of the clock, for rings of any size and all delays.            *)
(***************************************************************************)
THEOREM TimeoutsRefinement == WheelSpec => ImplementsTimeouts
<1>1. WheelInit => Abstract!Init
  <2> SUFFICES ASSUME WheelInit PROVE Abstract!Init
    OBVIOUS
  <2>1. Held(wheel) = {}
    BY DEF WheelInit, Held
  <2>2. Remaining = <<>>
    <3>1. DOMAIN Remaining = {} /\ Remaining = [i \in {} |-> Remaining[i]]
      BY <2>1 DEF Remaining, Waiting
    <3> QED  BY <3>1
  <2>3. Ids(cur) = <<>>
    <3>1. cur \in Seq(TimerNode)
      BY DEF WheelInit
    <3> QED  BY <3>1, IdsIs DEF WheelInit
  <2> QED  BY <2>2, <2>3 DEF WheelInit, Abstract!Init
<1> QED  BY <1>1, WheelStarts, WheelSteps, WheelStep, PTL DEF WheelSpec, ImplementsTimeouts, Abstract!Spec
================================================================================
