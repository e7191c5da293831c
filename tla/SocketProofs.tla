----------------------------- MODULE SocketProofs -----------------------------
(***************************************************************************)
(* Proofs about SocketServer for every number of slots, of workers and of  *)
(* messages, and for every bound.  SocketInv is inductive.  Its parts: the *)
(* types; the owners, that is who may open a slot that is reserved, by     *)
(* which id an open one is found, and what the socket thread is closing;   *)
(* and the write event, which is armed wherever something is to be         *)
(* written.  On it rest the places of buffers and the counts of requests   *)
(* in flight; StreamProofs adds the streams that peers read.  Each step is *)
(* shown once to do what it does to one slot, and the parts of the         *)
(* invariant follow from that and not from the step.                       *)
(***************************************************************************)
EXTENDS SocketServer, WellFoundedInduction, FiniteSetTheorems, SequenceTheorems, TLAPS

(* A set of naturals that is not empty has a least one. *)
LEMMA LeastNat == ASSUME NEW T \in SUBSET Nat, T # {} PROVE \E x \in T : \A y \in T : x <= y
<1> DEFINE R == {ss \in Nat \X Nat : ss[1] < ss[2]}
<1>1. IsWellFoundedOn(R, Nat)
  BY NatLessThanWellFounded DEF OpToRel
<1>2. PICK x \in T : \A y \in T : ~ (<<y, x>> \in R)
  BY <1>1, WFMin
<1>3. ASSUME NEW y \in T PROVE x <= y
  <2>1. ~(<<y, x>> \in R)
    BY <1>2
  <2>2. y \in Nat /\ x \in Nat
    OBVIOUS
  <2>3. ~(y < x)
    BY <2>1, <2>2
  <2> QED BY <2>2, <2>3
<1> QED BY <1>3
(* Induction: a set with 0 that is closed under + 1 has every natural. *)
LEMMA SetInduction == ASSUME NEW S, 0 \in S, \A n \in Nat : n \in S => n + 1 \in S PROVE Nat \subseteq S
<1> SUFFICES ASSUME Nat \ S # {} PROVE FALSE
  OBVIOUS
<1>1. PICK x \in Nat \ S : \A y \in Nat \ S : x <= y
  BY LeastNat
<1>2. x # 0 /\ x - 1 \in Nat
  BY <1>1
<1>3. x - 1 \in S
  BY <1>1, <1>2
<1> QED BY <1>1, <1>2, <1>3

(* What f has to be to be what FlattenSeq computes, up to n *)
Flattens(f, ss, n) == f = [i \in 1 .. n |-> IF i = 1 THEN ss[i] ELSE f[i - 1] \o ss[i]]

(* The same, element by element *)
Adds(f, ss, n) == \A i \in 1 .. n : f[i] = IF i = 1 THEN ss[i] ELSE f[i - 1] \o ss[i]

(* What a function that puts sequences together does, element by element. *)
LEMMA FlattensAt == \A f, ss, n : Flattens(f, ss, n) => Adds(f, ss, n)
<1> SUFFICES ASSUME NEW f, NEW ss, NEW n, Flattens(f, ss, n)
             PROVE  \A i \in 1 .. n : f[i] = IF i = 1 THEN ss[i] ELSE f[i - 1] \o ss[i]
  BY Zenon DEF Adds
<1> DEFINE g == [i \in 1 .. n |-> IF i = 1 THEN ss[i] ELSE f[i - 1] \o ss[i]]
<1>1. f = g
  BY Zenon DEF Flattens
<1>2. \A i \in 1 .. n : g[i] = IF i = 1 THEN ss[i] ELSE f[i - 1] \o ss[i]
  BY Zenon
<1> HIDE DEF g
<1> QED BY <1>1, <1>2, Zenon

(* There is such a function, up to any length. *)
LEMMA FlattensTo ==
    ASSUME NEW T, NEW ss \in Seq(Seq(T)), NEW n \in Nat, n <= Len(ss)
    PROVE \E f \in [1 .. n -> Seq(T)] : Flattens(f, ss, n)
<1> DEFINE Good == {k \in Nat : k <= Len(ss) => \E f \in [1 .. k -> Seq(T)] : Flattens(f, ss, k)}
<1>1. 0 \in Good
  <2> DEFINE g == [i \in 1 .. 0 |-> <<>>]
  <2>1. g \in [1 .. 0 -> Seq(T)] /\ Flattens(g, ss, 0)
    BY DEF Flattens
  <2> QED BY <2>1
<1>2. ASSUME NEW k \in Nat, k \in Good PROVE k + 1 \in Good
  <2> SUFFICES ASSUME k + 1 <= Len(ss) PROVE \E f \in [1 .. k + 1 -> Seq(T)] : Flattens(f, ss, k + 1)
    OBVIOUS
  <2>1. k <= Len(ss) /\ Len(ss) \in Nat
    OBVIOUS
  <2>2. PICK f \in [1 .. k -> Seq(T)] : Flattens(f, ss, k)
    BY <1>2, <2>1
  <2> DEFINE v == IF k = 0 THEN ss[1] ELSE f[k] \o ss[k + 1]
             g == [i \in 1 .. k + 1 |-> IF i = k + 1 THEN v ELSE f[i]]
  <2>3. v \in Seq(T)
    <3>1. ss[k + 1] \in Seq(T)
      BY <2>1
    <3>2. CASE k = 0
      BY <3>1, <3>2
    <3>3. CASE k # 0
      <4>1. f[k] \in Seq(T)
        BY <3>3
      <4> QED BY <3>1, <3>3, <4>1
    <3> QED BY <3>2, <3>3
  <2>4. g \in [1 .. k + 1 -> Seq(T)]
    <3> HIDE DEF v
    <3> QED BY <2>3
  <2>5. \A i \in 1 .. k : f[i] = IF i = 1 THEN ss[i] ELSE f[i - 1] \o ss[i]
    BY <2>2 DEF Flattens
  <2>6. ASSUME NEW i \in 1 .. k + 1 PROVE g[i] = IF i = 1 THEN ss[i] ELSE g[i - 1] \o ss[i]
    <3>1. CASE i = k + 1
      BY <3>1
    <3>2. CASE i # k + 1
      <4>1. i \in 1 .. k /\ (i # 1 => i - 1 \in 1 .. k)
        BY <3>2
      <4>2. g[i] = f[i] /\ (i # 1 => g[i - 1] = f[i - 1])
        <5> HIDE DEF v
        <5> QED BY <4>1
      <4> HIDE DEF g
      <4> QED BY <2>5, <4>1, <4>2
    <3> QED BY <3>1, <3>2
  <2>7. Flattens(g, ss, k + 1)
    <3> HIDE DEF v
    <3> QED BY <2>6 DEF Flattens
  <2> HIDE DEF g
  <2> QED BY <2>4, <2>7
<1> HIDE DEF Good
<1>3. n \in Good
  BY <1>1, <1>2, SetInduction
<1> QED BY <1>3 DEF Good

(* Two of them agree where both are defined. *)
LEMMA FlattensUnique ==
    ASSUME NEW ss, NEW n \in Nat, NEW m \in Nat, n <= m, NEW f, NEW g, Flattens(f, ss, n), Flattens(g, ss, m)
    PROVE \A i \in 1 .. n : f[i] = g[i]
<1> DEFINE Good == {k \in Nat : k \in 1 .. n => f[k] = g[k]}
<1>1. 0 \in Good
  OBVIOUS
<1>2. ASSUME NEW k \in Nat, k \in Good PROVE k + 1 \in Good
  <2> SUFFICES ASSUME k + 1 \in 1 .. n PROVE f[k + 1] = g[k + 1]
    OBVIOUS
  <2>1. \A i \in 1 .. n : f[i] = IF i = 1 THEN ss[i] ELSE f[i - 1] \o ss[i]
    BY FlattensAt DEF Adds
  <2>2. \A i \in 1 .. m : g[i] = IF i = 1 THEN ss[i] ELSE g[i - 1] \o ss[i]
    BY FlattensAt DEF Adds
  <2>3. k + 1 \in 1 .. m /\ (k + 1 # 1 => k \in 1 .. n) /\ (k + 1) - 1 = k
    OBVIOUS
  <2>4. f[k + 1] = IF k + 1 = 1 THEN ss[k + 1] ELSE f[k] \o ss[k + 1]
    BY <2>1, <2>3
  <2>5. g[k + 1] = IF k + 1 = 1 THEN ss[k + 1] ELSE g[k] \o ss[k + 1]
    BY <2>2, <2>3
  <2> QED BY <1>2, <2>3, <2>4, <2>5
<1> HIDE DEF Good
<1>3. Nat \subseteq Good
  BY <1>1, <1>2, SetInduction
<1> QED BY <1>3 DEF Good

(* FlattenSeq is the last value of such a function. *)
LEMMA FlattenIs ==
    ASSUME NEW T, NEW ss \in Seq(Seq(T)), Len(ss) # 0
    PROVE \E f \in [1 .. Len(ss) -> Seq(T)] : Flattens(f, ss, Len(ss)) /\ FlattenSeq(ss) = f[Len(ss)]
<1> DEFINE g == CHOOSE f : Flattens(f, ss, Len(ss))
<1>1. Len(ss) \in Nat
  OBVIOUS
<1>2. PICK h \in [1 .. Len(ss) -> Seq(T)] : Flattens(h, ss, Len(ss))
  <2> HIDE DEF g
  <2>1. Len(ss) # 0
    OBVIOUS
  <2> QED  BY <1>1, <2>1, FlattensTo, SMTT(30)
<1>3. Flattens(g, ss, Len(ss))
  BY <1>2
<1>4. \A i \in 1 .. Len(ss) : g[i] = h[i]
  BY <1>1, <1>2, <1>3, FlattensUnique
<1>5. FlattenSeq(ss) = g[Len(ss)]
  BY DEF FlattenSeq, Flattens
<1> HIDE DEF g
<1>6. FlattenSeq(ss) = h[Len(ss)]
  BY <1>1, <1>4, <1>5
<1> QED BY <1>2, <1>6

(* Nothing put together is nothing. *)
LEMMA FlattenEmpty == FlattenSeq(<<>>) = <<>>
BY DEF FlattenSeq

(* The last of some sequences is at the end of all of them. *)
LEMMA FlattenLast ==
    ASSUME NEW T, NEW ss \in Seq(Seq(T)), NEW tt \in Seq(Seq(T)), NEW n \in Nat \ {0},
           Len(ss) = n, Len(tt) = n + 1, \A i \in 1 .. n : tt[i] = ss[i]
    PROVE  /\ FlattenSeq(ss) \in Seq(T)
           /\ FlattenSeq(tt) = FlattenSeq(ss) \o tt[n + 1]
<1>1. PICK g \in [1 .. n + 1 -> Seq(T)] : Flattens(g, tt, n + 1) /\ FlattenSeq(tt) = g[n + 1]
  <2>1. Len(tt) # 0
    OBVIOUS
  <2>2. \E f \in [1 .. Len(tt) -> Seq(T)] : Flattens(f, tt, Len(tt)) /\ FlattenSeq(tt) = f[Len(tt)]
    BY <2>1, FlattenIs
  <2> QED  BY <2>2
<1>2. PICK f \in [1 .. n -> Seq(T)] : Flattens(f, ss, n) /\ FlattenSeq(ss) = f[n]
  <2>1. Len(ss) # 0
    OBVIOUS
  <2>2. \E f \in [1 .. Len(ss) -> Seq(T)] : Flattens(f, ss, Len(ss)) /\ FlattenSeq(ss) = f[Len(ss)]
    BY <2>1, FlattenIs
  <2> QED  BY <2>2
<1>3. \A i \in 1 .. n + 1 : g[i] = IF i = 1 THEN tt[i] ELSE g[i - 1] \o tt[i]
  <2>1. PICK k \in Nat : k = n + 1
    OBVIOUS
  <2>2. Flattens(g, tt, k)
    BY <1>1, <2>1
  <2>3. Adds(g, tt, k)
    BY <2>2, FlattensAt, Zenon
  <2> QED  BY <2>1, <2>3 DEF Adds
<1> DEFINE h == [i \in 1 .. n |-> g[i]]
<1>4. ASSUME NEW i \in 1 .. n PROVE h[i] = IF i = 1 THEN ss[i] ELSE h[i - 1] \o ss[i]
  <2>1. h[i] = g[i] /\ (i # 1 => h[i - 1] = g[i - 1]) /\ i \in 1 .. n + 1 /\ tt[i] = ss[i]
    OBVIOUS
  <2> HIDE DEF h
  <2> QED  BY <1>3, <2>1
<1>5. Flattens(h, ss, n)
  <2>1. h = [i \in 1 .. n |-> h[i]]
    OBVIOUS
  <2> HIDE DEF h
  <2> QED  BY <1>4, <2>1, Zenon DEF Flattens
<1>6. h[n] = f[n]
  <2>1. n \in 1 .. n /\ n \in Nat /\ n <= n
    OBVIOUS
  <2> HIDE DEF h
  <2>2. \A i \in 1 .. n : h[i] = f[i]
    BY <1>2, <1>5, <2>1, FlattensUnique
  <2> QED  BY <2>1, <2>2
<1>7. g[n + 1] = g[n] \o tt[n + 1]
  <2>1. n + 1 \in 1 .. n + 1 /\ n + 1 # 1 /\ (n + 1) - 1 = n
    OBVIOUS
  <2> QED  BY <1>3, <2>1
<1>8. g[n] = f[n]
  BY <1>6
<1> QED  BY <1>1, <1>2, <1>7, <1>8

(* A sequence appended to others is at the end of all of them. *)
LEMMA FlattenAppend ==
    ASSUME NEW T, NEW ss \in Seq(Seq(T)), NEW s \in Seq(T)
    PROVE  /\ FlattenSeq(ss) \in Seq(T)
           /\ FlattenSeq(Append(ss, s)) = FlattenSeq(ss) \o s
<1>1. /\ Len(ss) \in Nat /\ Append(ss, s) \in Seq(Seq(T)) /\ Len(Append(ss, s)) = Len(ss) + 1
      /\ Append(ss, s)[Len(ss) + 1] = s /\ \A i \in 1 .. Len(ss) : Append(ss, s)[i] = ss[i]
  OBVIOUS
<1>2. CASE Len(ss) = 0
  <2> DEFINE tt == <<s>>
  <2>1. ss = <<>> /\ Append(ss, s) = tt
    BY <1>2
  <2>2. tt \in Seq(Seq(T)) /\ Len(tt) = 1 /\ tt[1] = s
    OBVIOUS
  <2>3. FlattenSeq(tt) = s
    <3> HIDE DEF tt
    <3>1. PICK g \in [1 .. Len(tt) -> Seq(T)] : Flattens(g, tt, Len(tt)) /\ FlattenSeq(tt) = g[Len(tt)]
      <4>1. tt \in Seq(Seq(T)) /\ Len(tt) # 0
        BY <2>2
      <4> QED  BY <4>1, FlattenIs, Zenon
    <3>2. \A i \in 1 .. Len(tt) : g[i] = IF i = 1 THEN tt[i] ELSE g[i - 1] \o tt[i]
      BY <2>2, <3>1, FlattensAt, SMTT(30) DEF Adds
    <3> QED  BY <2>2, <3>1, <3>2
  <2>4. FlattenSeq(ss) = <<>>
    BY <2>1, FlattenEmpty
  <2>5. FlattenSeq(Append(ss, s)) = s
    BY <2>1, <2>3
  <2> QED  BY <2>4, <2>5
<1>3. CASE Len(ss) # 0
  <2>1. Len(ss) \in Nat \ {0}
    BY <1>1, <1>3
  <2> QED  BY <1>1, <2>1, FlattenLast, ZenonT(30)
<1> QED  BY <1>2, <1>3

-----------------------------------------------------------------------------
Slot == 0 .. Slots - 1
Buf == [m : Msg, off : 0 .. Size - 1]
Unit == [m : Msg, u : 1 .. Size]
PartOf(x, n) == [u \in 1 .. n |-> [m |-> x.m, u |-> x.off + u]]

(* The first n units of what is left of a buffer. *)
LEMMA PartType ==
    ASSUME NEW x \in Buf, NEW n \in 0 .. Size - x.off
    PROVE  PartOf(x, n) \in Seq(Unit) /\ Len(PartOf(x, n)) = n
<1>1. Size \in Nat /\ x.off \in 0 .. Size - 1 /\ x.m \in Msg /\ n \in Nat
  BY SocketAssumption DEF Buf
<1>2. \A u \in 1 .. n : [m |-> x.m, u |-> x.off + u] \in Unit
  BY <1>1 DEF Unit
<1> HIDE DEF Unit
<1> QED  BY <1>1, <1>2 DEF PartOf

(* An empty list has nothing left to write. *)
LEMMA UnitsEmpty == Units(<<>>) = <<>> /\ Left(<<>>) = 0
<1>1. [i \in DOMAIN <<>> |-> [u \in 1 .. Size - <<>>[i].off |-> [m |-> <<>>[i].m, u |-> <<>>[i].off + u]]] = <<>>
  OBVIOUS
<1> QED  BY <1>1, FlattenEmpty DEF Units, Left

(* append_sendbuffer: what is left of a list and then of the new buffer. *)
LEMMA UnitsAppend ==
    ASSUME NEW b \in Seq(Buf), NEW x \in Buf
    PROVE  /\ Units(b) \in Seq(Unit) /\ Left(b) \in Nat
           /\ Units(Append(b, x)) = Units(b) \o PartOf(x, Size - x.off)
           /\ Left(Append(b, x)) = Left(b) + (Size - x.off)
<1> DEFINE Map(c) == [i \in DOMAIN c |-> PartOf(c[i], Size - c[i].off)]
<1>1. \A c : Units(c) = FlattenSeq(Map(c))
  BY DEF Units, PartOf
<1>2. \A y \in Buf : PartOf(y, Size - y.off) \in Seq(Unit) /\ Len(PartOf(y, Size - y.off)) = Size - y.off
  <2> SUFFICES ASSUME NEW y \in Buf PROVE PartOf(y, Size - y.off) \in Seq(Unit) /\ Len(PartOf(y, Size - y.off)) = Size - y.off
    OBVIOUS
  <2>1. Size - y.off \in 0 .. Size - y.off
    BY SocketAssumption DEF Buf
  <2> QED  BY <2>1, PartType
<1>3. ASSUME NEW c \in Seq(Buf) PROVE Map(c) \in Seq(Seq(Unit)) /\ Len(Map(c)) = Len(c)
  <2>1. c \in [1 .. Len(c) -> Buf] /\ Len(c) \in Nat /\ DOMAIN c = 1 .. Len(c)
    OBVIOUS
  <2>2. \A i \in 1 .. Len(c) : PartOf(c[i], Size - c[i].off) \in Seq(Unit)
    BY <1>2, <2>1
  <2>3. Map(c) \in [1 .. Len(c) -> Seq(Unit)]
    BY <2>1, <2>2
  <2> QED  BY <2>1, <2>3
<1>4. Map(Append(b, x)) = Append(Map(b), PartOf(x, Size - x.off))
  <2> DEFINE p == PartOf(x, Size - x.off)
             q == Map(b)
             c == Append(b, x)
             r == Map(c)
             a == Append(q, p)
  <2>1. /\ c \in Seq(Buf) /\ Len(c) = Len(b) + 1 /\ c[Len(b) + 1] = x
        /\ \A i \in 1 .. Len(b) : c[i] = b[i]
    OBVIOUS
  <2>2. /\ q \in Seq(Seq(Unit)) /\ Len(q) = Len(b) /\ r \in Seq(Seq(Unit)) /\ Len(r) = Len(b) + 1
        /\ p \in Seq(Unit) /\ Len(b) \in Nat
    BY <1>2, <1>3, <2>1
  <2>3. r[Len(b) + 1] = p /\ \A i \in 1 .. Len(b) : r[i] = q[i]
    BY <2>1
  <2> HIDE DEF p, q, r
  <2>4. /\ a \in Seq(Seq(Unit)) /\ Len(a) = Len(q) + 1 /\ a[Len(q) + 1] = p
        /\ \A i \in 1 .. Len(q) : a[i] = q[i]
    BY <2>2, AppendProperties
  <2> HIDE DEF a
  <2>5. ASSUME NEW i \in 1 .. Len(r) PROVE r[i] = a[i]
    <3>1. i = Len(b) + 1 \/ i \in 1 .. Len(b)
      BY <2>2
    <3> QED  BY <2>2, <2>3, <2>4, <3>1
  <2>6. r = a
    BY <2>2, <2>4, <2>5, SeqEqual
  <2> QED  BY <2>6 DEF a, p, q, r
<1> HIDE DEF Map
<1>5. /\ FlattenSeq(Map(b)) \in Seq(Unit)
      /\ FlattenSeq(Append(Map(b), PartOf(x, Size - x.off))) = FlattenSeq(Map(b)) \o PartOf(x, Size - x.off)
  BY <1>2, <1>3, FlattenAppend
<1>6. /\ Units(b) \in Seq(Unit)
      /\ Units(Append(b, x)) = Units(b) \o PartOf(x, Size - x.off)
  BY <1>1, <1>4, <1>5
<1>7. PartOf(x, Size - x.off) \in Seq(Unit) /\ Len(PartOf(x, Size - x.off)) = Size - x.off
  BY <1>2
<1> QED  BY <1>6, <1>7 DEF Left

(* In an increasing sequence of totals, those up to n are the first ones. *)
LEMMA FirstTotals ==
    ASSUME NEW N \in Nat, NEW p \in [0 .. N -> Nat], p[0] = 0,
           \A i \in 0 .. N - 1 : p[i] < p[i + 1], NEW n \in Nat
    PROVE  \E k \in 0 .. N : /\ {i \in 1 .. N : p[i] <= n} = 1 .. k
                             /\ p[k] <= n /\ (k < N => n < p[k + 1])
<1> DEFINE Over == {i \in 1 .. N + 1 : i = N + 1 \/ p[i] > n}
<1>1. PICK o \in Over : \A i \in Over : o <= i
  <2>1. Over \in SUBSET Nat /\ N + 1 \in Over
    OBVIOUS
  <2> HIDE DEF Over
  <2> QED  BY <2>1, LeastNat
<1>2. o - 1 \in 0 .. N /\ o \in 1 .. N + 1 /\ (o = N + 1 \/ p[o] > n)
  BY <1>1
<1>3. \A i \in 1 .. o - 1 : p[i] <= n
  <2> SUFFICES ASSUME NEW i \in 1 .. o - 1 PROVE p[i] <= n
    OBVIOUS
  <2>1. i \in 1 .. N /\ ~(i \in Over)
    BY <1>1, <1>2
  <2>2. i \in 0 .. N /\ p[i] \in Nat
    BY <2>1
  <2> QED  BY <2>1, <2>2
<1>4. \A i \in o .. N : p[i] > n
  <2> DEFINE S == {d \in Nat : o + d <= N => p[o + d] > n}
  <2>1. 0 \in S
    BY <1>2
  <2>2. ASSUME NEW d \in Nat, d \in S PROVE d + 1 \in S
    <3> SUFFICES ASSUME o + (d + 1) <= N PROVE p[o + (d + 1)] > n
      OBVIOUS
    <3>1. o + d \in 0 .. N - 1 /\ o + (d + 1) = (o + d) + 1 /\ o + (d + 1) \in 0 .. N
      BY <1>2
    <3>2. p[o + d] > n /\ p[o + d] \in Nat /\ p[o + (d + 1)] \in Nat
      BY <2>2, <3>1
    <3>3. p[o + d] < p[(o + d) + 1]
      BY <3>1
    <3> QED  BY <3>1, <3>2, <3>3
  <2> HIDE DEF S
  <2>3. Nat \subseteq S
    BY <2>1, <2>2, SetInduction
  <2> SUFFICES ASSUME NEW i \in o .. N PROVE p[i] > n
    OBVIOUS
  <2>4. i - o \in S /\ o + (i - o) = i
    BY <1>2, <2>3
  <2> QED  BY <2>4 DEF S
<1>5. {i \in 1 .. N : p[i] <= n} = 1 .. (o - 1)
  <2> SUFFICES ASSUME NEW i \in Int PROVE i \in 1 .. N /\ p[i] <= n <=> i \in 1 .. (o - 1)
    OBVIOUS
  <2>1. CASE i \in 1 .. (o - 1)
    BY <1>2, <1>3, <2>1
  <2>2. CASE i \in o .. N
    <3>1. p[i] \in Nat /\ p[i] > n
      BY <1>2, <1>4, <2>2
    <3> QED  BY <2>2, <3>1
  <2>3. CASE i \notin 1 .. N
    BY <1>2, <2>3
  <2> QED  BY <1>2, <2>1, <2>2, <2>3
<1>6. p[o - 1] <= n
  BY <1>2, <1>3
<1>7. o - 1 < N => n < p[(o - 1) + 1]
  BY <1>2
<1> QED  BY <1>2, <1>5, <1>6, <1>7

(* What is left of a list grows by what is left of each buffer. *)
Total(b, i) == Left(SubSeq(b, 1, i))

(* What the first i buffers of a list have left, which grows with i. *)
LEMMA Totals ==
    ASSUME NEW b \in Seq(Buf)
    PROVE  /\ Total(b, 0) = 0 /\ Total(b, Len(b)) = Left(b)
           /\ \A i \in 0 .. Len(b) : SubSeq(b, 1, i) \in Seq(Buf) /\ Len(SubSeq(b, 1, i)) = i /\ Total(b, i) \in Nat
           /\ \A i \in 0 .. Len(b) - 1 : /\ SubSeq(b, 1, i + 1) = Append(SubSeq(b, 1, i), b[i + 1])
                                         /\ Total(b, i + 1) = Total(b, i) + (Size - b[i + 1].off)
                                         /\ b[i + 1] \in Buf
<1>1. Len(b) \in Nat
  OBVIOUS
<1>2. \A i \in 0 .. Len(b) : SubSeq(b, 1, i) \in Seq(Buf) /\ Len(SubSeq(b, 1, i)) = i
  BY <1>1
<1>3. \A c \in Seq(Buf) : Left(c) \in Nat
  <2> SUFFICES ASSUME NEW c \in Seq(Buf), c # <<>> PROVE Left(c) \in Nat
    BY UnitsEmpty
  <2>1. PICK x \in Buf : TRUE
    BY HeadTailProperties
  <2> QED  BY UnitsAppend
<1>4. ASSUME NEW i \in 0 .. Len(b) - 1
      PROVE  /\ SubSeq(b, 1, i + 1) = Append(SubSeq(b, 1, i), b[i + 1])
             /\ Total(b, i + 1) = Total(b, i) + (Size - b[i + 1].off)
             /\ b[i + 1] \in Buf
  <2>1. b[i + 1] \in Buf /\ i \in 0 .. Len(b) /\ SubSeq(b, 1, i) \in Seq(Buf)
    BY <1>1, <1>2
  <2>2. SubSeq(b, 1, i + 1) = Append(SubSeq(b, 1, i), b[i + 1])
    <3> DEFINE x == SubSeq(b, 1, i)
               y == SubSeq(b, 1, i + 1)
    <3>1. /\ x \in Seq(Buf) /\ Len(x) = i /\ y \in Seq(Buf) /\ Len(y) = i + 1
          /\ \A j \in 1 .. i : x[j] = b[j]
          /\ \A j \in 1 .. i + 1 : y[j] = b[j]
      BY <1>1
    <3> HIDE DEF x, y
    <3>2. /\ Append(x, b[i + 1]) \in Seq(Buf) /\ Len(Append(x, b[i + 1])) = i + 1
          /\ \A j \in 1 .. i : Append(x, b[i + 1])[j] = x[j]
          /\ Append(x, b[i + 1])[i + 1] = b[i + 1]
      BY <2>1, <3>1, AppendProperties
    <3>3. ASSUME NEW j \in 1 .. Len(y) PROVE y[j] = Append(x, b[i + 1])[j]
      <4>1. j \in 1 .. i \/ j = i + 1
        BY <3>1
      <4> QED  BY <3>1, <3>2, <4>1
    <3>4. y = Append(x, b[i + 1])
      BY <3>1, <3>2, <3>3, SeqEqual
    <3> QED  BY <3>4 DEF x, y
  <2> QED  BY <2>1, <2>2, UnitsAppend DEF Total
<1>5. Total(b, 0) = 0
  <2>1. SubSeq(b, 1, 0) = <<>>
    BY SubSeqEmpty
  <2> QED  BY <2>1, UnitsEmpty DEF Total
<1>6. Total(b, Len(b)) = Left(b)
  BY SubSeqFull DEF Total
<1>7. \A i \in 0 .. Len(b) : Total(b, i) \in Nat
  BY <1>2, <1>3 DEF Total
<1> QED  BY <1>2, <1>4, <1>5, <1>6, <1>7

(* Where a write of n units ends: before unit n of buffer k + 1, or at the end *)
Ends(b, n, k) ==
    /\ k \in 0 .. Len(b)
    /\ Total(b, k) <= n /\ (k < Len(b) => n < Total(b, k) + (Size - b[k + 1].off))

(* Rest leaves the buffers behind that place, the first one from there on. *)
LEMMA RestIs ==
    ASSUME NEW b \in Seq(Buf), NEW n \in Nat
    PROVE  \E k \in 0 .. Len(b) :
              /\ Ends(b, n, k)
              /\ Rest(b, n) \in Seq(Buf) /\ Len(Rest(b, n)) = Len(b) - k
              /\ \A i \in 1 .. Len(b) - k : Rest(b, n)[i].m = b[k + i].m
              /\ \A i \in 2 .. Len(b) - k : Rest(b, n)[i] = b[k + i]
              /\ k < Len(b) => Rest(b, n)[1].off = b[k + 1].off + (n - Total(b, k))
<1> DEFINE N == Len(b)
           p == [i \in 0 .. N |-> Total(b, i)]
<1>1. /\ N \in Nat /\ p \in [0 .. N -> Nat] /\ p[0] = 0
      /\ \A i \in 0 .. N - 1 : p[i] < p[i + 1] /\ p[i + 1] = p[i] + (Size - b[i + 1].off)
  <2>1. N \in Nat /\ p \in [0 .. N -> Nat] /\ p[0] = 0
    BY Totals
  <2>2. ASSUME NEW i \in 0 .. N - 1 PROVE p[i] < p[i + 1] /\ p[i + 1] = p[i] + (Size - b[i + 1].off)
    <3>1. i \in 0 .. N /\ i + 1 \in 0 .. N /\ N \in Nat
      OBVIOUS
    <3>2. p[i] = Total(b, i) /\ p[i + 1] = Total(b, i + 1)
      BY <3>1
    <3>3. b[i + 1] \in Buf /\ Total(b, i + 1) = Total(b, i) + (Size - b[i + 1].off) /\ Total(b, i) \in Nat
      BY <3>1, Totals
    <3>4. Size - b[i + 1].off \in Nat \ {0}
      BY <3>3, SocketAssumption, SMTT(30) DEF Buf
    <3> QED  BY <3>2, <3>3, <3>4
  <2> QED  BY <2>1, <2>2
<1>2. \A i \in 0 .. N : p[i] = Total(b, i)
  OBVIOUS
<1>3. PICK k \in 0 .. N : {i \in 1 .. N : p[i] <= n} = 1 .. k /\ p[k] <= n /\ (k < N => n < p[k + 1])
  <2> HIDE DEF N, p
  <2> QED  BY <1>1, FirstTotals
<1> HIDE DEF p
<1>a. k < N => b[k + 1] \in Buf /\ Size - b[k + 1].off \in Nat \ {0}
  <2> SUFFICES ASSUME k < N PROVE b[k + 1] \in Buf /\ Size - b[k + 1].off \in Nat \ {0}
    OBVIOUS
  <2>1. b[k + 1] \in Buf
    BY <1>1, <1>3, ElementOfSeq
  <2> QED  BY <2>1, SocketAssumption DEF Buf
<1>b. Total(b, k) \in Nat /\ Total(b, k) <= n
  BY <1>1, <1>2, <1>3
<1>c. k < N => n < Total(b, k) + (Size - b[k + 1].off)
  <2> SUFFICES ASSUME k < N PROVE n < Total(b, k) + (Size - b[k + 1].off)
    OBVIOUS
  <2>1. k \in 0 .. N - 1 /\ k \in 0 .. N /\ n < p[k + 1]
    BY <1>1, <1>3
  <2>2. p[k + 1] = p[k] + (Size - b[k + 1].off) /\ p[k] = Total(b, k)
    BY <1>1, <1>2, <2>1
  <2> QED  BY <2>1, <2>2
<1>4. Ends(b, n, k)
  BY <1>b, <1>c DEF Ends
<1>5. Cardinality({i \in DOMAIN b : Left(SubSeq(b, 1, i)) <= n}) = k
  <2>1. {i \in DOMAIN b : Left(SubSeq(b, 1, i)) <= n} = {i \in 1 .. N : p[i] <= n}
    BY <1>1, <1>2 DEF Total
  <2>2. Cardinality(1 .. k) = k
    BY <1>3, FS_Interval
  <2> QED  BY <1>3, <2>1, <2>2
<1> DEFINE rest == SubSeq(b, k + 1, N)
<1>6. Rest(b, n) = IF rest = <<>> THEN rest ELSE [rest EXCEPT ![1].off = @ + n - Total(b, k)]
  BY <1>5 DEF Rest, Total
<1>7. rest \in Seq(Buf) /\ Len(rest) = N - k /\ \A i \in 1 .. N - k : rest[i] = b[k + i] /\ rest[i] \in Buf
  BY <1>1, <1>3
<1>8. CASE k = N
  <2>1. Rest(b, n) = <<>>
    BY <1>1, <1>6, <1>7, <1>8
  <2> QED  BY <1>4, <1>8, <2>1
<1>9. CASE k # N
  <2> DEFINE x == [rest[1] EXCEPT !.off = @ + n - Total(b, k)]
  <2>1. k < N /\ rest # <<>> /\ 1 \in 1 .. N - k /\ N \in Nat
    <3>1. k < N /\ 1 \in 1 .. N - k /\ N \in Nat
      BY <1>9
    <3> HIDE DEF rest
    <3> QED  BY <1>7, <3>1
  <2>2. Total(b, k) \in Nat /\ n - Total(b, k) \in Nat /\ n - Total(b, k) < Size - b[k + 1].off
    <3> DEFINE left == Size - b[k + 1].off
               t == Total(b, k)
    <3>2. left \in Nat /\ t \in Nat /\ t <= n /\ n < t + left
      BY <1>a, <1>b, <1>c, <2>1
    <3> HIDE DEF left, t
    <3>3. t \in Nat /\ n - t \in Nat /\ n - t < left
      BY <3>2
    <3> QED  BY <3>3 DEF left, t
  <2>3. x \in Buf /\ x.m = b[k + 1].m /\ x.off = b[k + 1].off + (n - Total(b, k))
    <3>1. rest[1] = b[k + 1] /\ rest[1] \in Buf
      BY <1>7, <2>1
    <3>2. rest[1].off \in 0 .. Size - 1 /\ Size \in Nat /\ rest[1].m \in Msg
      BY <3>1, SocketAssumption DEF Buf
    <3> HIDE DEF rest
    <3>3. /\ rest[1].off + n - Total(b, k) = rest[1].off + (n - Total(b, k))
          /\ rest[1].off + (n - Total(b, k)) \in 0 .. Size - 1
      BY <2>2, <3>1, <3>2
    <3>4. x \in Buf /\ x.m = rest[1].m /\ x.off = rest[1].off + n - Total(b, k)
      BY <3>1, <3>2, <3>3 DEF Buf
    <3> QED  BY <3>1, <3>3, <3>4
  <2>4. Rest(b, n) = [rest EXCEPT ![1] = x]
    BY <1>6, <2>1
  <2> HIDE DEF rest, x
  <2>5. /\ Rest(b, n) \in Seq(Buf) /\ Len(Rest(b, n)) = N - k
        /\ \A i \in 1 .. N - k : Rest(b, n)[i] = IF i = 1 THEN x ELSE rest[i]
    BY <1>7, <2>1, <2>3, <2>4, ExceptSeq
  <2>6. /\ \A i \in 1 .. N - k : Rest(b, n)[i].m = b[k + i].m
        /\ \A i \in 2 .. N - k : Rest(b, n)[i] = b[k + i]
        /\ Rest(b, n)[1].off = b[k + 1].off + (n - Total(b, k))
    BY <1>7, <2>1, <2>3, <2>5
  <2> QED  BY <1>4, <2>5, <2>6
<1> QED  BY <1>8, <1>9

Opening == {"O", "L", "B"}
Closing == {"K", "Kill"}
Sending == {"D", "P"}
Types == {"INVALID", "RESERVE", "CONNECTING", "CONNECTED", "HALFCLOSE", "BIND", "PLISTEN", "PACCEPT", "LISTEN"}
Open == Types \ {"INVALID", "RESERVE"}
Socket == [type : Types, id : 0 .. MaxId, protocol : {"UNKNOWN", "TCP"}, tag : 0 .. MaxId, sending : Int,
           high : Seq(Buf), low : Seq(Buf), wb : Int, dw : Seq(Buf), lock : Worker \cup {Nobody},
           polled : BOOLEAN, write : BOOLEAN]
Kind == {"read", "write", "both", "error"}
Requests == [cmd : {"", "S", "clear", "events"} \cup Opening \cup Closing, id : 0 .. MaxId, m : {0}]
            \cup [cmd : Sending, id : 0 .. MaxId, m : Msg]

TypeOK ==
    /\ sock \in [Slot -> Socket]
    /\ alloc_id \in 0 .. MaxId /\ pipe \in Seq(Requests) /\ ev \subseteq [slot : Slot, kind : Kind]
    /\ closing \in Requests
    /\ at \in [Worker -> {"idle", "reserve", "pipe", "try", "locked", "inc"}] /\ job \in [Worker -> Requests]
    /\ \A w \in Worker : at[w] \in {"try", "locked"} => job[w].cmd = "D"
    /\ nmsg \in 0 .. MaxMsg
    /\ from \in [Msg -> [who : Worker \cup {Nobody}, cmd : {""} \cup Sending, id : 0 .. MaxId]]
    /\ freed \in [Msg -> Nat] /\ wire \in [Id -> Seq(Unit)]
    /\ opened \subseteq 0 .. MaxId /\ issued \subseteq 0 .. MaxId
    /\ strayed \in BOOLEAN

(* A behaviour that is sound now was sound before. *)
LEMMA SoundBefore == [Next]_vars /\ Sound' /\ strayed \in BOOLEAN => Sound
<1> SUFFICES ASSUME [Next]_vars, Sound', strayed \in BOOLEAN PROVE Sound
  OBVIOUS
<1>1. CASE UNCHANGED vars
  BY <1>1 DEF Sound, vars, marks
<1>2. CASE Next
  <2>1. failed = {}
    BY <1>2 DEF Next
  <2>2. strayed => strayed'
    <3> SUFFICES ASSUME strayed PROVE strayed'
      OBVIOUS
    <3>1. CASE \E w \in Worker : Request(w) \/ WorkerStep(w)
      BY <3>1, ZenonT(30) DEF Request, WorkerStep, ReserveSet, SendRequest, TryDirectWrite, DirectWrite, IncSendingRef,
                  Reserve, Control, Send, marks
    <3>2. CASE SocketThread
      <4>1. CASE ForceClose \/ ClearClosedEvent \/ OpenSocket \/ CtrlDone \/ Wait
        BY <4>1 DEF ForceClose, ClearClosedEvent, OpenSocket, CtrlDone, Wait, marks
      <4>2. CASE CloseOrHalf \/ StartSocket
        BY <4>2 DEF CloseOrHalf, StartSocket, FreeLists, marks
      <4>3. CASE CloseSocket
        BY <4>3 DEF CloseSocket
      <4>4. CASE SendSocket
        BY <4>4 DEF SendSocket
      <4>5. CASE \E e \in ev : ReportConnect(e) \/ ReportAccept(e) \/ ReadEvent(e) \/ SkipEvent(e)
        BY <4>5 DEF ReportConnect, ReportAccept, ReadEvent, SkipEvent, FreeLists, marks
      <4>6. CASE \E e \in ev, n \in 0 .. MaxMsg * Size, err \in BOOLEAN : WriteEvent(e, n, err)
        BY <4>6 DEF WriteEvent, marks
      <4> QED  BY <3>2, <4>1, <4>2, <4>3, <4>4, <4>5, <4>6 DEF SocketThread
    <3> QED  BY <1>2, <3>1, <3>2 DEF Next
  <2> QED  BY <2>1, <2>2 DEF Sound
<1> QED  BY <1>1, <1>2

(* HASH_ID gives a slot. *)
LEMMA HashRange == \A id \in Nat : Hash(id) \in Slot
BY SocketAssumption DEF Hash, Slot

(* A list of buffers has something left unless it is empty. *)
LEMMA LeftType == \A b \in Seq(Buf) : Left(b) \in Nat /\ Units(b) \in Seq(Unit) /\ (Left(b) = 0 <=> b = <<>>)
<1> SUFFICES ASSUME NEW b \in Seq(Buf) PROVE Left(b) \in Nat /\ Units(b) \in Seq(Unit) /\ (Left(b) = 0 <=> b = <<>>)
  OBVIOUS
<1>1. CASE b = <<>>
  <2>1. <<>> \in Seq(Unit) /\ 0 \in Nat
    OBVIOUS
  <2> QED  BY <1>1, <2>1, UnitsEmpty, Zenon
<1>2. CASE b # <<>>
  <2>1. PICK c \in Seq(Buf), x \in Buf : b = Append(c, x)
    BY <1>2, SequenceEmptyOrAppend
  <2>2. Units(c) \in Seq(Unit) /\ Left(c) \in Nat /\ Left(b) = Left(c) + (Size - x.off)
        /\ Units(b) = Units(c) \o PartOf(x, Size - x.off)
    BY <2>1, UnitsAppend
  <2>3. Size - x.off \in 1 .. Size /\ Size - x.off \in 0 .. Size - x.off
    BY SocketAssumption DEF Buf
  <2>4. PartOf(x, Size - x.off) \in Seq(Unit)
    BY <2>3, PartType
  <2>5. Units(b) \in Seq(Unit)
    BY <2>2, <2>4, ConcatProperties
  <2> QED  BY <1>2, <2>2, <2>3, <2>5
<1> QED  BY <1>1, <1>2

(* The slot with the fields of s, but for its lists, their size and its write event *)
SameSocket(s, t) ==
    /\ t \in Socket /\ t.type = s.type /\ t.id = s.id /\ t.protocol = s.protocol /\ t.tag = s.tag
    /\ t.sending = s.sending /\ t.lock = s.lock /\ t.polled = s.polled

(* The remainder of a direct write goes before the high list. *)
LEMMA WithDirectWriteIs ==
    ASSUME NEW s \in Socket
    PROVE  LET t == WithDirectWrite(s)
           IN  /\ SameSocket(s, t) /\ t.write = s.write
               /\ t.high = s.dw \o s.high /\ t.low = s.low /\ t.dw = <<>>
<1>1. Left(s.dw) \in Nat /\ s.dw \o s.high \in Seq(Buf)
  BY LeftType DEF Socket
<1> DEFINE t == [s EXCEPT !.high = s.dw \o s.high, !.wb = @ + Left(s.dw), !.dw = <<>>]
<1>2. s.wb + Left(s.dw) \in Int /\ s.wb + Left(s.dw) \in Int /\ <<>> \in Seq(Buf)
  BY <1>1 DEF Socket
<1>3. t \in Socket
  BY <1>1, <1>2 DEF Socket
<1>4. /\ t.type = s.type /\ t.id = s.id /\ t.protocol = s.protocol /\ t.tag = s.tag
      /\ t.sending = s.sending /\ t.lock = s.lock /\ t.polled = s.polled /\ t.write = s.write
      /\ t.high = s.dw \o s.high /\ t.low = s.low /\ t.dw = <<>>
  BY DEF Socket
<1>5. WithDirectWrite(s) = t
  BY DEF WithDirectWrite
<1> HIDE DEF t
<1> QED  BY <1>3, <1>4, <1>5 DEF SameSocket

(* What a write takes from each list *)
FromHigh(s, n) == IF n < Left(s.high) THEN n ELSE Left(s.high)
Raises(s, n) == LET low == Rest(s.low, n - FromHigh(s, n)) IN low # <<>> /\ Head(low).off > 0

(* What send_buffer_ leaves of both lists, and of the write event. *)
LEMMA SentIs ==
    ASSUME NEW s \in Socket, NEW n \in Nat
    PROVE  LET t == Sent(s, n)
               low == Rest(s.low, n - FromHigh(s, n))
           IN  /\ SameSocket(s, t) /\ t.dw = s.dw
               /\ t.high = IF Raises(s, n) THEN <<Head(low)>> ELSE Rest(s.high, FromHigh(s, n))
               /\ t.low = IF Raises(s, n) THEN Tail(low) ELSE low
               /\ t.write = (s.write /\ (t.high # <<>> \/ t.low # <<>>))
<1> DEFINE nhigh == FromHigh(s, n)
           high == Rest(s.high, nhigh)
           low == Rest(s.low, n - nhigh)
           newhigh == IF Raises(s, n) THEN <<Head(low)>> ELSE high
           newlow == IF Raises(s, n) THEN Tail(low) ELSE low
           u == [s EXCEPT !.wb = @ - n, !.high = newhigh, !.low = newlow]
<1>1. nhigh \in Nat /\ n - nhigh \in Nat
  BY LeftType DEF FromHigh, Socket
<1>2. high \in Seq(Buf) /\ low \in Seq(Buf)
  <2> HIDE DEF nhigh
  <2>1. s.high \in Seq(Buf) /\ s.low \in Seq(Buf)
    BY DEF Socket
  <2> QED  BY <1>1, <2>1, RestIs
<1>3. newhigh \in Seq(Buf) /\ newlow \in Seq(Buf)
  <2>1. Raises(s, n) => low # <<>>
    BY DEF Raises
  <2> HIDE DEF high, low
  <2> QED  BY <1>2, <2>1
<1>4. Sent(s, n) = [u EXCEPT !.write = s.write /\ ~SendBufferEmpty(u)]
  BY DEF Sent, FromHigh, Raises
<1> HIDE DEF newhigh, newlow
<1>5. /\ u \in Socket /\ u.high = newhigh /\ u.low = newlow /\ u.type = s.type /\ u.id = s.id
      /\ u.protocol = s.protocol /\ u.tag = s.tag /\ u.sending = s.sending /\ u.dw = s.dw
      /\ u.lock = s.lock /\ u.polled = s.polled /\ u.write = s.write
  <2>1. s.wb - n \in Int
    BY DEF Socket
  <2>2. u \in Socket
    BY <1>3, <2>1 DEF Socket
  <2>3. /\ u.high = newhigh /\ u.low = newlow /\ u.type = s.type /\ u.id = s.id
        /\ u.protocol = s.protocol /\ u.tag = s.tag /\ u.sending = s.sending /\ u.dw = s.dw
        /\ u.lock = s.lock /\ u.polled = s.polled /\ u.write = s.write
    BY DEF Socket
  <2> HIDE DEF u
  <2> QED  BY <2>2, <2>3
<1>6. (~SendBufferEmpty(u)) = (newhigh # <<>> \/ newlow # <<>>)
  BY <1>5 DEF SendBufferEmpty
<1> DEFINE e == s.write /\ ~SendBufferEmpty(u)
<1>7. e \in BOOLEAN /\ e = (s.write /\ (newhigh # <<>> \/ newlow # <<>>))
  BY <1>6
<1> HIDE DEF u, e
<1>8. /\ [u EXCEPT !.write = e] \in Socket /\ [u EXCEPT !.write = e].high = newhigh /\ [u EXCEPT !.write = e].low = newlow
      /\ SameSocket(s, [u EXCEPT !.write = e]) /\ [u EXCEPT !.write = e].write = e /\ [u EXCEPT !.write = e].dw = s.dw
  BY <1>5, <1>7 DEF Socket, SameSocket
<1>9. Sent(s, n) = [u EXCEPT !.write = e]
  BY <1>4 DEF u, e
<1> QED  BY <1>7, <1>8, <1>9 DEF newhigh, newlow

(* The types of a slot whose lists change together. *)
LEMMA SetLists ==
    \A s \in Socket, type \in Types, e \in Seq(Buf) : [s EXCEPT !.type = type, !.high = e, !.low = e] \in Socket
<1> SUFFICES ASSUME NEW s \in Socket, NEW type \in Types, NEW e \in Seq(Buf)
             PROVE  [s EXCEPT !.type = type, !.high = e, !.low = e] \in Socket
  OBVIOUS
<1> QED  BY DEF Socket

(* The types of a slot whose events change. *)
LEMMA SetEvents ==
    \A s \in Socket, e \in Seq(Buf), polled \in BOOLEAN, write \in BOOLEAN :
        [s EXCEPT !.dw = e, !.polled = polled, !.write = write] \in Socket
<1> SUFFICES ASSUME NEW s \in Socket, NEW e \in Seq(Buf), NEW polled \in BOOLEAN, NEW write \in BOOLEAN
             PROVE  [s EXCEPT !.dw = e, !.polled = polled, !.write = write] \in Socket
  OBVIOUS
<1> QED  BY DEF Socket

(* What force_close leaves of a slot. *)
LEMMA ClosedIs ==
    ASSUME NEW s \in Socket
    PROVE  LET t == Closed(s)
           IN  /\ t \in Socket /\ t.type = "INVALID" /\ t.id = s.id /\ t.protocol = s.protocol /\ t.tag = s.tag
               /\ t.sending = s.sending /\ t.lock = s.lock
               /\ t.high = <<>> /\ t.low = <<>> /\ t.dw = <<>>
<1> DEFINE a == [s EXCEPT !.type = "INVALID", !.high = <<>>, !.low = <<>>]
           t == [a EXCEPT !.dw = <<>>, !.polled = FALSE, !.write = FALSE]
<1>1. "INVALID" \in Types /\ <<>> \in Seq(Buf) /\ FALSE \in BOOLEAN
  BY DEF Types
<1>2. a \in Socket
  BY <1>1, SetLists, Zenon
<1>3. /\ a.type = "INVALID" /\ a.id = s.id /\ a.protocol = s.protocol /\ a.tag = s.tag
      /\ a.sending = s.sending /\ a.lock = s.lock /\ a.high = <<>> /\ a.low = <<>>
  BY DEF Socket
<1>4. Closed(s) = t
  BY DEF Closed
<1> HIDE DEF a
<1>5. t \in Socket
  BY <1>1, <1>2, SetEvents, Zenon
<1>6. /\ t.type = a.type /\ t.id = a.id /\ t.protocol = a.protocol /\ t.tag = a.tag
      /\ t.sending = a.sending /\ t.lock = a.lock
      /\ t.high = a.high /\ t.low = a.low /\ t.dw = <<>>
  BY <1>2 DEF Socket
<1> HIDE DEF t
<1> QED  BY <1>3, <1>4, <1>5, <1>6

(* What new_fd and the caller of it make of a slot *)
Fresh(s, type, id, polled, write) ==
    [s EXCEPT !.type = type, !.id = id, !.protocol = "TCP", !.tag = id, !.sending = 0, !.wb = 0,
              !.dw = <<>>, !.polled = polled, !.write = write]

(* What new_fd makes of a slot. *)
LEMMA FreshIs ==
    ASSUME NEW s \in Socket, NEW type \in Types, NEW id \in 0 .. MaxId, NEW polled \in BOOLEAN, NEW write \in BOOLEAN
    PROVE  LET t == Fresh(s, type, id, polled, write)
           IN  /\ t \in Socket /\ t.type = type /\ t.id = id /\ t.protocol = "TCP" /\ t.tag = id
               /\ t.sending = 0 /\ t.lock = s.lock /\ t.high = s.high /\ t.low = s.low /\ t.dw = <<>>
               /\ t.polled = polled /\ t.write = write
<1> DEFINE a == [s EXCEPT !.type = type, !.id = id, !.protocol = "TCP"]
           c == [a EXCEPT !.tag = id, !.sending = 0, !.wb = 0]
           t == [c EXCEPT !.dw = <<>>, !.polled = polled, !.write = write]
<1>1. Fresh(s, type, id, polled, write) = t
  BY DEF Fresh
<1>2. "TCP" \in {"UNKNOWN", "TCP"} /\ <<>> \in Seq(Buf) /\ 0 \in Int
  OBVIOUS
<1>3. a \in Socket
  BY <1>2 DEF Socket
<1>4. a.type = type /\ a.id = id /\ a.protocol = "TCP" /\ a.lock = s.lock /\ a.high = s.high /\ a.low = s.low
  BY DEF Socket
<1> HIDE DEF a
<1>5. c \in Socket
  BY <1>2, <1>3 DEF Socket
<1>6. /\ c.type = a.type /\ c.id = a.id /\ c.protocol = a.protocol /\ c.tag = id /\ c.sending = 0
      /\ c.lock = a.lock /\ c.high = a.high /\ c.low = a.low
  BY <1>3 DEF Socket
<1> HIDE DEF c
<1>7. t \in Socket
  BY <1>2, <1>5, SetEvents, Zenon
<1>8. /\ t.type = c.type /\ t.id = c.id /\ t.protocol = c.protocol /\ t.tag = c.tag
      /\ t.sending = c.sending /\ t.lock = c.lock /\ t.high = c.high /\ t.low = c.low /\ t.dw = <<>>
      /\ t.polled = polled /\ t.write = write
  BY <1>5 DEF Socket
<1> HIDE DEF t
<1> QED  BY <1>1, <1>4, <1>6, <1>7, <1>8

(* How a step changes a slot: which of its fields it leaves alone *)
SameLists(s, t) == t.high = s.high /\ t.low = s.low /\ t.dw = s.dw
SameName(s, t) == t.id = s.id /\ t.protocol = s.protocol /\ t.tag = s.tag /\ t.sending = s.sending
SameEvents(s, t) == t.polled = s.polled /\ t.write = s.write
OneSlot(k) == k \in Slot /\ sock' \in [Slot -> Socket] /\ \A j \in Slot : j # k => sock'[j] = sock[j]

(* A step that writes one slot. *)
LEMMA SetSlot ==
    ASSUME sock \in [Slot -> Socket], NEW k \in Slot, NEW t \in Socket, sock' = [sock EXCEPT ![k] = t]
    PROVE  OneSlot(k) /\ sock'[k] = t
BY DEF OneSlot

(* reserve_id takes the type of its slot. *)
LEMMA ReserveDoes ==
    ASSUME TypeOK, NEW id \in Nat, sock' = [sock EXCEPT ![Hash(id)].type = "RESERVE"]
    PROVE  /\ OneSlot(Hash(id))
           /\ LET s == sock[Hash(id)]
                  t == sock'[Hash(id)]
              IN  t.type = "RESERVE" /\ SameLists(s, t) /\ SameName(s, t) /\ SameEvents(s, t) /\ t.lock = s.lock
<1> DEFINE k == Hash(id)
           s == sock[k]
           t == [s EXCEPT !.type = "RESERVE"]
<1>1. k \in Slot /\ s \in Socket /\ sock \in [Slot -> Socket]
  BY HashRange DEF TypeOK
<1>2. sock' = [sock EXCEPT ![k] = t]
  OBVIOUS
<1> HIDE DEF k, s
<1>3. t \in Socket
  BY <1>1 DEF Socket, Types
<1>4. t.type = "RESERVE" /\ SameLists(s, t) /\ SameName(s, t) /\ SameEvents(s, t) /\ t.lock = s.lock
  BY <1>1 DEF Socket, SameLists, SameName, SameEvents
<1> HIDE DEF t
<1>5. OneSlot(k) /\ sock'[k] = t
  BY <1>1, <1>2, <1>3, SetSlot
<1> QED  BY <1>4, <1>5 DEF k, s

(* reserve_id sets the id and the protocol of its slot. *)
LEMMA ReserveSetDoes ==
    ASSUME TypeOK, NEW id \in 0 .. MaxId, sock' = [sock EXCEPT ![Hash(id)].id = id, ![Hash(id)].protocol = "UNKNOWN"]
    PROVE  /\ OneSlot(Hash(id))
           /\ LET s == sock[Hash(id)]
                  t == sock'[Hash(id)]
              IN  /\ t.id = id /\ t.protocol = "UNKNOWN" /\ t.tag = s.tag /\ t.sending = s.sending
                  /\ t.type = s.type /\ SameLists(s, t) /\ SameEvents(s, t) /\ t.lock = s.lock
<1> DEFINE k == Hash(id)
           s == sock[k]
           t == [s EXCEPT !.id = id, !.protocol = "UNKNOWN"]
<1>1. k \in Slot /\ s \in Socket /\ sock \in [Slot -> Socket]
  <2>1. id \in Nat
    OBVIOUS
  <2> QED  BY <2>1, HashRange DEF TypeOK
<1>2. sock' = [sock EXCEPT ![k] = t]
  BY <1>1
<1> HIDE DEF k, s
<1>3. t \in Socket
  BY <1>1 DEF Socket
<1>4. /\ t.id = id /\ t.protocol = "UNKNOWN" /\ t.tag = s.tag /\ t.sending = s.sending
      /\ t.type = s.type /\ SameLists(s, t) /\ SameEvents(s, t) /\ t.lock = s.lock
  BY <1>1 DEF Socket, SameLists, SameEvents
<1> HIDE DEF t
<1>5. OneSlot(k) /\ sock'[k] = t
  BY <1>1, <1>2, <1>3, SetSlot
<1> QED  BY <1>4, <1>5 DEF k, s

(* Locking a slot changes nothing else. *)
LEMMA LockDoes ==
    ASSUME TypeOK, NEW k \in Slot, NEW w \in Worker \cup {Nobody}, sock' = [sock EXCEPT ![k].lock = w]
    PROVE  /\ OneSlot(k)
           /\ LET s == sock[k]
                  t == sock'[k]
              IN  t.lock = w /\ t.type = s.type /\ SameLists(s, t) /\ SameName(s, t) /\ SameEvents(s, t)
<1> DEFINE s == sock[k]
           t == [s EXCEPT !.lock = w]
<1>1. s \in Socket /\ sock \in [Slot -> Socket]
  BY DEF TypeOK
<1>2. sock' = [sock EXCEPT ![k] = t]
  OBVIOUS
<1> HIDE DEF s
<1>3. t \in Socket
  BY <1>1 DEF Socket
<1>4. t.lock = w /\ t.type = s.type /\ SameLists(s, t) /\ SameName(s, t) /\ SameEvents(s, t)
  BY <1>1 DEF Socket, SameLists, SameName, SameEvents
<1> HIDE DEF t
<1>5. OneSlot(k) /\ sock'[k] = t
  BY <1>1, <1>2, <1>3, SetSlot
<1> QED  BY <1>4, <1>5 DEF s

(* What a direct write that was cut short leaves in its slot. *)
LEMMA DirectDoes ==
    ASSUME TypeOK, NEW k \in Slot, NEW m \in Msg, NEW n \in 0 .. Size - 1,
           sock' = [sock EXCEPT ![k].lock = Nobody, ![k].write = TRUE, ![k].dw = <<[m |-> m, off |-> n]>>]
    PROVE  /\ OneSlot(k)
           /\ LET s == sock[k]
                  t == sock'[k]
              IN  /\ t.lock = Nobody /\ t.write = TRUE /\ t.dw = <<[m |-> m, off |-> n]>>
                  /\ t.type = s.type /\ SameName(s, t) /\ t.polled = s.polled
                  /\ t.high = s.high /\ t.low = s.low
<1> DEFINE s == sock[k]
           e == <<[m |-> m, off |-> n]>>
           b == TRUE
           t == [s EXCEPT !.lock = Nobody, !.write = b, !.dw = e]
<1>1. s \in Socket /\ sock \in [Slot -> Socket]
  BY DEF TypeOK
<1>2. sock' = [sock EXCEPT ![k] = t]
  BY <1>1
<1>3. e \in Seq(Buf) /\ b \in BOOLEAN
  BY DEF Buf
<1> HIDE DEF s, e, b
<1>4. t \in Socket
  BY <1>1, <1>3 DEF Socket
<1>5. /\ t.lock = Nobody /\ t.write = b /\ t.dw = e
      /\ t.type = s.type /\ SameName(s, t) /\ t.polled = s.polled
      /\ t.high = s.high /\ t.low = s.low
  BY <1>1 DEF Socket, SameName
<1> HIDE DEF t
<1>6. OneSlot(k) /\ sock'[k] = t
  BY <1>1, <1>2, <1>4, SetSlot
<1> QED  BY <1>5, <1>6 DEF s, e, b

(* inc_sending_ref counts one more request. *)
LEMMA CountDoes ==
    ASSUME TypeOK, NEW k \in Slot, sock' = [sock EXCEPT ![k].sending = @ + 1]
    PROVE  /\ OneSlot(k)
           /\ LET s == sock[k]
                  t == sock'[k]
              IN  /\ t.sending = s.sending + 1 /\ t.id = s.id /\ t.protocol = s.protocol /\ t.tag = s.tag
                  /\ t.type = s.type /\ SameLists(s, t) /\ SameEvents(s, t) /\ t.lock = s.lock
<1> DEFINE s == sock[k]
           n == s.sending + 1
           t == [s EXCEPT !.sending = n]
<1>1. s \in Socket /\ sock \in [Slot -> Socket] /\ n \in Int
  <2>1. s \in Socket /\ sock \in [Slot -> Socket]
    BY DEF TypeOK
  <2> HIDE DEF s
  <2>2. s.sending \in Int
    BY <2>1 DEF Socket
  <2> QED  BY <2>1, <2>2
<1>2. sock' = [sock EXCEPT ![k] = t]
  OBVIOUS
<1> HIDE DEF s, n
<1>3. t \in Socket
  BY <1>1 DEF Socket
<1>4. /\ t.sending = n /\ t.id = s.id /\ t.protocol = s.protocol /\ t.tag = s.tag
      /\ t.type = s.type /\ SameLists(s, t) /\ SameEvents(s, t) /\ t.lock = s.lock
  BY <1>1 DEF Socket, SameLists, SameEvents
<1> HIDE DEF t
<1>5. OneSlot(k) /\ sock'[k] = t
  BY <1>1, <1>2, <1>3, SetSlot
<1> QED  BY <1>4, <1>5 DEF s, n

(* force_close on one slot. *)
LEMMA ClosedDoes ==
    ASSUME TypeOK, NEW k \in Slot, sock' = [sock EXCEPT ![k] = Closed(@)]
    PROVE  /\ OneSlot(k)
           /\ LET s == sock[k]
                  t == sock'[k]
              IN  /\ t.type = "INVALID" /\ SameName(s, t) /\ t.lock = s.lock
                  /\ t.high = <<>> /\ t.low = <<>> /\ t.dw = <<>>
<1> DEFINE s == sock[k]
           t == Closed(s)
<1>1. s \in Socket /\ sock \in [Slot -> Socket]
  BY DEF TypeOK
<1>2. sock' = [sock EXCEPT ![k] = t]
  OBVIOUS
<1> HIDE DEF s
<1>3. /\ t \in Socket /\ t.type = "INVALID" /\ SameName(s, t) /\ t.lock = s.lock
      /\ t.high = <<>> /\ t.low = <<>> /\ t.dw = <<>>
  BY <1>1, ClosedIs DEF SameName
<1> HIDE DEF t
<1>4. OneSlot(k) /\ sock'[k] = t
  BY <1>1, <1>2, <1>3, SetSlot
<1> QED  BY <1>3, <1>4 DEF s

(* free_wb_list on both lists of one slot. *)
LEMMA FreeDoes ==
    ASSUME TypeOK, NEW k \in Slot, NEW then, FreeLists(k, then)
    PROVE  /\ OneSlot(k)
           /\ LET s == sock[k]
                  t == sock'[k]
              IN  /\ t.high = <<>> /\ t.low = <<>> /\ t.dw = s.dw /\ t.type = s.type
                  /\ SameName(s, t) /\ SameEvents(s, t) /\ t.lock = s.lock
<1> DEFINE s == sock[k]
           e == <<>>
           t == [s EXCEPT !.high = e, !.low = e]
<1>1. s \in Socket /\ sock \in [Slot -> Socket] /\ e \in Seq(Buf)
  <2>1. s \in Socket /\ sock \in [Slot -> Socket]
    BY DEF TypeOK
  <2>2. e \in Seq(Buf)
    OBVIOUS
  <2> QED  BY <2>1, <2>2
<1>2. sock' = [sock EXCEPT ![k] = t]
  BY <1>1 DEF FreeLists
<1> HIDE DEF s, e
<1>3. t \in Socket
  BY <1>1 DEF Socket
<1>4. /\ t.high = e /\ t.low = e /\ t.dw = s.dw /\ t.type = s.type
      /\ SameName(s, t) /\ SameEvents(s, t) /\ t.lock = s.lock
  BY <1>1 DEF Socket, SameName, SameEvents
<1> HIDE DEF t
<1>5. OneSlot(k) /\ sock'[k] = t
  BY <1>1, <1>2, <1>3, SetSlot
<1> QED  BY <1>4, <1>5 DEF s, e

(* new_fd on one slot. *)
LEMMA NewFdDoes ==
    ASSUME TypeOK, NEW id \in 0 .. MaxId, NEW type \in Types, NEW polled \in BOOLEAN, NEW write \in BOOLEAN,
           NewFd(id, type, polled, write)
    PROVE  /\ OneSlot(Hash(id))
           /\ LET s == sock[Hash(id)]
                  t == sock'[Hash(id)]
              IN  /\ t.type = type /\ t.id = id /\ t.protocol = "TCP" /\ t.tag = id /\ t.sending = 0
                  /\ t.high = s.high /\ t.low = s.low /\ t.dw = <<>> /\ t.lock = s.lock
                  /\ t.polled = polled /\ t.write = write
<1> DEFINE k == Hash(id)
           s == sock[k]
           t == Fresh(s, type, id, polled, write)
<1>1. k \in Slot /\ s \in Socket /\ sock \in [Slot -> Socket]
  <2>1. id \in Nat
    OBVIOUS
  <2> QED  BY <2>1, HashRange DEF TypeOK
<1>2. sock' = [sock EXCEPT ![k] = t]
  BY DEF NewFd, Fresh
<1> HIDE DEF k, s
<1>3. /\ t \in Socket /\ t.type = type /\ t.id = id /\ t.protocol = "TCP" /\ t.tag = id
      /\ t.sending = 0 /\ t.lock = s.lock /\ t.high = s.high /\ t.low = s.low /\ t.dw = <<>>
      /\ t.polled = polled /\ t.write = write
  BY <1>1, FreshIs
<1> HIDE DEF t
<1>4. OneSlot(k) /\ sock'[k] = t
  BY <1>1, <1>2, <1>3, SetSlot
<1> QED  BY <1>3, <1>4 DEF k, s

(* report_accept leaves the rest of a direct write, which a free slot has not, *)
(* and both events as they are.                                                *)
LEMMA AcceptDoes ==
    ASSUME TypeOK, NEW id \in 0 .. MaxId,
           sock' = [sock EXCEPT ![Hash(id)] =
                  [@ EXCEPT !.type = "PACCEPT", !.id = id, !.protocol = "TCP", !.tag = id,
                            !.sending = 0, !.wb = 0]]
    PROVE  /\ OneSlot(Hash(id))
           /\ LET s == sock[Hash(id)]
                  t == sock'[Hash(id)]
              IN  /\ t.type = "PACCEPT" /\ t.id = id /\ t.protocol = "TCP" /\ t.tag = id /\ t.sending = 0
                  /\ SameLists(s, t) /\ SameEvents(s, t) /\ t.lock = s.lock
<1> DEFINE k == Hash(id)
           s == sock[k]
           a == [s EXCEPT !.type = "PACCEPT", !.id = id, !.protocol = "TCP"]
           z == 0
           t == [a EXCEPT !.tag = id, !.sending = z, !.wb = z]
<1>1. k \in Slot /\ s \in Socket /\ sock \in [Slot -> Socket]
  <2>1. id \in Nat
    OBVIOUS
  <2> QED  BY <2>1, HashRange DEF TypeOK
<1>2. sock' = [sock EXCEPT ![k] = t]
  OBVIOUS
<1> HIDE DEF k, s
<1>3. a \in Socket
  BY <1>1 DEF Socket, Types
<1>4. /\ a.type = "PACCEPT" /\ a.id = id /\ a.protocol = "TCP"
      /\ SameLists(s, a) /\ SameEvents(s, a) /\ a.lock = s.lock
  BY <1>1 DEF Socket, SameLists, SameEvents
<1>z. z \in Int
  OBVIOUS
<1> HIDE DEF a, z
<1>5. t \in Socket
  BY <1>3, <1>z DEF Socket
<1>6. /\ t.type = a.type /\ t.id = a.id /\ t.protocol = a.protocol /\ t.tag = id /\ t.sending = z
      /\ SameLists(a, t) /\ SameEvents(a, t) /\ t.lock = a.lock
  BY <1>3 DEF Socket, SameLists, SameEvents
<1> HIDE DEF t
<1>7. OneSlot(k) /\ sock'[k] = t
  BY <1>1, <1>2, <1>5, SetSlot
<1>8. SameLists(s, t) /\ SameEvents(s, t)
  BY <1>4, <1>6 DEF SameLists, SameEvents
<1> QED  BY <1>4, <1>6, <1>7, <1>8 DEF k, s, z

(* A step that changes the type and at most one event of a slot. *)
LEMMA TypeDoes ==
    ASSUME TypeOK, NEW k \in Slot, NEW type \in Types, NEW polled \in BOOLEAN, NEW write \in BOOLEAN,
           \/ sock' = [sock EXCEPT ![k].type = type] /\ polled = sock[k].polled /\ write = sock[k].write
           \/ sock' = [sock EXCEPT ![k].type = type, ![k].write = write] /\ polled = sock[k].polled
           \/ sock' = [sock EXCEPT ![k].polled = polled, ![k].type = type] /\ write = sock[k].write
    PROVE  /\ OneSlot(k)
           /\ LET s == sock[k]
                  t == sock'[k]
              IN  /\ t.type = type /\ t.polled = polled /\ t.write = write
                  /\ SameName(s, t) /\ SameLists(s, t) /\ t.lock = s.lock
<1> DEFINE s == sock[k]
           a == [s EXCEPT !.type = type]
           b == [s EXCEPT !.type = type, !.write = write]
           c == [s EXCEPT !.polled = polled, !.type = type]
<1>1. s \in Socket /\ sock \in [Slot -> Socket]
  BY DEF TypeOK
<1>2. \/ sock' = [sock EXCEPT ![k] = a] /\ polled = s.polled /\ write = s.write
      \/ sock' = [sock EXCEPT ![k] = b] /\ polled = s.polled
      \/ sock' = [sock EXCEPT ![k] = c] /\ write = s.write
  BY <1>1
<1> HIDE DEF s
<1>3. ASSUME sock' = [sock EXCEPT ![k] = a], polled = s.polled, write = s.write
      PROVE  /\ OneSlot(k) /\ sock'[k].type = type /\ sock'[k].polled = polled /\ sock'[k].write = write
             /\ SameName(s, sock'[k]) /\ SameLists(s, sock'[k]) /\ sock'[k].lock = s.lock
  <2>1. a \in Socket
    BY <1>1 DEF Socket
  <2>2. /\ a.type = type /\ a.polled = polled /\ a.write = write
        /\ SameName(s, a) /\ SameLists(s, a) /\ a.lock = s.lock
    BY <1>1, <1>3 DEF Socket, SameName, SameLists
  <2> HIDE DEF a
  <2>3. OneSlot(k) /\ sock'[k] = a
    BY <1>1, <1>3, <2>1, SetSlot DEF a
  <2> QED  BY <2>2, <2>3
<1>4. ASSUME sock' = [sock EXCEPT ![k] = b], polled = s.polled
      PROVE  /\ OneSlot(k) /\ sock'[k].type = type /\ sock'[k].polled = polled /\ sock'[k].write = write
             /\ SameName(s, sock'[k]) /\ SameLists(s, sock'[k]) /\ sock'[k].lock = s.lock
  <2>1. b \in Socket
    BY <1>1 DEF Socket
  <2>2. /\ b.type = type /\ b.polled = polled /\ b.write = write
        /\ SameName(s, b) /\ SameLists(s, b) /\ b.lock = s.lock
    BY <1>1, <1>4 DEF Socket, SameName, SameLists
  <2> HIDE DEF b
  <2>3. OneSlot(k) /\ sock'[k] = b
    BY <1>1, <1>4, <2>1, SetSlot DEF b
  <2> QED  BY <2>2, <2>3
<1>5. ASSUME sock' = [sock EXCEPT ![k] = c], write = s.write
      PROVE  /\ OneSlot(k) /\ sock'[k].type = type /\ sock'[k].polled = polled /\ sock'[k].write = write
             /\ SameName(s, sock'[k]) /\ SameLists(s, sock'[k]) /\ sock'[k].lock = s.lock
  <2>1. c \in Socket
    BY <1>1 DEF Socket
  <2>2. /\ c.type = type /\ c.polled = polled /\ c.write = write
        /\ SameName(s, c) /\ SameLists(s, c) /\ c.lock = s.lock
    BY <1>1, <1>5 DEF Socket, SameName, SameLists
  <2> HIDE DEF c
  <2>3. OneSlot(k) /\ sock'[k] = c
    BY <1>1, <1>5, <2>1, SetSlot DEF c
  <2> QED  BY <2>2, <2>3
<1> QED  BY <1>2, <1>3, <1>4, <1>5 DEF s

(* send_socket puts the request r behind what its slot has, or drops it. *)
LEMMA SendSocketDoes ==
    ASSUME TypeOK, SendSocket, Cmd.m \in Msg
    PROVE  LET k == Hash(Cmd.id)
               s == sock[k]
               t == sock'[k]
               buf == [m |-> Cmd.m, off |-> 0]
           IN  /\ OneSlot(k) /\ Cmd \in Requests /\ buf \in Buf /\ s \in Socket
               /\ t.type = s.type /\ t.id = s.id /\ t.protocol = s.protocol /\ t.tag = s.tag
               /\ t.lock = s.lock /\ t.polled = s.polled /\ t.dw = s.dw
               /\ t.sending = IF s.id = Cmd.id /\ s.protocol = "TCP" THEN s.sending - 1 ELSE s.sending
               /\ \/ Drop(s, Cmd.id) /\ SameLists(s, t) /\ t.write = s.write
                  \/ /\ ~Drop(s, Cmd.id) /\ s.high = <<>> /\ s.low = <<>> /\ s.type = "CONNECTED"
                     /\ t.high = <<buf>> /\ t.low = <<>> /\ t.write = TRUE
                  \/ /\ ~Drop(s, Cmd.id) /\ ~(SendBufferEmpty(s) /\ s.type = "CONNECTED") /\ Cmd.cmd = "P"
                     /\ t.high = s.high /\ t.low = Append(s.low, buf) /\ t.write = s.write
                  \/ /\ ~Drop(s, Cmd.id) /\ ~(SendBufferEmpty(s) /\ s.type = "CONNECTED") /\ Cmd.cmd # "P"
                     /\ t.high = Append(s.high, buf) /\ t.low = s.low /\ t.write = s.write
<1> DEFINE k == Hash(Cmd.id)
           s == sock[k]
           id == Cmd.id
           cmd == Cmd.cmd
           buf == [m |-> Cmd.m, off |-> 0]
           wb == s.wb + Size
           b == TRUE
           one == <<buf>>
           behind == Append(s.high, buf)
           below == Append(s.low, buf)
           t == IF Drop(s, id) THEN s
                ELSE IF SendBufferEmpty(s) /\ s.type = "CONNECTED"
                THEN [s EXCEPT !.high = one, !.wb = wb, !.write = b]
                ELSE IF cmd = "P" THEN [s EXCEPT !.low = below, !.wb = wb]
                ELSE [s EXCEPT !.high = behind, !.wb = wb]
<1>1. Cmd \in Requests
  <2>1. pipe \in Seq(Requests) /\ pipe # <<>>
    BY DEF SendSocket, Command, TypeOK
  <2> QED  BY <2>1, HeadTailProperties DEF Cmd
<1>2. id \in Nat /\ id \in 0 .. MaxId
  <2>1. id \in 0 .. MaxId
    BY <1>1 DEF Requests
  <2> HIDE DEF id
  <2> QED  BY <2>1
<1>3. k \in Slot /\ s \in Socket /\ sock \in [Slot -> Socket]
  BY <1>2, HashRange DEF TypeOK
<1>4. buf \in Buf
  BY SocketAssumption DEF Buf
<1>5. sock' = [sock EXCEPT ![k] = DecSendingRef(t, id)]
  BY DEF SendSocket
<1> HIDE DEF k, s, id, buf, cmd
<1>6. s.high \in Seq(Buf) /\ s.low \in Seq(Buf) /\ s.wb \in Int /\ s.sending \in Int /\ s.write \in BOOLEAN
  BY <1>3 DEF Socket
<1>7. wb \in Int /\ b \in BOOLEAN /\ one \in Seq(Buf) /\ behind \in Seq(Buf) /\ below \in Seq(Buf)
  BY <1>4, <1>6, SocketAssumption
<1> HIDE DEF wb, b, one, behind, below
<1>8. /\ t \in Socket /\ t.type = s.type /\ t.id = s.id /\ t.protocol = s.protocol /\ t.tag = s.tag
      /\ t.lock = s.lock /\ t.polled = s.polled /\ t.dw = s.dw /\ t.sending = s.sending
      /\ \/ Drop(s, id) /\ SameLists(s, t) /\ t.write = s.write
         \/ /\ ~Drop(s, id) /\ SendBufferEmpty(s) /\ s.type = "CONNECTED"
            /\ t.high = one /\ t.low = s.low /\ t.write = b
         \/ /\ ~Drop(s, id) /\ ~(SendBufferEmpty(s) /\ s.type = "CONNECTED") /\ cmd = "P"
            /\ t.high = s.high /\ t.low = below /\ t.write = s.write
         \/ /\ ~Drop(s, id) /\ ~(SendBufferEmpty(s) /\ s.type = "CONNECTED") /\ cmd # "P"
            /\ t.high = behind /\ t.low = s.low /\ t.write = s.write
  <2>1. CASE Drop(s, id)
    BY <1>3, <2>1 DEF SameLists
  <2>2. CASE ~Drop(s, id) /\ SendBufferEmpty(s) /\ s.type = "CONNECTED"
    <3>1. t = [s EXCEPT !.high = one, !.wb = wb, !.write = b]
      BY <2>2
    <3> HIDE DEF t
    <3>2. t \in Socket
      BY <1>3, <1>7, <3>1 DEF Socket
    <3>3. /\ t.type = s.type /\ t.id = s.id /\ t.protocol = s.protocol /\ t.tag = s.tag
          /\ t.lock = s.lock /\ t.polled = s.polled /\ t.dw = s.dw /\ t.sending = s.sending
          /\ t.high = one /\ t.low = s.low /\ t.write = b
      BY <1>3, <3>1 DEF Socket
    <3> QED  BY <2>2, <3>2, <3>3
  <2>3. CASE ~Drop(s, id) /\ ~(SendBufferEmpty(s) /\ s.type = "CONNECTED") /\ cmd = "P"
    <3>1. t = [s EXCEPT !.low = below, !.wb = wb]
      BY <2>3
    <3> HIDE DEF t
    <3>2. t \in Socket
      BY <1>3, <1>7, <3>1 DEF Socket
    <3>3. /\ t.type = s.type /\ t.id = s.id /\ t.protocol = s.protocol /\ t.tag = s.tag
          /\ t.lock = s.lock /\ t.polled = s.polled /\ t.dw = s.dw /\ t.sending = s.sending
          /\ t.high = s.high /\ t.low = below /\ t.write = s.write
      BY <1>3, <3>1 DEF Socket
    <3> QED  BY <2>3, <3>2, <3>3
  <2>4. CASE ~Drop(s, id) /\ ~(SendBufferEmpty(s) /\ s.type = "CONNECTED") /\ cmd # "P"
    <3>1. t = [s EXCEPT !.high = behind, !.wb = wb]
      BY <2>4
    <3> HIDE DEF t
    <3>2. t \in Socket
      BY <1>3, <1>7, <3>1 DEF Socket
    <3>3. /\ t.type = s.type /\ t.id = s.id /\ t.protocol = s.protocol /\ t.tag = s.tag
          /\ t.lock = s.lock /\ t.polled = s.polled /\ t.dw = s.dw /\ t.sending = s.sending
          /\ t.high = behind /\ t.low = s.low /\ t.write = s.write
      BY <1>3, <3>1 DEF Socket
    <3> QED  BY <2>4, <3>2, <3>3
  <2> HIDE DEF t
  <2> QED  BY <2>1, <2>2, <2>3, <2>4
<1> HIDE DEF t
<1> DEFINE n == t.sending - 1
           u == IF t.id = id /\ t.protocol = "TCP" THEN [t EXCEPT !.sending = n] ELSE t
<1>9. n \in Int
  BY <1>6, <1>8
<1>10. DecSendingRef(t, id) = u
  BY DEF DecSendingRef
<1> HIDE DEF n
<1>11. /\ u \in Socket /\ u.type = t.type /\ u.id = t.id /\ u.protocol = t.protocol /\ u.tag = t.tag
       /\ u.lock = t.lock /\ u.polled = t.polled /\ u.dw = t.dw /\ u.high = t.high /\ u.low = t.low
       /\ u.write = t.write
       /\ u.sending = IF t.id = id /\ t.protocol = "TCP" THEN n ELSE t.sending
  <2>1. CASE t.id = id /\ t.protocol = "TCP"
    <3>1. u = [t EXCEPT !.sending = n]
      BY <2>1
    <3> HIDE DEF u
    <3>2. u \in Socket
      BY <1>8, <1>9, <3>1 DEF Socket
    <3>3. /\ u.type = t.type /\ u.id = t.id /\ u.protocol = t.protocol /\ u.tag = t.tag
          /\ u.lock = t.lock /\ u.polled = t.polled /\ u.dw = t.dw /\ u.high = t.high /\ u.low = t.low
          /\ u.write = t.write /\ u.sending = n
      BY <1>8, <3>1 DEF Socket
    <3> QED  BY <2>1, <3>2, <3>3
  <2>2. CASE ~(t.id = id /\ t.protocol = "TCP")
    BY <1>8, <2>2
  <2> QED  BY <2>1, <2>2
<1> HIDE DEF u
<1>12. OneSlot(k) /\ sock'[k] = u
  BY <1>3, <1>5, <1>10, <1>11, SetSlot
<1>13. SendBufferEmpty(s) <=> s.high = <<>> /\ s.low = <<>>
  BY DEF SendBufferEmpty
<1>14. u.sending = IF s.id = id /\ s.protocol = "TCP" THEN s.sending - 1 ELSE s.sending
  BY <1>8, <1>11 DEF n
<1>15. SameLists(s, t) => SameLists(s, u)
  BY <1>11 DEF SameLists
<1> QED  BY <1>1, <1>3, <1>4, <1>8, <1>11, <1>12, <1>13, <1>14, <1>15 DEF k, s, id, cmd, buf, b, one, behind, below

(* send_buffer on the slot k: what it makes of the slot and of the stream *)
LEMMA SendBufferDoes ==
    ASSUME TypeOK, NEW k \in Slot, NEW n \in Nat, NEW err, NEW ifClosed, NEW ifNot,
           SendBuffer(k, n, err, ifClosed, ifNot)
    PROVE  LET s == WithDirectWrite(sock[k])
               t == Sent(s, n)
               u == sock'[k]
           IN  /\ OneSlot(k) /\ sock[k].lock = Nobody /\ s \in Socket /\ t \in Socket
               /\ n <= Left(s.high) + Left(s.low)
               /\ SameName(sock[k], u) /\ u.lock = Nobody
               /\ \/ /\ u.type = "INVALID" /\ u.high = <<>> /\ u.low = <<>> /\ u.dw = <<>>
                     /\ FreeMsgs(Msgs(s.high \o s.low))
                     /\ phase' = ifClosed /\ (err \/ (t.high = <<>> /\ t.low = <<>>))
                  \/ /\ u.type = sock[k].type /\ u.high = t.high /\ u.low = t.low /\ u.dw = <<>>
                     /\ u.polled = sock[k].polled
                     /\ u.write = (sock[k].write /\ (t.high # <<>> \/ t.low # <<>>))
                     /\ FreeMsgs(Msgs(s.high \o s.low) \ Msgs(t.high \o t.low))
                     /\ phase' = ifNot
               /\ wire' = [wire EXCEPT ![sock[k].id] = @ \o SubSeq(Units(s.high \o s.low), 1, n)]
<1> DEFINE s0 == sock[k]
           s == WithDirectWrite(s0)
           t == Sent(s, n)
           done == SendBufferEmpty(t)
           close == err \/ (done /\ s.type = "HALFCLOSE")
           c == Closed(t)
           u == IF close THEN c ELSE t
<1>1. s0 \in Socket /\ sock \in [Slot -> Socket]
  BY DEF TypeOK
<1>2. /\ sock[k].lock = Nobody /\ n <= Left(s.high) + Left(s.low)
      /\ wire' = [wire EXCEPT ![s.id] = @ \o SubSeq(Units(s.high \o s.low), 1, n)]
      /\ FreeMsgs(Msgs(s.high \o s.low) \ (IF close THEN {} ELSE Msgs(t.high \o t.low)))
      /\ sock' = [sock EXCEPT ![k] = u]
      /\ phase' = IF close THEN ifClosed ELSE ifNot
  BY DEF SendBuffer
<1>3. /\ s \in Socket /\ SameName(s0, s) /\ s.lock = s0.lock /\ s.polled = s0.polled /\ s.type = s0.type
      /\ s.write = s0.write /\ s.dw = <<>> /\ s.id = s0.id
  BY <1>1, WithDirectWriteIs DEF SameSocket, SameName
<1> HIDE DEF s
<1>4. /\ t \in Socket /\ SameName(s, t) /\ t.lock = s.lock /\ t.polled = s.polled /\ t.type = s.type
      /\ t.dw = s.dw /\ t.write = (s.write /\ (t.high # <<>> \/ t.low # <<>>))
  BY <1>3, SentIs DEF SameSocket, SameName
<1>5. done <=> t.high = <<>> /\ t.low = <<>>
  BY DEF SendBufferEmpty
<1> HIDE DEF t
<1>6. /\ c \in Socket /\ c.type = "INVALID" /\ SameName(t, c) /\ c.lock = t.lock
      /\ c.high = <<>> /\ c.low = <<>> /\ c.dw = <<>>
  BY <1>4, ClosedIs DEF SameName
<1> HIDE DEF c
<1>7. u \in Socket
  BY <1>4, <1>6
<1>8. OneSlot(k) /\ sock'[k] = u
  <2> HIDE DEF u
  <2> QED  BY <1>1, <1>2, <1>7, SetSlot
<1>9. SameName(s0, u) /\ u.lock = Nobody
  BY <1>2, <1>3, <1>4, <1>6 DEF SameName
<1>10. CASE close
  <2>1. Msgs(s.high \o s.low) \ {} = Msgs(s.high \o s.low)
    OBVIOUS
  <2>2. FreeMsgs(Msgs(s.high \o s.low))
    BY <1>2, <1>10, <2>1
  <2>3. err \/ done
    BY <1>10
  <2> QED  BY <1>2, <1>3, <1>4, <1>5, <1>6, <1>8, <1>9, <1>10, <2>2, <2>3 DEF s, t
<1>11. CASE ~close
  <2>1. u = t
    BY <1>11
  <2>2. FreeMsgs(Msgs(s.high \o s.low) \ Msgs(t.high \o t.low)) /\ phase' = ifNot
    BY <1>2, <1>11
  <2>3. /\ t.type = s0.type /\ t.dw = <<>> /\ t.polled = s0.polled
        /\ t.write = (s0.write /\ (t.high # <<>> \/ t.low # <<>>))
    BY <1>3, <1>4
  <2> HIDE DEF close, u
  <2> QED  BY <1>2, <1>3, <1>4, <1>8, <1>9, <2>1, <2>2, <2>3 DEF s, t
<1> QED  BY <1>10, <1>11

(* The units of one buffer. *)
LEMMA UnitsOne ==
    \A x \in Buf, n \in 0 .. Size : n <= Size - x.off =>
        SubSeq(Units(<<x>>), 1, n) = PartOf(x, n) /\ PartOf(x, n) \in Seq(Unit) /\ Len(PartOf(x, n)) = n
<1> SUFFICES ASSUME NEW x \in Buf, NEW n \in 0 .. Size, n <= Size - x.off
             PROVE  SubSeq(Units(<<x>>), 1, n) = PartOf(x, n) /\ PartOf(x, n) \in Seq(Unit) /\ Len(PartOf(x, n)) = n
  OBVIOUS
<1>1. x.off \in 0 .. Size - 1 /\ Size \in Nat \ {0} /\ n \in 0 .. Size - x.off /\ Size - x.off \in 0 .. Size - x.off
  BY SocketAssumption DEF Buf
<1>2. PartOf(x, n) \in Seq(Unit) /\ Len(PartOf(x, n)) = n
  BY <1>1, PartType
<1> DEFINE all == PartOf(x, Size - x.off)
<1>3. all \in Seq(Unit) /\ Len(all) = Size - x.off
  BY <1>1, PartType
<1>4. Units(<<x>>) = all
  <2>1. <<>> \in Seq(Buf) /\ Append(<<>>, x) = <<x>>
    OBVIOUS
  <2>2. Units(Append(<<>>, x)) = Units(<<>>) \o all
    BY <2>1, UnitsAppend
  <2> HIDE DEF all
  <2>3. <<>> \o all = all
    BY <1>3
  <2> QED  BY <2>1, <2>2, <2>3, UnitsEmpty
<1>5. SubSeq(all, 1, n) = PartOf(x, n)
  <2> DEFINE part == PartOf(x, n)
             sub == SubSeq(all, 1, n)
  <2>1. \A i \in 1 .. n : all[i] = part[i]
    BY <1>1 DEF PartOf
  <2> HIDE DEF all, part
  <2>2. sub \in Seq(Unit) /\ Len(sub) = n /\ \A i \in 1 .. n : sub[i] = all[i]
    BY <1>1, <1>3
  <2>3. part \in Seq(Unit) /\ Len(part) = n
    BY <1>2 DEF part
  <2> HIDE DEF sub
  <2>4. sub = part
    BY <2>1, <2>2, <2>3, SeqEqual
  <2> QED  BY <2>4 DEF sub, part
<1> QED  BY <1>2, <1>4, <1>5

(* The id and the message of a request. *)
LEMMA RequestType == \A r \in Requests : r.id \in 0 .. MaxId /\ r.id \in Nat /\ r.m \in 0 .. MaxMsg
<1> SUFFICES ASSUME NEW r \in Requests PROVE r.id \in 0 .. MaxId /\ r.m \in 0 .. MaxMsg
  OBVIOUS
<1>1. MaxMsg \in Nat /\ r.id \in 0 .. MaxId
  BY SocketAssumption DEF Requests
<1>2. r.m = 0 \/ r.m \in Msg
  BY DEF Requests
<1> QED  BY <1>1, <1>2 DEF Msg

(* Which requests the code builds. *)
LEMMA ReqType ==
    \A cmd, m : \A id \in 0 .. MaxId :
        \/ cmd \in {"", "S", "clear", "events"} \cup Opening \cup Closing /\ m = 0
        \/ cmd \in Sending /\ m \in Msg
        => Req(cmd, id, m) \in Requests
<1> SUFFICES ASSUME NEW cmd, NEW m, NEW id \in 0 .. MaxId,
                    \/ cmd \in {"", "S", "clear", "events"} \cup Opening \cup Closing /\ m = 0
                    \/ cmd \in Sending /\ m \in Msg
             PROVE  [cmd |-> cmd, id |-> id, m |-> m] \in Requests
  BY DEF Req
<1>1. CASE cmd \in {"", "S", "clear", "events"} \cup Opening \cup Closing /\ m = 0
  <2>1. [cmd |-> cmd, id |-> id, m |-> m] \in [cmd : {"", "S", "clear", "events"} \cup Opening \cup Closing, id : 0 .. MaxId, m : {0}]
    BY <1>1
  <2> QED  BY <2>1 DEF Requests
<1>2. CASE cmd \in Sending /\ m \in Msg
  <2>1. [cmd |-> cmd, id |-> id, m |-> m] \in [cmd : Sending, id : 0 .. MaxId, m : Msg]
    BY <1>2
  <2> QED  BY <2>1 DEF Requests
<1> QED  BY <1>1, <1>2

(* The request at the head of the pipe. *)
LEMMA CmdType == TypeOK /\ pipe # <<>> => Cmd \in Requests /\ Tail(pipe) \in Seq(Requests) /\ Cmd.id \in 0 .. MaxId /\ Cmd.id \in Nat
<1> SUFFICES ASSUME TypeOK, pipe # <<>>
             PROVE  Cmd \in Requests /\ Tail(pipe) \in Seq(Requests) /\ Cmd.id \in 0 .. MaxId /\ Cmd.id \in Nat
  OBVIOUS
<1>1. pipe \in Seq(Requests)
  BY DEF TypeOK
<1>2. Cmd \in Requests /\ Tail(pipe) \in Seq(Requests)
  BY <1>1, HeadTailProperties DEF Cmd
<1> QED  BY <1>2, RequestType

(* socket_server_create has slots of the right types. *)
LEMMA TypeInit == Init => TypeOK
<1> SUFFICES ASSUME Init PROVE TypeOK
  OBVIOUS
<1>1. MaxId \in Nat /\ MaxMsg \in Nat
  BY SocketAssumption
<1> DEFINE s == [type |-> "INVALID", id |-> 0, protocol |-> "UNKNOWN", tag |-> 0, sending |-> 0,
           high |-> <<>>, low |-> <<>>, wb |-> 0, dw |-> <<>>, lock |-> Nobody,
           polled |-> FALSE, write |-> FALSE]
           nothing == [who |-> Nobody, cmd |-> "", id |-> 0]
<1>2. /\ sock = [k \in Slot |-> s] /\ alloc_id = 0 /\ pipe = <<>> /\ ev = {} /\ closing = NoReq
      /\ at = [w \in Worker |-> "idle"] /\ job = [w \in Worker |-> NoReq] /\ nmsg = 0
      /\ from = [m \in Msg |-> nothing]
      /\ freed = [m \in Msg |-> 0] /\ wire = [i \in Id |-> <<>>]
      /\ opened = {} /\ issued = {} /\ strayed = FALSE
  BY DEF Init, Slot
<1>3. s \in Socket
  BY <1>1 DEF Socket, Types
<1>4. nothing \in [who : Worker \cup {Nobody}, cmd : {""} \cup Sending, id : 0 .. MaxId]
  BY <1>1
<1>5. NoReq \in Requests
  <2>1. 0 \in 0 .. MaxId
    BY <1>1
  <2> QED  BY <2>1, ReqType DEF NoReq
<1>6. <<>> \in Seq(Unit) /\ <<>> \in Seq(Requests)
  OBVIOUS
<1> HIDE DEF s, nothing
<1>7. /\ sock \in [Slot -> Socket] /\ from \in [Msg -> [who : Worker \cup {Nobody}, cmd : {""} \cup Sending, id : 0 .. MaxId]]
      /\ wire \in [Id -> Seq(Unit)] /\ freed \in [Msg -> Nat]
  BY <1>2, <1>3, <1>4, <1>6
<1>8. /\ at \in [Worker -> {"idle", "reserve", "pipe", "try", "locked", "inc"}] /\ job \in [Worker -> Requests]
      /\ \A w \in Worker : at[w] \in {"try", "locked"} => job[w].cmd = "D"
  BY <1>2, <1>5
<1>9. alloc_id \in 0 .. MaxId /\ pipe \in Seq(Requests) /\ ev = {} /\ closing \in Requests /\ nmsg \in 0 .. MaxMsg
  BY <1>1, <1>2, <1>5, <1>6
<1> QED  BY <1>2, <1>7, <1>8, <1>9 DEF TypeOK

(* No request, as one. *)
LEMMA NoReqType == NoReq \in Requests
<1>1. 0 \in 0 .. MaxId
  BY SocketAssumption
<1> QED  BY <1>1, ReqType DEF NoReq

(* Freeing buffers keeps the counts numbers. *)
LEMMA FreedType == \A ms : freed \in [Msg -> Nat] /\ FreeMsgs(ms) => freed' \in [Msg -> Nat]
BY DEF FreeMsgs

(* The steps of the socket thread that change or read more than the lists of one slot *)
LEMMA WorkerTypes ==
    ASSUME TypeOK, NEW w \in Worker, Request(w) \/ WorkerStep(w) PROVE TypeOK'
<1>0. /\ job[w] \in Requests /\ job[w].id \in 0 .. MaxId /\ job[w].id \in Nat /\ job[w].m \in 0 .. MaxMsg
      /\ Hash(job[w].id) \in Slot
  <2>1. job[w] \in Requests
    BY DEF TypeOK
  <2> QED  BY <2>1, RequestType, HashRange
<1>a. MaxId \in Nat /\ MaxMsg \in Nat /\ Size \in Nat \ {0} /\ Slots \in Nat \ {0}
  BY SocketAssumption
<1>t. /\ alloc_id \in 0 .. MaxId /\ pipe \in Seq(Requests) /\ nmsg \in 0 .. MaxMsg /\ freed \in [Msg -> Nat]
  BY DEF TypeOK
<1>1. ASSUME NEW cmd \in Kinds, Reserve(w, cmd) PROVE TypeOK'
  <2>1. PICK id \in alloc_id + 1 .. alloc_id + Slots :
            /\ id <= MaxId /\ alloc_id' = id /\ sock' = [sock EXCEPT ![Hash(id)].type = "RESERVE"]
            /\ at' = [at EXCEPT ![w] = "reserve"] /\ job' = [job EXCEPT ![w] = Req(cmd, id, 0)]
            /\ UNCHANGED <<pipe, threadVars, nmsg, nctl, from, told, freed, wire, marks, failed>>
    BY <1>1 DEF Reserve
  <2>2. id \in 0 .. MaxId /\ id \in Nat
    BY <1>a, <1>t, <2>1
  <2>3. sock' \in [Slot -> Socket]
    BY <2>1, <2>2, ReserveDoes DEF OneSlot
  <2>4. Req(cmd, id, 0) \in Requests
    BY <2>2, ReqType, SocketAssumption DEF Opening
  <2>5. /\ at' \in [Worker -> {"idle", "reserve", "pipe", "try", "locked", "inc"}] /\ job' \in [Worker -> Requests]
        /\ \A v \in Worker : at'[v] \in {"try", "locked"} => job'[v].cmd = "D"
    BY <2>1, <2>4 DEF TypeOK
  <2> QED  BY <2>1, <2>2, <2>3, <2>5 DEF TypeOK, threadVars, told, ids, marks
<1>2. CASE ReserveSet(w)
  <2>1. sock' \in [Slot -> Socket]
    BY <1>0, <1>2, ReserveSetDoes DEF OneSlot, ReserveSet
  <2>2. /\ at' = [at EXCEPT ![w] = "pipe"]
        /\ UNCHANGED <<pipe, threadVars, job, bounds, told, freed, wire, marks, failed>>
    BY <1>2 DEF ReserveSet
  <2> QED  BY <2>1, <2>2 DEF TypeOK, threadVars, told, ids, marks, bounds
<1>3. CASE SendRequest(w)
  <2>1. /\ at' = [at EXCEPT ![w] = "idle"] /\ job' = [job EXCEPT ![w] = NoReq] /\ pipe' = Append(pipe, job[w])
        /\ issued' \subseteq issued \cup {job[w].id}
        /\ UNCHANGED <<sock, threadVars, bounds, opened, reported, freed, wire, marks, failed>>
    BY <1>3 DEF SendRequest
  <2>2. NoReq \in Requests
    BY NoReqType
  <2>3. pipe' \in Seq(Requests)
    BY <1>0, <1>t, <2>1
  <2>4. /\ at' \in [Worker -> {"idle", "reserve", "pipe", "try", "locked", "inc"}] /\ job' \in [Worker -> Requests]
        /\ \A v \in Worker : at'[v] \in {"try", "locked"} => job'[v].cmd = "D"
    BY <2>1, <2>2 DEF TypeOK
  <2> QED  BY <1>0, <2>1, <2>3, <2>4 DEF TypeOK, threadVars, marks, bounds
<1>4. ASSUME NEW id \in Id, NEW cmd \in {"K", "Kill", "S"}, Control(w, cmd, id) PROVE TypeOK'
  <2>1. /\ pipe' = Append(pipe, Req(cmd, id, 0))
        /\ UNCHANGED <<sock, threadVars, workerVars, nmsg, from, alloc_id, told, freed, wire, marks, failed>>
    BY <1>4 DEF Control
  <2>2. id \in 0 .. MaxId
    BY <1>a DEF Id
  <2>3. Req(cmd, id, 0) \in Requests
    BY <2>2, ReqType DEF Closing
  <2>4. pipe' \in Seq(Requests)
    BY <1>t, <2>1, <2>3
  <2> QED  BY <2>1, <2>4 DEF TypeOK, threadVars, workerVars, told, ids, marks
<1>5. ASSUME NEW id \in Id, NEW cmd \in {"D", "P"}, Send(w, cmd, id) PROVE TypeOK'
  <2>1. /\ nmsg < MaxMsg /\ nmsg' = nmsg + 1
        /\ from' = [from EXCEPT ![nmsg'] = [who |-> w, cmd |-> cmd, id |-> id]]
        /\ \/ /\ at' = [at EXCEPT ![w] = IF cmd = "D" THEN "try" ELSE "inc"]
              /\ job' = [job EXCEPT ![w] = Req(cmd, id, nmsg')]
              /\ UNCHANGED freed
           \/ FreeMsgs({nmsg'}) /\ UNCHANGED workerVars
        /\ UNCHANGED <<sock, pipe, threadVars, nctl, alloc_id, told, wire, marks, failed>>
    BY <1>5 DEF Send
  <2>2. id \in 0 .. MaxId /\ nmsg' \in 0 .. MaxMsg /\ nmsg' \in Msg
    BY <1>a, <1>t, <2>1 DEF Id, Msg
  <2>3. Req(cmd, id, nmsg') \in Requests /\ Req(cmd, id, nmsg').cmd = cmd
    <3>1. cmd \in Sending
      BY DEF Sending
    <3>2. Req(cmd, id, nmsg') \in Requests
      BY <2>2, <3>1, ReqType
    <3>3. Req(cmd, id, nmsg').cmd = cmd
      BY DEF Req
    <3> QED  BY <3>2, <3>3
  <2>4. /\ at' \in [Worker -> {"idle", "reserve", "pipe", "try", "locked", "inc"}] /\ job' \in [Worker -> Requests]
        /\ \A v \in Worker : at'[v] \in {"try", "locked"} => job'[v].cmd = "D"
    BY <2>1, <2>3 DEF TypeOK, workerVars
  <2>5. freed' \in [Msg -> Nat]
    BY <1>t, <2>1, FreedType
  <2>6. from' \in [Msg -> [who : Worker \cup {Nobody}, cmd : {""} \cup Sending, id : 0 .. MaxId]]
    <3>1. [who |-> w, cmd |-> cmd, id |-> id] \in [who : Worker \cup {Nobody}, cmd : {""} \cup Sending, id : 0 .. MaxId]
      BY <2>2 DEF Sending
    <3> QED  BY <2>1, <3>1 DEF TypeOK
  <2> QED  BY <2>1, <2>2, <2>4, <2>5, <2>6 DEF TypeOK, threadVars, told, ids, marks
<1>6. CASE TryDirectWrite(w)
  <2>1. /\ at' = [at EXCEPT ![w] = "locked"] \/ at' = [at EXCEPT ![w] = "inc"]
        /\ at[w] = "try"
        /\ sock' = [sock EXCEPT ![Hash(job[w].id)].lock = w] \/ sock' = sock
        /\ UNCHANGED <<pipe, threadVars, job, bounds, told, freed, wire, marks, failed>>
    BY <1>6 DEF TryDirectWrite
  <2>2. sock' \in [Slot -> Socket]
    BY <1>0, <2>1, LockDoes DEF OneSlot, TypeOK
  <2>3. /\ at' \in [Worker -> {"idle", "reserve", "pipe", "try", "locked", "inc"}]
        /\ \A v \in Worker : at'[v] \in {"try", "locked"} => job'[v].cmd = "D"
    BY <2>1 DEF TypeOK
  <2> QED  BY <2>1, <2>2, <2>3 DEF TypeOK, threadVars, told, ids, marks, bounds
<1>7. CASE DirectWrite(w)
  <2> DEFINE k == Hash(job[w].id)
             m == job[w].m
             x == [m |-> m, off |-> 0]
  <2>1. m \in Msg /\ x \in Buf
    <3>1. job[w].cmd = "D" /\ job[w] \in Requests
      BY <1>7 DEF TypeOK, DirectWrite
    <3>2. m \in Msg
      BY <3>1 DEF Requests, Opening, Closing
    <3> QED  BY <1>a, <3>2 DEF Buf
  <2>2. \/ /\ sock' = [sock EXCEPT ![k].lock = Nobody]
           /\ at' = [at EXCEPT ![w] = "inc"] /\ UNCHANGED <<job, freed, wire>>
        \/ \E n \in 0 .. Size :
              /\ wire' = [wire EXCEPT ![job[w].id] = @ \o SubSeq(Units(<<x>>), 1, n)]
              /\ FreeMsgs(IF n = Size THEN {m} ELSE {})
              /\ sock' = IF n = Size THEN [sock EXCEPT ![k].lock = Nobody]
                         ELSE [sock EXCEPT ![k].lock = Nobody, ![k].write = TRUE, ![k].dw = <<[m |-> m, off |-> n]>>]
              /\ at' = [at EXCEPT ![w] = "idle"]
              /\ job' = [job EXCEPT ![w] = NoReq]
    BY <1>7 DEF DirectWrite
  <2>3. UNCHANGED <<pipe, threadVars, bounds, told, marks, failed>>
    BY <1>7 DEF DirectWrite
  <2>4. NoReq \in Requests
    BY NoReqType
  <2>5. sock' \in [Slot -> Socket]
    <3>1. CASE sock' = [sock EXCEPT ![k].lock = Nobody]
      BY <1>0, <3>1, LockDoes DEF OneSlot
    <3>2. ASSUME NEW n \in 0 .. Size, n # Size,
                 sock' = [sock EXCEPT ![k].lock = Nobody, ![k].write = TRUE, ![k].dw = <<[m |-> m, off |-> n]>>]
          PROVE  sock' \in [Slot -> Socket]
      <4>1. n \in 0 .. Size - 1
        BY <1>a, <3>2
      <4> HIDE DEF m, k
      <4> QED  BY <1>0, <2>1, <3>2, <4>1, DirectDoes DEF OneSlot, k
    <3> QED  BY <2>2, <3>1, <3>2
  <2>6. wire' \in [Id -> Seq(Unit)]
    <3>1. ASSUME NEW n \in 0 .. Size, wire' = [wire EXCEPT ![job[w].id] = @ \o SubSeq(Units(<<x>>), 1, n)]
          PROVE  wire' \in [Id -> Seq(Unit)]
      <4> DEFINE p == SubSeq(Units(<<x>>), 1, n)
      <4>1. x.off = 0 /\ n <= Size - 0
        BY <1>a
      <4>2. p \in Seq(Unit)
        BY <2>1, <4>1, UnitsOne
      <4> HIDE DEF p
      <4>3. \A i \in Id : wire[i] \o p \in Seq(Unit)
        BY <4>2, ConcatProperties DEF TypeOK
      <4> QED  BY <3>1, <4>3 DEF TypeOK, p
    <3> QED  BY <2>2, <3>1 DEF TypeOK
  <2>7. freed' \in [Msg -> Nat]
    BY <1>t, <2>2, FreedType
  <2>8. /\ at' \in [Worker -> {"idle", "reserve", "pipe", "try", "locked", "inc"}] /\ job' \in [Worker -> Requests]
        /\ \A v \in Worker : at'[v] \in {"try", "locked"} => job'[v].cmd = "D"
    BY <2>2, <2>4, ZenonT(30) DEF TypeOK
  <2> QED  BY <2>3, <2>5, <2>6, <2>7, <2>8 DEF TypeOK, threadVars, told, ids, marks, bounds
<1>8. CASE IncSendingRef(w)
  <2>1. /\ at' = [at EXCEPT ![w] = "pipe"]
        /\ sock' = [sock EXCEPT ![Hash(job[w].id)].sending = @ + 1] \/ sock' = sock
        /\ UNCHANGED <<pipe, threadVars, job, bounds, told, freed, wire, marks, failed>>
    BY <1>8 DEF IncSendingRef
  <2>2. sock' \in [Slot -> Socket]
    BY <1>0, <2>1, CountDoes DEF OneSlot, TypeOK
  <2> QED  BY <2>1, <2>2 DEF TypeOK, threadVars, told, ids, marks, bounds
<1> QED  BY <1>1, <1>2, <1>3, <1>4, <1>5, <1>6, <1>7, <1>8 DEF Request, WorkerStep

(* What two lists have left, one behind the other. *)
LEMMA UnitsConcat ==
    ASSUME NEW a \in Seq(Buf), NEW b \in Seq(Buf)
    PROVE  Units(a \o b) = Units(a) \o Units(b) /\ Left(a \o b) = Left(a) + Left(b)
<1> DEFINE Good == {n \in Nat : \A c \in Seq(Buf) : Len(c) = n => Units(a \o c) = Units(a) \o Units(c)}
<1>1. 0 \in Good
  <2> SUFFICES ASSUME NEW c \in Seq(Buf), Len(c) = 0 PROVE Units(a \o c) = Units(a) \o Units(c)
    OBVIOUS
  <2>1. c = <<>>
    BY EmptySeq
  <2>2. a \o <<>> = a /\ Units(a) \o <<>> = Units(a)
    BY LeftType, ConcatEmptySeq
  <2> QED  BY <2>1, <2>2, UnitsEmpty
<1>2. ASSUME NEW n \in Nat, n \in Good PROVE n + 1 \in Good
  <2> SUFFICES ASSUME NEW c \in Seq(Buf), Len(c) = n + 1 PROVE Units(a \o c) = Units(a) \o Units(c)
    OBVIOUS
  <2>1. PICK d \in Seq(Buf), x \in Buf : c = Append(d, x)
    <3>1. c # <<>>
      BY EmptySeq
    <3> QED  BY <3>1, SequenceEmptyOrAppend
  <2>2. Len(d) = n
    BY <2>1, AppendProperties
  <2> DEFINE p == PartOf(x, Size - x.off)
  <2>3. Units(a \o d) = Units(a) \o Units(d)
    BY <1>2, <2>2
  <2>4. a \o c = Append(a \o d, x) /\ a \o d \in Seq(Buf)
    <3>1. Append(d, x) = d \o <<x>> /\ Append(a \o d, x) = (a \o d) \o <<x>> /\ a \o d \in Seq(Buf) /\ <<x>> \in Seq(Buf)
      BY AppendIsConcat, ConcatProperties
    <3> QED  BY <2>1, <3>1, ConcatAssociative
  <2>5. Units(a \o c) = Units(a \o d) \o p
    BY <2>4, UnitsAppend
  <2>6. Units(c) = Units(d) \o p
    BY <2>1, UnitsAppend
  <2>7. p \in Seq(Unit)
    <3>1. Size - x.off \in 0 .. Size - x.off
      BY SocketAssumption DEF Buf
    <3> QED  BY <3>1, PartType
  <2>8. Units(a) \in Seq(Unit) /\ Units(d) \in Seq(Unit)
    BY LeftType
  <2> HIDE DEF p
  <2>9. (Units(a) \o Units(d)) \o p = Units(a) \o (Units(d) \o p)
    BY <2>7, <2>8, ConcatAssociative, SMTT(30)
  <2> QED  BY <2>3, <2>5, <2>6, <2>9
<1> HIDE DEF Good
<1>3. Len(b) \in Good
  <2>1. Len(b) \in Nat
    OBVIOUS
  <2> QED  BY <1>1, <1>2, <2>1, SetInduction
<1>4. Units(a \o b) = Units(a) \o Units(b)
  BY <1>3 DEF Good
<1>5. Units(a) \in Seq(Unit) /\ Units(b) \in Seq(Unit)
  BY LeftType
<1>6. Left(a \o b) = Left(a) + Left(b)
  BY <1>4, <1>5, ConcatProperties DEF Left
<1> QED  BY <1>4, <1>6

(* The first n units that a list has left. *)
LEMMA SubUnits ==
    \A b \in Seq(Buf), n \in Nat : n <= Left(b) =>
        SubSeq(Units(b), 1, n) \in Seq(Unit) /\ Len(SubSeq(Units(b), 1, n)) = n
<1> SUFFICES ASSUME NEW b \in Seq(Buf), NEW n \in Nat, n <= Left(b)
             PROVE  SubSeq(Units(b), 1, n) \in Seq(Unit) /\ Len(SubSeq(Units(b), 1, n)) = n
  OBVIOUS
<1> DEFINE u == Units(b)
<1>1. u \in Seq(Unit) /\ n <= Len(u)
  BY LeftType DEF Left
<1> HIDE DEF u
<1>2. SubSeq(u, 1, n) \in Seq(Unit) /\ Len(SubSeq(u, 1, n)) = n
  BY <1>1
<1> QED  BY <1>2 DEF u

(* send_buffer keeps the types. *)
LEMMA SendBufferTypes ==
    ASSUME TypeOK, NEW k \in Slot, NEW n \in Nat, NEW err, NEW ifClosed, NEW ifNot,
           SendBuffer(k, n, err, ifClosed, ifNot)
    PROVE  sock' \in [Slot -> Socket] /\ wire' \in [Id -> Seq(Unit)] /\ freed' \in [Msg -> Nat]
<1> DEFINE s == WithDirectWrite(sock[k])
           q == s.high \o s.low
           p == SubSeq(Units(q), 1, n)
<1>1. /\ OneSlot(k) /\ s \in Socket /\ n <= Left(s.high) + Left(s.low)
      /\ wire' = [wire EXCEPT ![sock[k].id] = @ \o p] /\ \E ms : FreeMsgs(ms)
  BY SendBufferDoes
<1>2. q \in Seq(Buf) /\ n <= Left(q)
  <2> HIDE DEF s
  <2>1. s.high \in Seq(Buf) /\ s.low \in Seq(Buf)
    BY <1>1 DEF Socket
  <2> QED  BY <1>1, <2>1, ConcatProperties, UnitsConcat
<1> HIDE DEF q
<1>3. p \in Seq(Unit)
  BY <1>2, SubUnits
<1> HIDE DEF p
<1>4. \A i \in Id : wire[i] \o p \in Seq(Unit)
  BY <1>3, ConcatProperties DEF TypeOK
<1>5. wire' \in [Id -> Seq(Unit)]
  BY <1>1, <1>4 DEF TypeOK
<1>6. freed' \in [Msg -> Nat]
  BY <1>1, FreedType DEF TypeOK
<1> QED  BY <1>1, <1>5, <1>6 DEF OneSlot

(* The socket thread keeps the mark of a stray request a Boolean. *)
LEMMA StrayedType == SocketThread /\ strayed \in BOOLEAN => strayed' \in BOOLEAN
<1> SUFFICES ASSUME SocketThread, strayed \in BOOLEAN PROVE strayed' \in BOOLEAN
  OBVIOUS
<1>1. CASE ForceClose \/ ClearClosedEvent \/ OpenSocket \/ CtrlDone \/ Wait
  BY <1>1 DEF ForceClose, ClearClosedEvent, OpenSocket, CtrlDone, Wait, marks
<1>2. CASE CloseOrHalf \/ StartSocket
  BY <1>2 DEF CloseOrHalf, StartSocket, FreeLists, marks
<1>3. CASE CloseSocket
  <2>1. strayed' = (strayed \/ (Live(Cmd.id) /\ sock[Hash(Cmd.id)].type = "RESERVE"))
    BY <1>3 DEF CloseSocket
  <2> QED  BY <2>1
<1>4. CASE SendSocket
  <2>1. strayed' = (strayed \/ (~Drop(sock[Hash(Cmd.id)], Cmd.id) /\ sock[Hash(Cmd.id)].type = "RESERVE"))
    BY <1>4 DEF SendSocket
  <2> QED  BY <2>1
<1>5. CASE \E e \in ev : ReportConnect(e) \/ ReportAccept(e) \/ ReadEvent(e) \/ SkipEvent(e)
  BY <1>5 DEF ReportConnect, ReportAccept, ReadEvent, SkipEvent, FreeLists, marks
<1>6. CASE \E e \in ev, n \in 0 .. MaxMsg * Size, err \in BOOLEAN : WriteEvent(e, n, err)
  BY <1>6 DEF WriteEvent, marks
<1> QED  BY <1>1, <1>2, <1>3, <1>4, <1>5, <1>6 DEF SocketThread

(* force_close up to its lock keeps the types. *)
LEMMA FreeListsTypes ==
    ASSUME TypeOK, NEW k \in Slot, NEW then \in {"clear", "events"}, FreeLists(k, then)
    PROVE  sock' \in [Slot -> Socket] /\ freed' \in [Msg -> Nat] /\ closing' \in Requests /\ strayed' = strayed
<1>1. closing' = Req(then, sock[k].id, 0) /\ (\E ms : FreeMsgs(ms)) /\ strayed' = strayed
  BY DEF FreeLists
<1>2. sock[k] \in Socket
  BY DEF TypeOK
<1>3. sock[k].id \in 0 .. MaxId
  BY <1>2 DEF Socket
<1>4. closing' \in Requests
  BY <1>1, <1>3, ReqType
<1>5. freed' \in [Msg -> Nat]
  BY <1>1, FreedType DEF TypeOK
<1> QED  BY <1>1, <1>4, <1>5, FreeDoes DEF OneSlot

(* Every step of the socket thread keeps the types. *)
LEMMA ThreadTypes ==
    ASSUME TypeOK, SocketThread PROVE TypeOK'
<1>a. MaxId \in Nat /\ MaxMsg \in Nat /\ Size \in Nat \ {0} /\ Slots \in Nat \ {0}
  BY SocketAssumption
<1>t. /\ sock \in [Slot -> Socket] /\ alloc_id \in 0 .. MaxId /\ pipe \in Seq(Requests) /\ freed \in [Msg -> Nat]
      /\ closing \in Requests /\ opened \subseteq 0 .. MaxId /\ issued \subseteq 0 .. MaxId /\ strayed \in BOOLEAN
      /\ ev \subseteq [slot : Slot, kind : Kind]
  BY DEF TypeOK
<1>c. Hash(closing.id) \in Slot
  BY <1>t, RequestType, HashRange
<1>s. \A k \in Slot : sock[k].id \in 0 .. MaxId /\ sock[k].type \in Types /\ sock[k].polled \in BOOLEAN /\ sock[k].write \in BOOLEAN
  <2> SUFFICES ASSUME NEW k \in Slot
               PROVE  sock[k].id \in 0 .. MaxId /\ sock[k].type \in Types /\ sock[k].polled \in BOOLEAN /\ sock[k].write \in BOOLEAN
    OBVIOUS
  <2>1. sock[k] \in Socket
    BY <1>t
  <2> QED  BY <2>1 DEF Socket
<1>f. strayed' \in BOOLEAN
  BY StrayedType DEF TypeOK
<1>q. pipe # <<>> => Cmd \in Requests /\ Tail(pipe) \in Seq(Requests) /\ Cmd.id \in 0 .. MaxId /\ Cmd.id \in Nat /\ Hash(Cmd.id) \in Slot
  BY CmdType, HashRange
<1>e. \A e \in ev : e.slot \in Slot /\ ev \ {e} \subseteq [slot : Slot, kind : Kind]
                    /\ [e EXCEPT !.kind = "write"] \in [slot : Slot, kind : Kind]
  <2> SUFFICES ASSUME NEW e \in ev PROVE e.slot \in Slot /\ [e EXCEPT !.kind = "write"] \in [slot : Slot, kind : Kind]
    BY <1>t
  <2>1. e \in [slot : Slot, kind : Kind] /\ "write" \in Kind
    BY <1>t DEF Kind
  <2> QED  BY <2>1
<1>1. CASE ForceClose
  <2>1. /\ sock' = [sock EXCEPT ![Hash(closing.id)] = Closed(@)] /\ \E ms : FreeMsgs(ms)
        /\ UNCHANGED <<pipe, ev, closing, workerVars, bounds, ids, opened, wire, marks, failed>>
    BY <1>1 DEF ForceClose
  <2>2. sock' \in [Slot -> Socket] /\ freed' \in [Msg -> Nat]
    BY <1>c, <1>t, <2>1, ClosedDoes, FreedType DEF OneSlot
  <2> QED  BY <1>f, <2>1, <2>2 DEF TypeOK, workerVars, bounds, ids
<1>2. CASE ClearClosedEvent
  <2>1. /\ ev' \subseteq ev /\ closing' = NoReq
        /\ UNCHANGED <<sock, pipe, workerVars, bounds, told, freed, wire, marks, failed>>
    BY <1>2 DEF ClearClosedEvent
  <2> QED  BY <1>f, <2>1, NoReqType DEF TypeOK, workerVars, bounds, told, ids
<1>3. CASE CloseOrHalf
  <2>1. UNCHANGED <<pipe, ev, workerVars, bounds, told, wire>>
    BY <1>3 DEF CloseOrHalf
  <2>2. CASE FreeLists(Hash(closing.id), "clear")
    <3>1. sock' \in [Slot -> Socket] /\ freed' \in [Msg -> Nat] /\ closing' \in Requests
      BY <1>c, <2>2, FreeListsTypes
    <3> QED  BY <1>f, <2>1, <3>1 DEF TypeOK, workerVars, bounds, told, ids
  <2>3. CASE sock' = [sock EXCEPT ![Hash(closing.id)].type = "HALFCLOSE"] /\ closing' = NoReq /\ UNCHANGED <<freed, marks, failed>>
    <3>1. sock' \in [Slot -> Socket]
      <4>1. "HALFCLOSE" \in Types
        BY DEF Types
      <4> QED  BY <1>c, <1>s, <2>3, <4>1, TypeDoes DEF OneSlot
    <3> QED  BY <1>f, <2>1, <2>3, <3>1, NoReqType DEF TypeOK, workerVars, bounds, told, ids
  <2> QED  BY <1>3, <2>2, <2>3 DEF CloseOrHalf
<1>4. CASE OpenSocket
  <2>1. /\ pipe # <<>> /\ pipe' = Tail(pipe) /\ UNCHANGED <<ev, workerVars, bounds, ids, freed, wire, marks>>
        /\ opened' \subseteq opened \cup {Cmd.id} /\ closing' \in {closing, Cmd}
    BY <1>4 DEF OpenSocket, Command
  <2>2. \/ NewFd(Cmd.id, "CONNECTED", TRUE, FALSE) \/ NewFd(Cmd.id, "CONNECTING", TRUE, TRUE)
        \/ NewFd(Cmd.id, "PLISTEN", FALSE, FALSE) \/ NewFd(Cmd.id, "BIND", TRUE, FALSE)
        \/ sock' = [sock EXCEPT ![Hash(Cmd.id)].type = "INVALID"]
    BY <1>4 DEF OpenSocket
  <2>3. sock' \in [Slot -> Socket]
    <3>1. "CONNECTED" \in Types /\ "CONNECTING" \in Types /\ "PLISTEN" \in Types /\ "BIND" \in Types /\ "INVALID" \in Types
      BY DEF Types
    <3>2. CASE sock' = [sock EXCEPT ![Hash(Cmd.id)].type = "INVALID"]
      BY <1>q, <1>s, <2>1, <3>1, <3>2, TypeDoes DEF OneSlot
    <3>3. CASE NewFd(Cmd.id, "CONNECTED", TRUE, FALSE)
      BY <1>q, <2>1, <3>1, <3>3, NewFdDoes DEF OneSlot
    <3>4. CASE NewFd(Cmd.id, "CONNECTING", TRUE, TRUE)
      BY <1>q, <2>1, <3>1, <3>4, NewFdDoes DEF OneSlot
    <3>5. CASE NewFd(Cmd.id, "PLISTEN", FALSE, FALSE)
      BY <1>q, <2>1, <3>1, <3>5, NewFdDoes DEF OneSlot
    <3>6. CASE NewFd(Cmd.id, "BIND", TRUE, FALSE)
      BY <1>q, <2>1, <3>1, <3>6, NewFdDoes DEF OneSlot
    <3> QED  BY <2>2, <3>2, <3>3, <3>4, <3>5, <3>6
  <2> QED  BY <1>f, <1>q, <2>1, <2>3 DEF TypeOK, workerVars, bounds, ids
<1>5. CASE StartSocket
  <2>1. /\ pipe # <<>> /\ pipe' = Tail(pipe) /\ UNCHANGED <<ev, workerVars, bounds, ids, wire>>
        /\ opened' \subseteq opened \cup {Cmd.id}
    BY <1>5 DEF StartSocket, Command
  <2>2. \/ sock' = sock /\ freed' = freed /\ closing' \in {closing, Cmd}
        \/ /\ \E type \in {"CONNECTED", "LISTEN"} : sock' = [sock EXCEPT ![Hash(Cmd.id)].polled = TRUE, ![Hash(Cmd.id)].type = type]
           /\ freed' = freed /\ closing' = closing
        \/ FreeLists(Hash(Cmd.id), "clear")
    BY <1>5 DEF StartSocket
  <2>3. sock' \in [Slot -> Socket] /\ freed' \in [Msg -> Nat] /\ closing' \in Requests
    <3>1. CASE sock' = sock /\ freed' = freed /\ closing' \in {closing, Cmd}
      BY <1>q, <1>t, <2>1, <3>1
    <3>2. CASE /\ \E type \in {"CONNECTED", "LISTEN"} : sock' = [sock EXCEPT ![Hash(Cmd.id)].polled = TRUE, ![Hash(Cmd.id)].type = type]
               /\ freed' = freed /\ closing' = closing
      <4>1. PICK type \in {"CONNECTED", "LISTEN"} : sock' = [sock EXCEPT ![Hash(Cmd.id)].polled = TRUE, ![Hash(Cmd.id)].type = type]
        BY <3>2
      <4>2. type \in Types
        BY DEF Types
      <4>3. sock' \in [Slot -> Socket]
        BY <1>q, <1>s, <2>1, <4>1, <4>2, TypeDoes DEF OneSlot
      <4> QED  BY <1>t, <3>2, <4>3
    <3>3. CASE FreeLists(Hash(Cmd.id), "clear")
      BY <1>q, <2>1, <3>3, FreeListsTypes
    <3> QED  BY <2>2, <3>1, <3>2, <3>3
  <2> QED  BY <1>f, <1>q, <2>1, <2>3 DEF TypeOK, workerVars, bounds, ids
<1>6. CASE CloseSocket
  <2>1. /\ pipe # <<>> /\ pipe' = Tail(pipe) /\ UNCHANGED <<ev, workerVars, bounds, ids, opened>> /\ closing' = Cmd
    BY <1>6 DEF CloseSocket, Command
  <2>2. \/ sock' = sock /\ freed' = freed /\ wire' = wire
        \/ \E n \in 0 .. MaxMsg * Size, err \in BOOLEAN : SendBuffer(Hash(Cmd.id), n, err, "clear", "close")
    BY <1>6 DEF CloseSocket
  <2>3. sock' \in [Slot -> Socket] /\ freed' \in [Msg -> Nat] /\ wire' \in [Id -> Seq(Unit)]
    <3>1. CASE sock' = sock /\ freed' = freed /\ wire' = wire
      BY <3>1 DEF TypeOK
    <3>2. ASSUME NEW n \in 0 .. MaxMsg * Size, NEW err \in BOOLEAN, SendBuffer(Hash(Cmd.id), n, err, "clear", "close")
          PROVE  sock' \in [Slot -> Socket] /\ freed' \in [Msg -> Nat] /\ wire' \in [Id -> Seq(Unit)]
      <4>1. n \in Nat
        OBVIOUS
      <4> QED  BY <1>q, <2>1, <3>2, <4>1, SendBufferTypes
    <3> QED  BY <2>2, <3>1, <3>2
  <2> QED  BY <1>f, <1>q, <2>1, <2>3 DEF TypeOK, workerVars, bounds, ids
<1>7. CASE SendSocket
  <2>1. /\ pipe # <<>> /\ pipe' = Tail(pipe) /\ Cmd.cmd \in {"D", "P"}
        /\ UNCHANGED <<threadVars, workerVars, bounds, told, wire, cut>> /\ \E ms : FreeMsgs(ms)
    BY <1>7 DEF SendSocket, Command
  <2>2. Cmd.m \in Msg
    BY <1>q, <2>1 DEF Requests, Opening, Closing
  <2>3. sock' \in [Slot -> Socket]
    BY <1>7, <2>2, SendSocketDoes DEF OneSlot
  <2>4. freed' \in [Msg -> Nat]
    BY <1>t, <2>1, FreedType
  <2> QED  BY <1>f, <1>q, <2>1, <2>3, <2>4 DEF TypeOK, threadVars, workerVars, bounds, told, ids
<1>8. CASE CtrlDone
  <2>1. UNCHANGED <<sock, pipe, ev, closing, workerVars, bounds, told, freed, wire, marks, failed>>
    BY <1>8 DEF CtrlDone
  <2> QED  BY <1>f, <2>1 DEF TypeOK, workerVars, bounds, told, ids
<1>9. CASE Wait
  <2>1. UNCHANGED <<sock, pipe, closing, workerVars, bounds, told, freed, wire, marks, failed>>
    BY <1>9 DEF Wait
  <2>2. ev' \subseteq [slot : Slot, kind : Kind]
    <3> DEFINE Polled == {k \in DOMAIN sock : sock[k].polled}
    <3>1. PICK kind \in [Polled -> {"none", "read", "write", "both", "error"}] :
              ev' = {[slot |-> k, kind |-> kind[k]] : k \in {x \in Polled : kind[x] # "none"}}
      BY <1>9 DEF Wait
    <3>2. Polled \subseteq Slot
      BY <1>t
    <3> HIDE DEF Polled
    <3>3. \A k \in {x \in Polled : kind[x] # "none"} : kind[k] \in Kind /\ k \in Slot
      BY <3>2 DEF Kind
    <3> QED  BY <3>1, <3>3
  <2> QED  BY <1>f, <2>1, <2>2 DEF TypeOK, workerVars, bounds, told, ids
<1>10. ASSUME NEW e \in ev, ReportConnect(e) PROVE TypeOK'
  <2>1. /\ ev' = ev \ {e} /\ UNCHANGED <<pipe, workerVars, bounds, ids, reported, wire>>
        /\ \/ /\ sock' = [sock EXCEPT ![e.slot].type = "CONNECTED", ![e.slot].write = ~NomoreSendingData(sock[e.slot])]
              /\ opened' = opened \cup {sock[e.slot].id}
              /\ UNCHANGED <<phase, closing, freed, marks, failed>>
           \/ FreeLists(e.slot, "events") /\ UNCHANGED opened
    BY <1>10 DEF ReportConnect
  <2>2. sock' \in [Slot -> Socket] /\ freed' \in [Msg -> Nat] /\ closing' \in Requests
    <3>1. CASE FreeLists(e.slot, "events")
      BY <1>e, <3>1, FreeListsTypes
    <3>2. CASE sock' = [sock EXCEPT ![e.slot].type = "CONNECTED", ![e.slot].write = ~NomoreSendingData(sock[e.slot])]
               /\ UNCHANGED <<phase, closing, freed, marks, failed>>
      <4>1. "CONNECTED" \in Types /\ (~NomoreSendingData(sock[e.slot])) \in BOOLEAN
        BY DEF Types
      <4>2. sock' \in [Slot -> Socket]
        BY <1>e, <1>s, <3>2, <4>1, TypeDoes DEF OneSlot
      <4> QED  BY <1>t, <3>2, <4>2
    <3> QED  BY <2>1, <3>1, <3>2
  <2>3. opened' \subseteq 0 .. MaxId
    BY <1>e, <1>s, <1>t, <2>1
  <2> QED  BY <1>e, <1>f, <2>1, <2>2, <2>3 DEF TypeOK, workerVars, bounds, ids
<1>11. ASSUME NEW e \in ev, ReportAccept(e) PROVE TypeOK'
  <2>1. /\ ev' = ev \ {e}
        /\ UNCHANGED <<phase, closing, pipe, workerVars, nmsg, nctl, from, bound, opened, reported, freed, wire, marks, failed>>
        /\ \/ UNCHANGED <<sock, alloc_id, issued>>
           \/ \E id \in alloc_id + 1 .. alloc_id + Slots :
                /\ id <= MaxId /\ alloc_id' = id /\ issued' = issued \cup {id}
                /\ sock' = [sock EXCEPT ![Hash(id)] =
                  [@ EXCEPT !.type = "PACCEPT", !.id = id, !.protocol = "TCP", !.tag = id, !.sending = 0, !.wb = 0]]
    BY <1>11 DEF ReportAccept
  <2>2. CASE UNCHANGED <<sock, alloc_id, issued>>
    BY <1>e, <1>f, <2>1, <2>2 DEF TypeOK, workerVars
  <2>3. ASSUME NEW id \in alloc_id + 1 .. alloc_id + Slots, id <= MaxId, alloc_id' = id, issued' = issued \cup {id},
               sock' = [sock EXCEPT ![Hash(id)] =
                  [@ EXCEPT !.type = "PACCEPT", !.id = id, !.protocol = "TCP", !.tag = id, !.sending = 0, !.wb = 0]]
        PROVE TypeOK'
    <3>1. id \in 0 .. MaxId
      BY <1>a, <1>t, <2>3
    <3>2. sock' \in [Slot -> Socket]
      BY <2>3, <3>1, AcceptDoes DEF OneSlot
    <3>3. issued' \subseteq 0 .. MaxId /\ alloc_id' \in 0 .. MaxId
      BY <1>t, <2>3, <3>1
    <3> QED  BY <1>e, <1>f, <2>1, <3>2, <3>3 DEF TypeOK, workerVars
  <2> QED  BY <2>1, <2>2, <2>3
<1>12. ASSUME NEW e \in ev, ReadEvent(e) PROVE TypeOK'
  <2>1. /\ UNCHANGED <<pipe, workerVars, bounds, told, wire>>
        /\ ev' \subseteq (ev \ {e}) \cup {[e EXCEPT !.kind = "write"]}
        /\ \/ UNCHANGED <<sock, phase, closing, freed, marks, failed>>
           \/ FreeLists(e.slot, "events")
    BY <1>12 DEF ReadEvent
  <2>2. ev' \subseteq [slot : Slot, kind : Kind]
    BY <1>e, <1>t, <2>1
  <2>3. sock' \in [Slot -> Socket] /\ freed' \in [Msg -> Nat] /\ closing' \in Requests
    BY <1>e, <1>t, <2>1, FreeListsTypes
  <2> QED  BY <1>f, <2>1, <2>2, <2>3 DEF TypeOK, workerVars, bounds, told, ids
<1>13. ASSUME NEW e \in ev, NEW n \in 0 .. MaxMsg * Size, NEW err \in BOOLEAN, WriteEvent(e, n, err) PROVE TypeOK'
  <2>1. /\ ev' = ev \ {e} /\ UNCHANGED <<pipe, closing, workerVars, bounds, ids, opened, marks>>
        /\ \/ SendBuffer(e.slot, n, err, "events", "events")
           \/ UNCHANGED <<sock, phase, reported, freed, wire, failed>>
    BY <1>13 DEF WriteEvent
  <2>2. sock' \in [Slot -> Socket] /\ freed' \in [Msg -> Nat] /\ wire' \in [Id -> Seq(Unit)]
    <3>1. n \in Nat
      OBVIOUS
    <3>2. CASE SendBuffer(e.slot, n, err, "events", "events")
      BY <1>e, <3>1, <3>2, SendBufferTypes
    <3>3. CASE UNCHANGED <<sock, phase, reported, freed, wire, failed>>
      BY <3>3 DEF TypeOK
    <3> QED  BY <2>1, <3>2, <3>3
  <2> QED  BY <1>e, <1>f, <2>1, <2>2 DEF TypeOK, workerVars, bounds, ids
<1>14. ASSUME NEW e \in ev, SkipEvent(e) PROVE TypeOK'
  <2>1. ev' = ev \ {e} /\ UNCHANGED <<sock, phase, closing, pipe, workerVars, bounds, told, freed, wire, marks, failed>>
    BY <1>14 DEF SkipEvent
  <2> QED  BY <1>e, <1>f, <2>1 DEF TypeOK, workerVars, bounds, told, ids
<1> QED  BY <1>1, <1>2, <1>3, <1>4, <1>5, <1>6, <1>7, <1>8, <1>9, <1>10, <1>11, <1>12, <1>13, <1>14 DEF SocketThread

(* Every step keeps the types. *)
LEMMA TypeNext == TypeOK /\ [Next]_vars => TypeOK'
<1> SUFFICES ASSUME TypeOK, [Next]_vars PROVE TypeOK'
  OBVIOUS
<1>1. CASE UNCHANGED vars
  BY <1>1 DEF TypeOK, vars, threadVars, workerVars, bounds, told, ids, marks
<1>2. CASE Next
  BY <1>2, WorkerTypes, ThreadTypes DEF Next
<1> QED  BY <1>1, <1>2

(* Who is going to open a slot: a worker that reserves it, or a request *)
Held(w) == at[w] \in {"reserve", "pipe"} /\ job[w].m = 0
Asks(i) == pipe[i].cmd \in Opening
Reserved(id) == id \in Id /\ id <= alloc_id /\ id \notin opened /\ sock[Hash(id)].type = "RESERVE"

HoldersInv ==
    /\ \A w \in Worker : Held(w) => Reserved(job[w].id)
    /\ \A i \in DOMAIN pipe : Asks(i) => Reserved(pipe[i].id)
    /\ \A v, w \in Worker : Held(v) /\ Held(w) /\ Hash(job[v].id) = Hash(job[w].id) => v = w
    /\ \A i, j \in DOMAIN pipe : Asks(i) /\ Asks(j) /\ Hash(pipe[i].id) = Hash(pipe[j].id) => i = j
    /\ \A w \in Worker, i \in DOMAIN pipe : Held(w) /\ Asks(i) => Hash(job[w].id) # Hash(pipe[i].id)

JobsInv ==
    \A w \in Worker : /\ at[w] = "reserve" => job[w].m = 0
                      /\ at[w] = "inc" => job[w].cmd \in Sending

(* The slots: an open one is found by its id *)
Named(k) ==
    /\ sock[k].id <= alloc_id
    /\ sock[k].type \in Open => sock[k].id \in Id /\ Hash(sock[k].id) = k /\ sock[k].protocol = "TCP"
    /\ sock[k].protocol = "TCP" => sock[k].tag = sock[k].id
NamesInv == (\A k \in Slot : Named(k)) /\ \A id \in opened : id \in Id /\ id <= alloc_id

(* What the socket thread is closing *)
ClosingInv ==
    /\ phase \in {"free", "close"} => sock[Hash(closing.id)].type \in Open /\ sock[Hash(closing.id)].id = closing.id
    /\ phase = "free" => /\ sock[Hash(closing.id)].high = <<>> /\ sock[Hash(closing.id)].low = <<>>
                         /\ closing.cmd \in {"clear", "events"}

OwnersInv == HoldersInv /\ JobsInv /\ NamesInv /\ ClosingInv

(* The pipe without its first request. *)
LEMMA TailIs == \A S : \A q \in Seq(S) : q # <<>> =>
                  /\ Tail(q) \in Seq(S) /\ Len(Tail(q)) = Len(q) - 1 /\ 1 \in DOMAIN q /\ Head(q) = q[1]
                  /\ \A i \in DOMAIN Tail(q) : i + 1 \in DOMAIN q /\ Tail(q)[i] = q[i + 1] /\ i \in Nat
OBVIOUS

(* The pipe with one more request. *)
LEMMA AppendIs == \A S : \A q \in Seq(S), x \in S :
                  /\ Append(q, x) \in Seq(S) /\ Len(Append(q, x)) = Len(q) + 1 /\ Len(q) \in Nat
                  /\ DOMAIN Append(q, x) = 1 .. Len(q) + 1 /\ DOMAIN q = 1 .. Len(q)
                  /\ Append(q, x)[Len(q) + 1] = x
                  /\ \A i \in DOMAIN q : Append(q, x)[i] = q[i]
OBVIOUS

(* The socket thread leaves the holders alone, but for the request it takes. *)
LEMMA HoldersKept ==
    ASSUME TypeOK, HoldersInv, UNCHANGED workerVars,
           pipe' = pipe \/ (pipe # <<>> /\ pipe' = Tail(pipe)),
           \A id \in Id : Reserved(id) /\ (pipe' # pipe /\ Asks(1) => Hash(id) # Hash(Cmd.id)) => Reserved(id)'
    PROVE  HoldersInv'
<1>t. pipe \in Seq(Requests)
  BY DEF TypeOK
<1>w. \A w \in Worker : (Held(w)' <=> Held(w)) /\ job'[w] = job[w]
  BY DEF Held, workerVars
<1>1. CASE pipe' = pipe
  <2>1. \A id \in Id : Reserved(id) => Reserved(id)'
    BY <1>1
  <2>2. \A id : Reserved(id) => id \in Id
    BY DEF Reserved
  <2>3. \A i \in DOMAIN pipe : Asks(i)' <=> Asks(i)
    BY <1>1 DEF Asks
  <2>4. \A w \in Worker : Held(w) => Reserved(job[w].id)'
    <3> SUFFICES ASSUME NEW w \in Worker, Held(w), NEW id, id = job'[w].id PROVE Reserved(id)'
      BY <1>w DEF Reserved
    <3> QED  BY <1>w, <2>1, <2>2 DEF HoldersInv
  <2>5. \A i \in DOMAIN pipe : Asks(i) => Reserved(pipe[i].id)'
    <3> SUFFICES ASSUME NEW i \in DOMAIN pipe, Asks(i), NEW id, id = pipe'[i].id PROVE Reserved(id)'
      BY <1>1, <2>3 DEF Reserved
    <3> QED  BY <1>1, <2>1, <2>2 DEF HoldersInv
  <2> QED  BY <1>1, <1>w, <2>3, <2>4, <2>5 DEF HoldersInv
<1>2. CASE pipe # <<>> /\ pipe' = Tail(pipe)
  <2>0. Len(pipe') = Len(pipe) - 1 /\ Len(pipe) \in Nat /\ 1 \in DOMAIN pipe /\ Cmd = pipe[1]
    BY <1>t, <1>2, TailIs DEF Cmd
  <2>1. \A i \in DOMAIN pipe' : i + 1 \in DOMAIN pipe /\ pipe'[i] = pipe[i + 1] /\ i \in Nat /\ i + 1 # 1
    BY <1>t, <1>2, TailIs
  <2>2. \A i \in DOMAIN pipe' : Asks(i)' => Asks(i + 1)
    BY <2>1 DEF Asks
  <2>3. pipe' # pipe
    BY <2>0
  <2>4. \A w \in Worker : Held(w)' => Reserved(job[w].id)'
    <3> SUFFICES ASSUME NEW w \in Worker, Held(w), NEW id, id = job'[w].id PROVE Reserved(id)'
      BY <1>w DEF Reserved
    <3>1. Reserved(id) /\ id \in Id /\ (Asks(1) => Hash(id) # Hash(Cmd.id))
      BY <1>w, <2>0 DEF HoldersInv, Reserved
    <3> QED  BY <3>1
  <2>5. \A i \in DOMAIN pipe' : Asks(i)' => Reserved(pipe[i].id)'
    <3> SUFFICES ASSUME NEW i \in DOMAIN pipe', Asks(i)', NEW id, id = pipe'[i].id PROVE Reserved(id)'
      BY <2>1 DEF Reserved
    <3>1. Asks(i + 1) /\ i + 1 \in DOMAIN pipe /\ i + 1 # 1 /\ id = pipe[i + 1].id
      BY <2>1, <2>2
    <3>2. Reserved(id) /\ id \in Id /\ (Asks(1) => Hash(id) # Hash(Cmd.id))
      BY <2>0, <3>1 DEF HoldersInv, Reserved
    <3> QED  BY <3>2
  <2>6. \A v, w \in Worker : Held(v)' /\ Held(w)' /\ Hash(job'[v].id) = Hash(job'[w].id) => v = w
    BY <1>w DEF HoldersInv
  <2>7. \A i, j \in DOMAIN pipe' : Asks(i)' /\ Asks(j)' /\ Hash(pipe'[i].id) = Hash(pipe'[j].id) => i = j
    <3> SUFFICES ASSUME NEW i \in DOMAIN pipe', NEW j \in DOMAIN pipe', Asks(i)', Asks(j)', Hash(pipe'[i].id) = Hash(pipe'[j].id)
                 PROVE  i = j
      OBVIOUS
    <3>1. Asks(i + 1) /\ Asks(j + 1) /\ Hash(pipe[i + 1].id) = Hash(pipe[j + 1].id) /\ i \in Nat /\ j \in Nat
          /\ i + 1 \in DOMAIN pipe /\ j + 1 \in DOMAIN pipe
      BY <2>1, <2>2
    <3>2. i + 1 = j + 1
      BY <3>1 DEF HoldersInv
    <3> QED  BY <3>1, <3>2
  <2>8. \A w \in Worker, i \in DOMAIN pipe' : Held(w)' /\ Asks(i)' => Hash(job'[w].id) # Hash(pipe'[i].id)
    <3> SUFFICES ASSUME NEW w \in Worker, NEW i \in DOMAIN pipe', Held(w)', Asks(i)'
                 PROVE  Hash(job'[w].id) # Hash(pipe'[i].id)
      OBVIOUS
    <3>1. Held(w) /\ Asks(i + 1) /\ i + 1 \in DOMAIN pipe /\ pipe'[i] = pipe[i + 1]
      BY <1>w, <2>1, <2>2
    <3> QED  BY <1>w, <3>1 DEF HoldersInv
  <2> QED  BY <2>4, <2>5, <2>6, <2>7, <2>8 DEF HoldersInv
<1> QED  BY <1>1, <1>2

(* A worker goes on with what it has, or with no slot. *)
LEMMA HoldersGoOn ==
    ASSUME TypeOK, HoldersInv, NEW w \in Worker, UNCHANGED <<pipe, opened, alloc_id>>,
           \A v \in Worker : v # w => at'[v] = at[v] /\ job'[v] = job[v],
           Held(w)' => Held(w) /\ job'[w].id = job[w].id,
           \A k \in Slot : sock[k].type = "RESERVE" => sock'[k].type = "RESERVE"
    PROVE  HoldersInv'
<1>1. \A id \in Id : Hash(id) \in Slot
  BY HashRange DEF Id
<1>2. \A id : Reserved(id) => Reserved(id)'
  BY <1>1 DEF Reserved, Id
<1>3. \A v \in Worker : Held(v)' => Held(v) /\ job'[v].id = job[v].id
  BY DEF Held
<1>4. \A i \in DOMAIN pipe' : (Asks(i)' <=> Asks(i)) /\ pipe'[i].id = pipe[i].id
  BY DEF Asks
<1>5. \A v \in Worker : Held(v)' => Reserved(job[v].id)'
  <2> SUFFICES ASSUME NEW v \in Worker, Held(v)', NEW id, id = job'[v].id PROVE Reserved(id)'
    BY DEF Reserved
  <2> QED  BY <1>2, <1>3 DEF HoldersInv
<1>6. \A i \in DOMAIN pipe' : Asks(i)' => Reserved(pipe[i].id)'
  <2> SUFFICES ASSUME NEW i \in DOMAIN pipe', Asks(i)', NEW id, id = pipe'[i].id PROVE Reserved(id)'
    BY DEF Reserved
  <2> QED  BY <1>2, <1>4 DEF HoldersInv
<1> QED  BY <1>3, <1>4, <1>5, <1>6 DEF HoldersInv

(* What the steps of a worker do: w comes to a with the request j *)
Goes(w, a, j) == /\ at'[w] = a /\ job'[w] = j
                 /\ \A v \in Worker : v # w => at'[v] = at[v] /\ job'[v] = job[v]
Keeps(k) == LET s == sock[k]
                t == sock'[k]
            IN  OneSlot(k) /\ SameLists(s, t) /\ SameName(s, t) /\ SameEvents(s, t)

(* The request a worker builds. *)
LEMMA JobTypes == TypeOK => \A w \in Worker :
    /\ job[w] \in Requests /\ job[w].id \in 0 .. MaxId /\ job[w].id \in Nat /\ job[w].m \in 0 .. MaxMsg
    /\ Hash(job[w].id) \in Slot
    /\ at[w] \in {"idle", "reserve", "pipe", "try", "locked", "inc"}
    /\ job[w].cmd \in Sending <=> job[w].m # 0
    /\ job[w].cmd \in Opening => job[w].m = 0
    /\ at[w] \in {"try", "locked"} => job[w].cmd = "D" /\ job[w].m \in Msg
<1> SUFFICES ASSUME TypeOK, NEW w \in Worker
             PROVE  /\ job[w] \in Requests /\ job[w].id \in 0 .. MaxId /\ job[w].id \in Nat /\ job[w].m \in 0 .. MaxMsg
                    /\ Hash(job[w].id) \in Slot
                    /\ at[w] \in {"idle", "reserve", "pipe", "try", "locked", "inc"}
                    /\ job[w].cmd \in Sending <=> job[w].m # 0
                    /\ job[w].cmd \in Opening => job[w].m = 0
                    /\ at[w] \in {"try", "locked"} => job[w].cmd = "D" /\ job[w].m \in Msg
  OBVIOUS
<1>1. job[w] \in Requests /\ at[w] \in {"idle", "reserve", "pipe", "try", "locked", "inc"}
      /\ (at[w] \in {"try", "locked"} => job[w].cmd = "D")
  BY DEF TypeOK
<1>2. job[w].id \in 0 .. MaxId /\ job[w].id \in Nat /\ job[w].m \in 0 .. MaxMsg
  BY <1>1, RequestType
<1>3. (job[w].cmd \in Sending <=> job[w].m # 0) /\ (job[w].cmd \in Opening => job[w].m = 0)
      /\ (job[w].cmd \in Sending => job[w].m \in Msg)
  <2>1. CASE job[w] \in [cmd : {"", "S", "clear", "events"} \cup Opening \cup Closing, id : 0 .. MaxId, m : {0}]
    <3>1. job[w].m = 0 /\ job[w].cmd \notin Sending
      BY <2>1 DEF Opening, Closing, Sending
    <3> QED  BY <3>1
  <2>2. CASE job[w] \in [cmd : Sending, id : 0 .. MaxId, m : Msg]
    <3>1. job[w].m \in Msg /\ job[w].cmd \in Sending
      BY <2>2
    <3>2. job[w].m # 0
      BY <3>1, SocketAssumption DEF Msg
    <3>3. job[w].cmd \notin Opening
      BY <3>1 DEF Sending, Opening
    <3> QED  BY <3>1, <3>2, <3>3
  <2> QED  BY <1>1, <2>1, <2>2 DEF Requests
<1> QED  BY <1>1, <1>2, <1>3, HashRange DEF Sending

(* reserve_id up to the atomic swap of the type. *)
LEMMA ReserveEffect ==
    ASSUME TypeOK, NEW w \in Worker, NEW cmd \in Kinds, Reserve(w, cmd)
    PROVE  \E id \in Id :
               /\ alloc_id < id /\ alloc_id' = id /\ sock[Hash(id)].type = "INVALID" /\ Hash(id) \in Slot
               /\ Keeps(Hash(id)) /\ sock'[Hash(id)].type = "RESERVE" /\ sock'[Hash(id)].lock = sock[Hash(id)].lock
               /\ at[w] = "idle" /\ Goes(w, "reserve", Req(cmd, id, 0)) /\ cmd \in Opening
               /\ UNCHANGED <<pipe, threadVars, nmsg, nctl, from, told, freed, wire, marks, failed>>
<1>1. PICK id \in alloc_id + 1 .. alloc_id + Slots :
          /\ at[w] = "idle" /\ sock[Hash(id)].type = "INVALID"
          /\ id <= MaxId /\ alloc_id' = id /\ sock' = [sock EXCEPT ![Hash(id)].type = "RESERVE"]
          /\ at' = [at EXCEPT ![w] = "reserve"] /\ job' = [job EXCEPT ![w] = Req(cmd, id, 0)]
          /\ UNCHANGED <<pipe, threadVars, nmsg, nctl, from, told, freed, wire, marks, failed>>
  BY DEF Reserve
<1>2. id \in Id /\ id \in Nat /\ alloc_id < id
  <2>1. alloc_id \in 0 .. MaxId
    BY DEF TypeOK
  <2> QED  BY <1>1, <2>1, SocketAssumption DEF Id
<1>3. Keeps(Hash(id)) /\ sock'[Hash(id)].type = "RESERVE" /\ sock'[Hash(id)].lock = sock[Hash(id)].lock
  BY <1>1, <1>2, ReserveDoes DEF Keeps
<1>4. Goes(w, "reserve", Req(cmd, id, 0))
  BY <1>1 DEF TypeOK, Goes
<1>5. cmd \in Opening
  BY SocketAssumption DEF Opening
<1> QED  BY <1>1, <1>2, <1>3, <1>4, <1>5, HashRange

(* reserve_id after the swap. *)
LEMMA ReserveSetEffect ==
    ASSUME TypeOK, NEW w \in Worker, ReserveSet(w)
    PROVE  LET k == Hash(job[w].id)
               s == sock[k]
               t == sock'[k]
           IN  /\ at[w] = "reserve" /\ Goes(w, "pipe", job[w])
               /\ OneSlot(k) /\ t.id = job[w].id /\ t.protocol = "UNKNOWN" /\ t.type = s.type
               /\ SameLists(s, t) /\ SameEvents(s, t) /\ t.lock = s.lock
               /\ UNCHANGED <<pipe, threadVars, job, bounds, told, freed, wire, marks, failed>>
<1>1. /\ at[w] = "reserve" /\ at' = [at EXCEPT ![w] = "pipe"]
      /\ UNCHANGED <<pipe, threadVars, job, bounds, told, freed, wire, marks, failed>>
  BY DEF ReserveSet
<1>2. Goes(w, "pipe", job[w])
  BY <1>1 DEF TypeOK, Goes
<1>3. job[w].id \in 0 .. MaxId
  BY JobTypes
<1> QED  BY <1>1, <1>2, <1>3, ReserveSetDoes DEF ReserveSet

(* send_request. *)
LEMMA SendRequestEffect ==
    ASSUME TypeOK, NEW w \in Worker, SendRequest(w)
    PROVE  /\ at[w] = "pipe" /\ Goes(w, "idle", NoReq) /\ pipe' = Append(pipe, job[w])
           /\ issued' = (IF job[w].m = 0 THEN issued \cup {job[w].id} ELSE issued)
           /\ bound' = (IF job[w].cmd = "B" THEN bound \cup {job[w].id} ELSE bound)
           /\ UNCHANGED <<sock, threadVars, bounds, opened, reported, freed, wire, marks, failed>>
BY DEF SendRequest, TypeOK, Goes

(* socket_server_send up to its first test. *)
LEMMA SendEffect ==
    ASSUME TypeOK, NEW w \in Worker, NEW id \in Id, NEW cmd \in {"D", "P"}, Send(w, cmd, id)
    PROVE  /\ at[w] = "idle" /\ nmsg' = nmsg + 1 /\ nmsg' \in Msg /\ id \in (IF Early THEN issued ELSE opened)
           /\ from' = [from EXCEPT ![nmsg'] = [who |-> w, cmd |-> cmd, id |-> id]]
           /\ \/ Goes(w, IF cmd = "D" THEN "try" ELSE "inc", Req(cmd, id, nmsg')) /\ UNCHANGED freed
              \/ FreeMsgs({nmsg'}) /\ UNCHANGED workerVars
           /\ UNCHANGED <<sock, pipe, threadVars, nctl, alloc_id, told, wire, marks, failed>>
<1>1. nmsg \in 0 .. MaxMsg
  BY DEF TypeOK
<1>2. nmsg' \in Msg /\ nmsg' = nmsg + 1
  BY <1>1, SocketAssumption DEF Send, Msg
<1> DEFINE a == IF cmd = "D" THEN "try" ELSE "inc"
<1>3. /\ at[w] = "idle" /\ id \in (IF Early THEN issued ELSE opened)
      /\ from' = [from EXCEPT ![nmsg'] = [who |-> w, cmd |-> cmd, id |-> id]]
      /\ \/ /\ at' = [at EXCEPT ![w] = a]
            /\ job' = [job EXCEPT ![w] = Req(cmd, id, nmsg')]
            /\ UNCHANGED freed
         \/ FreeMsgs({nmsg'}) /\ UNCHANGED workerVars
      /\ UNCHANGED <<sock, pipe, threadVars, nctl, alloc_id, told, wire, marks, failed>>
  BY DEF Send
<1> HIDE DEF a
<1>4. at' = [at EXCEPT ![w] = a] /\ job' = [job EXCEPT ![w] = Req(cmd, id, nmsg')] => Goes(w, a, Req(cmd, id, nmsg'))
  BY DEF Goes, TypeOK
<1>5. Goes(w, a, Req(cmd, id, nmsg')) => Goes(w, IF cmd = "D" THEN "try" ELSE "inc", Req(cmd, id, nmsg'))
  BY DEF a
<1> QED  BY <1>2, <1>3, <1>4, <1>5

(* The test and the trylock of socket_server_send. *)
LEMMA TryEffect ==
    ASSUME TypeOK, NEW w \in Worker, TryDirectWrite(w)
    PROVE  LET k == Hash(job[w].id)
           IN  /\ at[w] = "try"
               /\ \/ /\ Goes(w, "locked", job[w]) /\ CanDirectWrite(sock[k], job[w].id) /\ sock[k].lock = Nobody
                     /\ Keeps(k) /\ sock'[k].type = sock[k].type /\ sock'[k].lock = w
                  \/ Goes(w, "inc", job[w]) /\ UNCHANGED sock
               /\ UNCHANGED <<pipe, threadVars, job, bounds, told, freed, wire, marks, failed>>
<1> DEFINE k == Hash(job[w].id)
           go == CanDirectWrite(sock[k], job[w].id) /\ sock[k].lock = Nobody
<1>1. /\ at[w] = "try" /\ at' = [at EXCEPT ![w] = IF go THEN "locked" ELSE "inc"]
      /\ sock' = IF go THEN [sock EXCEPT ![k].lock = w] ELSE sock
      /\ UNCHANGED <<pipe, threadVars, job, bounds, told, freed, wire, marks, failed>>
  BY DEF TryDirectWrite
<1>2. CASE go
  <2>1. Goes(w, "locked", job[w])
    BY <1>1, <1>2 DEF TypeOK, Goes
  <2>2. Keeps(k) /\ sock'[k].type = sock[k].type /\ sock'[k].lock = w
    <3>1. k \in Slot
      BY JobTypes
    <3> QED  BY <1>1, <1>2, <3>1, LockDoes DEF Keeps
  <2> QED  BY <1>1, <1>2, <2>1, <2>2
<1>3. CASE ~go
  <2>1. Goes(w, "inc", job[w])
    BY <1>1, <1>3 DEF TypeOK, Goes
  <2> QED  BY <1>1, <1>3, <2>1
<1> QED  BY <1>2, <1>3

(* The direct write under the lock. *)
LEMMA DirectWriteEffect ==
    ASSUME TypeOK, NEW w \in Worker, DirectWrite(w)
    PROVE  LET id == job[w].id
               k == Hash(id)
               s == sock[k]
               t == sock'[k]
               x == [m |-> job[w].m, off |-> 0]
           IN  /\ at[w] = "locked" /\ x \in Buf /\ OneSlot(k) /\ t.lock = Nobody /\ t.type = s.type /\ SameName(s, t)
               /\ \/ Goes(w, "inc", job[w]) /\ Keeps(k) /\ UNCHANGED <<job, freed, wire>>
                  \/ /\ Goes(w, "idle", NoReq) /\ CanDirectWrite(s, id)
                     /\ \/ /\ Keeps(k) /\ FreeMsgs({job[w].m})
                           /\ wire' = [wire EXCEPT ![id] = @ \o PartOf(x, Size)]
                        \/ \E n \in 0 .. Size - 1 :
                           /\ t.high = s.high /\ t.low = s.low /\ t.dw = <<[m |-> job[w].m, off |-> n]>>
                           /\ [m |-> job[w].m, off |-> n] \in Buf
                           /\ t.write = TRUE /\ t.polled = s.polled /\ FreeMsgs({})
                           /\ wire' = [wire EXCEPT ![id] = @ \o PartOf(x, n)]
               /\ UNCHANGED <<pipe, threadVars, bounds, told, marks, failed>>
<1> DEFINE id == job[w].id
           k == Hash(id)
           s == sock[k]
           m == job[w].m
           x == [m |-> m, off |-> 0]
<1>1. /\ at[w] = "locked" /\ UNCHANGED <<pipe, threadVars, bounds, told, marks, failed>>
      /\ \/ /\ sock' = [sock EXCEPT ![k].lock = Nobody] /\ at' = [at EXCEPT ![w] = "inc"]
            /\ UNCHANGED <<job, freed, wire>>
         \/ /\ CanDirectWrite(s, id)
            /\ \E n \in 0 .. Size :
                /\ wire' = [wire EXCEPT ![id] = @ \o SubSeq(Units(<<x>>), 1, n)]
                /\ FreeMsgs(IF n = Size THEN {m} ELSE {})
                /\ sock' = IF n = Size THEN [sock EXCEPT ![k].lock = Nobody]
                           ELSE [sock EXCEPT ![k].lock = Nobody, ![k].write = TRUE,
                                             ![k].dw = <<[m |-> m, off |-> n]>>]
                /\ at' = [at EXCEPT ![w] = "idle"]
                /\ job' = [job EXCEPT ![w] = NoReq]
  BY DEF DirectWrite
<1>2. m \in Msg /\ k \in Slot
  BY <1>1, JobTypes
<1>3. \A n \in 0 .. Size - 1 : [m |-> m, off |-> n] \in Buf
  BY <1>2 DEF Buf
<1>4. x \in Buf /\ Size \in Nat \ {0} /\ x.off = 0
  BY <1>3, SocketAssumption
<1>5. \A n \in 0 .. Size : SubSeq(Units(<<x>>), 1, n) = PartOf(x, n)
  BY <1>4, UnitsOne
<1>6. Goes(w, "inc", job[w]) \/ ~(at' = [at EXCEPT ![w] = "inc"] /\ job' = job)
  BY DEF TypeOK, Goes
<1>7. Goes(w, "idle", NoReq) \/ ~(at' = [at EXCEPT ![w] = "idle"] /\ job' = [job EXCEPT ![w] = NoReq])
  BY DEF TypeOK, Goes
<1>8. ASSUME sock' = [sock EXCEPT ![k].lock = Nobody]
      PROVE  Keeps(k) /\ OneSlot(k) /\ sock'[k].lock = Nobody /\ sock'[k].type = s.type /\ SameName(s, sock'[k])
  BY <1>2, <1>8, LockDoes DEF Keeps
<1>9. ASSUME NEW n \in 0 .. Size - 1,
             sock' = [sock EXCEPT ![k].lock = Nobody, ![k].write = TRUE, ![k].dw = <<[m |-> m, off |-> n]>>]
      PROVE  /\ OneSlot(k) /\ sock'[k].lock = Nobody /\ sock'[k].type = s.type /\ SameName(s, sock'[k])
             /\ sock'[k].high = s.high /\ sock'[k].low = s.low /\ sock'[k].dw = <<[m |-> m, off |-> n]>>
             /\ sock'[k].write = TRUE /\ sock'[k].polled = s.polled
  BY <1>2, <1>9, DirectDoes
<1>10. CASE /\ sock' = [sock EXCEPT ![k].lock = Nobody] /\ at' = [at EXCEPT ![w] = "inc"]
            /\ UNCHANGED <<job, freed, wire>>
  BY <1>1, <1>4, <1>6, <1>8, <1>10
<1>11. ASSUME CanDirectWrite(s, id), NEW n \in 0 .. Size,
              wire' = [wire EXCEPT ![id] = @ \o SubSeq(Units(<<x>>), 1, n)],
              FreeMsgs(IF n = Size THEN {m} ELSE {}),
              sock' = IF n = Size THEN [sock EXCEPT ![k].lock = Nobody]
                           ELSE [sock EXCEPT ![k].lock = Nobody, ![k].write = TRUE,
                                             ![k].dw = <<[m |-> m, off |-> n]>>],
              Goes(w, "idle", NoReq)
       PROVE  /\ OneSlot(k) /\ sock'[k].lock = Nobody /\ sock'[k].type = s.type /\ SameName(s, sock'[k])
              /\ \/ /\ Keeps(k) /\ FreeMsgs({m})
                    /\ wire' = [wire EXCEPT ![id] = @ \o PartOf(x, Size)]
                 \/ \E n1 \in 0 .. Size - 1 :
                    /\ sock'[k].high = s.high /\ sock'[k].low = s.low /\ sock'[k].dw = <<[m |-> m, off |-> n1]>>
                    /\ [m |-> m, off |-> n1] \in Buf
                    /\ sock'[k].write = TRUE /\ sock'[k].polled = s.polled /\ FreeMsgs({})
                    /\ wire' = [wire EXCEPT ![id] = @ \o PartOf(x, n1)]
  <2>0. wire' = [wire EXCEPT ![id] = @ \o PartOf(x, n)]
    BY <1>5, <1>11
  <2>1. CASE n = Size
    <3>1. FreeMsgs({m}) /\ sock' = [sock EXCEPT ![k].lock = Nobody]
      BY <1>11, <2>1
    <3> QED  BY <1>8, <2>0, <2>1, <3>1
  <2>2. CASE n # Size
    <3>1. FreeMsgs({}) /\ n \in 0 .. Size - 1
          /\ sock' = [sock EXCEPT ![k].lock = Nobody, ![k].write = TRUE, ![k].dw = <<[m |-> m, off |-> n]>>]
      BY <1>4, <1>11, <2>2
    <3> HIDE DEF k, s, m, x, id
    <3> QED  BY <1>3, <1>9, <2>0, <3>1
  <2> QED  BY <2>1, <2>2
<1> HIDE DEF k, s, m, x, id
<1>12. /\ at[w] = "locked" /\ x \in Buf /\ OneSlot(k) /\ sock'[k].lock = Nobody /\ sock'[k].type = s.type /\ SameName(s, sock'[k])
       /\ \/ Goes(w, "inc", job[w]) /\ Keeps(k) /\ UNCHANGED <<job, freed, wire>>
          \/ /\ Goes(w, "idle", NoReq) /\ CanDirectWrite(s, id)
             /\ \/ /\ Keeps(k) /\ FreeMsgs({m})
                   /\ wire' = [wire EXCEPT ![id] = @ \o PartOf(x, Size)]
                \/ \E n \in 0 .. Size - 1 :
                   /\ sock'[k].high = s.high /\ sock'[k].low = s.low /\ sock'[k].dw = <<[m |-> m, off |-> n]>>
                   /\ [m |-> m, off |-> n] \in Buf
                   /\ sock'[k].write = TRUE /\ sock'[k].polled = s.polled /\ FreeMsgs({})
                   /\ wire' = [wire EXCEPT ![id] = @ \o PartOf(x, n)]
  BY <1>1, <1>4, <1>6, <1>7, <1>8, <1>11
<1> QED  BY <1>1, <1>12 DEF k, s, m, x, id

(* inc_sending_ref and the request after it. *)
LEMMA IncEffect ==
    ASSUME TypeOK, NEW w \in Worker, IncSendingRef(w)
    PROVE  LET k == Hash(job[w].id)
               s == sock[k]
               t == sock'[k]
           IN  /\ at[w] = "inc" /\ Goes(w, "pipe", job[w]) /\ OneSlot(k)
               /\ t.type = s.type /\ t.id = s.id /\ t.protocol = s.protocol /\ t.tag = s.tag
               /\ SameLists(s, t) /\ SameEvents(s, t) /\ t.lock = s.lock
               /\ t.sending = IF s.protocol = "TCP" /\ s.tag = job[w].id THEN s.sending + 1 ELSE s.sending
               /\ UNCHANGED <<pipe, threadVars, job, bounds, told, freed, wire, marks, failed>>
<1> DEFINE k == Hash(job[w].id)
           s == sock[k]
           same == s.protocol = "TCP" /\ s.tag = job[w].id
<1>1. /\ at[w] = "inc" /\ at' = [at EXCEPT ![w] = "pipe"]
      /\ sock' = (IF same THEN [sock EXCEPT ![k].sending = @ + 1] ELSE sock)
      /\ UNCHANGED <<pipe, threadVars, job, bounds, told, freed, wire, marks, failed>>
  BY DEF IncSendingRef
<1>2. Goes(w, "pipe", job[w])
  BY <1>1 DEF TypeOK, Goes
<1>3. k \in Slot /\ sock \in [Slot -> Socket]
  BY JobTypes DEF TypeOK
<1>4. CASE same
  BY <1>1, <1>2, <1>3, <1>4, CountDoes
<1>5. CASE ~same
  <2>1. sock' = sock /\ OneSlot(k)
    BY <1>1, <1>3, <1>5 DEF OneSlot
  <2> QED  BY <1>1, <1>2, <1>5, <2>1 DEF SameLists, SameEvents
<1> QED  BY <1>4, <1>5

(* The names, after a step that writes one slot. *)
LEMMA NamesOne ==
    ASSUME TypeOK, NamesInv, NEW k, OneSlot(k), alloc_id' \in Nat, alloc_id <= alloc_id', Named(k)',
           \A id \in opened' : id \in Id /\ id <= alloc_id'
    PROVE  NamesInv'
<1>1. alloc_id \in Nat /\ \A j \in Slot : sock[j].id \in 0 .. MaxId
  <2>1. \A j \in Slot : sock[j] \in Socket
    BY DEF TypeOK
  <2>2. alloc_id \in 0 .. MaxId
    BY DEF TypeOK
  <2> QED  BY <2>1, <2>2 DEF Socket
<1>2. \A j \in Slot : j # k => Named(j)'
  <2> SUFFICES ASSUME NEW j \in Slot, j # k PROVE Named(j)'
    OBVIOUS
  <2>1. sock'[j] = sock[j] /\ Named(j) /\ sock[j].id \in 0 .. MaxId
    BY <1>1 DEF OneSlot, NamesInv
  <2> QED  BY <1>1, <2>1, SocketAssumption DEF Named
<1> QED  BY <1>2 DEF NamesInv

(* The names, after a step that writes none. *)
LEMMA NamesSame ==
    ASSUME NamesInv, UNCHANGED <<sock, alloc_id, opened>>
    PROVE  NamesInv'
BY DEF NamesInv, Named

(* The socket thread is not at work: the slot it closes stays as it is. *)
LEMMA ClosingKept ==
    ASSUME TypeOK, ClosingInv, UNCHANGED <<phase, closing>>,
           \A k \in Slot : sock[k].type \in Open =>
               /\ sock'[k].type = sock[k].type /\ sock'[k].id = sock[k].id
               /\ sock'[k].high = sock[k].high /\ sock'[k].low = sock[k].low
    PROVE  ClosingInv'
<1>1. Hash(closing.id) \in Slot
  BY RequestType, HashRange DEF TypeOK
<1>2. Hash(closing.id) = Hash(closing'.id)
  OBVIOUS
<1> QED  BY <1>1, <1>2 DEF ClosingInv

(* The jobs, after one worker goes on. *)
LEMMA JobsGo ==
    ASSUME JobsInv, NEW w \in Worker, NEW a, NEW j, Goes(w, a, j), a = "reserve" => j.m = 0, a = "inc" => j.cmd \in Sending
    PROVE  JobsInv'
BY DEF JobsInv, Goes

(* A worker keeps the slots owned. *)
LEMMA OwnersWorker ==
    ASSUME TypeOK, OwnersInv, NEW w \in Worker, Request(w) \/ WorkerStep(w)
    PROVE  OwnersInv'
<1>h. HoldersInv /\ JobsInv /\ NamesInv /\ ClosingInv
  BY DEF OwnersInv
<1>t. alloc_id \in Nat /\ pipe \in Seq(Requests) /\ sock \in [Slot -> Socket] /\ TypeOK'
  <2>1. alloc_id \in 0 .. MaxId /\ pipe \in Seq(Requests) /\ sock \in [Slot -> Socket]
    BY DEF TypeOK
  <2> QED  BY <2>1, WorkerTypes
<1>j. /\ job[w] \in Requests /\ job[w].id \in 0 .. MaxId /\ job[w].id \in Nat /\ job[w].m \in 0 .. MaxMsg
      /\ Hash(job[w].id) \in Slot
      /\ job[w].cmd \in Sending <=> job[w].m # 0
      /\ job[w].cmd \in Opening => job[w].m = 0
      /\ at[w] \in {"try", "locked"} => job[w].cmd = "D" /\ job[w].m \in Msg
  BY JobTypes
<1>r. \A cmd, id, m : Req(cmd, id, m).cmd = cmd /\ Req(cmd, id, m).id = id /\ Req(cmd, id, m).m = m
  BY DEF Req
<1>o. \A id \in opened : id \in Id /\ id <= alloc_id
  BY <1>h DEF NamesInv
<1>1. ASSUME NEW cmd \in Kinds, Reserve(w, cmd) PROVE OwnersInv'
  <2>1. PICK id \in Id :
               /\ alloc_id < id /\ alloc_id' = id /\ sock[Hash(id)].type = "INVALID" /\ Hash(id) \in Slot
               /\ Keeps(Hash(id)) /\ sock'[Hash(id)].type = "RESERVE" /\ sock'[Hash(id)].lock = sock[Hash(id)].lock
               /\ at[w] = "idle" /\ Goes(w, "reserve", Req(cmd, id, 0)) /\ cmd \in Opening
               /\ UNCHANGED <<pipe, threadVars, nmsg, nctl, from, told, freed, wire, marks, failed>>
    BY <1>1, ReserveEffect
  <2>2. \A x : Reserved(x) => Reserved(x)' /\ Hash(x) # Hash(id) /\ x \in Id
    <3> SUFFICES ASSUME NEW x, Reserved(x) PROVE Reserved(x)' /\ Hash(x) # Hash(id) /\ x \in Id
      OBVIOUS
    <3>1. x \in Id /\ x \in Nat /\ Hash(x) \in Slot /\ Hash(x) # Hash(id)
      BY <2>1, HashRange DEF Reserved, Id
    <3>2. sock'[Hash(x)] = sock[Hash(x)] /\ x <= alloc_id'
      BY <1>t, <2>1, <3>1 DEF Keeps, OneSlot, Reserved, Id
    <3> QED  BY <2>1, <3>1, <3>2 DEF Reserved, told
  <2>3. Reserved(id)'
    <3>1. id \notin opened
      BY <1>o, <1>t, <2>1 DEF Id
    <3> QED  BY <2>1, <3>1 DEF Reserved, told, Id
  <2>4. Held(w)' /\ ~Held(w) /\ job'[w].id = id
    BY <1>r, <2>1 DEF Held, Goes
  <2>5. \A v \in Worker : v # w => (Held(v)' <=> Held(v)) /\ job'[v] = job[v]
    BY <2>1 DEF Held, Goes
  <2>6. \A i \in DOMAIN pipe : (Asks(i)' <=> Asks(i)) /\ pipe' = pipe
    BY <2>1 DEF Asks
  <2>7. HoldersInv'
    <3>1. \A v \in Worker : Held(v)' => Reserved(job[v].id)'
      <4> SUFFICES ASSUME NEW v \in Worker, Held(v)', NEW x, x = job'[v].id PROVE Reserved(x)'
        BY DEF Reserved
      <4>1. CASE v = w
        BY <2>3, <2>4, <4>1
      <4>2. CASE v # w
        BY <1>h, <2>2, <2>5, <4>2 DEF HoldersInv
      <4> QED  BY <4>1, <4>2
    <3>2. \A i \in DOMAIN pipe' : Asks(i)' => Reserved(pipe[i].id)'
      <4> SUFFICES ASSUME NEW i \in DOMAIN pipe', Asks(i)', NEW x, x = pipe'[i].id PROVE Reserved(x)'
        BY DEF Reserved
      <4> QED  BY <1>h, <2>1, <2>2, <2>6 DEF HoldersInv
    <3>3. \A v, x \in Worker : Held(v)' /\ Held(x)' /\ Hash(job'[v].id) = Hash(job'[x].id) => v = x
      BY <1>h, <2>2, <2>4, <2>5 DEF HoldersInv
    <3>4. \A i, j \in DOMAIN pipe' : Asks(i)' /\ Asks(j)' /\ Hash(pipe'[i].id) = Hash(pipe'[j].id) => i = j
      BY <1>h, <2>1, <2>6 DEF HoldersInv
    <3>5. \A v \in Worker, i \in DOMAIN pipe' : Held(v)' /\ Asks(i)' => Hash(job'[v].id) # Hash(pipe'[i].id)
      <4> SUFFICES ASSUME NEW v \in Worker, NEW i \in DOMAIN pipe', Held(v)', Asks(i)' PROVE Hash(job'[v].id) # Hash(pipe'[i].id)
        OBVIOUS
      <4>0. Asks(i) /\ i \in DOMAIN pipe /\ pipe' = pipe /\ Reserved(pipe[i].id)
        BY <1>h, <2>1, <2>6 DEF HoldersInv
      <4>1. CASE v = w
        BY <2>2, <2>4, <4>0, <4>1
      <4>2. CASE v # w
        BY <1>h, <2>5, <4>0, <4>2 DEF HoldersInv
      <4> QED  BY <4>1, <4>2
    <3> QED  BY <3>1, <3>2, <3>3, <3>4, <3>5 DEF HoldersInv
  <2>8. JobsInv'
    BY <1>h, <1>r, <2>1, JobsGo
  <2>9. NamesInv'
    <3>1. Named(Hash(id))'
      <4>1. Named(Hash(id)) /\ sock[Hash(id)].id \in Nat
        <5>1. sock[Hash(id)] \in Socket
          BY <1>t, <2>1
        <5> QED  BY <1>h, <2>1, <5>1 DEF NamesInv, Socket
      <4> QED  BY <1>t, <2>1, <4>1 DEF Named, Keeps, SameName, Open, Id
    <3>2. \A x \in opened' : x \in Id /\ x <= alloc_id'
      BY <1>o, <1>t, <2>1 DEF told, Id
    <3> QED  BY <1>h, <1>t, <2>1, <3>1, <3>2, NamesOne DEF Keeps, Id
  <2>10. ClosingInv'
    BY <1>h, <2>1, ClosingKept DEF Keeps, OneSlot, threadVars, Open, Types
  <2> QED  BY <2>7, <2>8, <2>9, <2>10 DEF OwnersInv
<1>2. CASE ReserveSet(w)
  <2>1. LET k == Hash(job[w].id)
               s == sock[k]
               t == sock'[k]
           IN  /\ at[w] = "reserve" /\ Goes(w, "pipe", job[w])
               /\ OneSlot(k) /\ t.id = job[w].id /\ t.protocol = "UNKNOWN" /\ t.type = s.type
               /\ SameLists(s, t) /\ SameEvents(s, t) /\ t.lock = s.lock
               /\ UNCHANGED <<pipe, threadVars, job, bounds, told, freed, wire, marks, failed>>
    BY <1>2, ReserveSetEffect
  <2>2. Held(w) /\ Reserved(job[w].id)
    BY <1>h, <2>1 DEF Held, JobsInv, HoldersInv
  <2>3. HoldersInv'
    BY <1>h, <2>1, <2>2, HoldersGoOn DEF Goes, OneSlot, told, bounds
  <2>4. JobsInv'
    BY <1>h, <2>1, JobsGo
  <2>5. NamesInv'
    <3>1. Named(Hash(job[w].id))'
      BY <2>1, <2>2 DEF Named, Reserved, Open, bounds
    <3> QED  BY <1>h, <1>o, <1>t, <2>1, <3>1, NamesOne DEF bounds, told
  <2>6. ClosingInv'
    BY <1>h, <2>1, <2>2, ClosingKept DEF OneSlot, threadVars, Reserved, Open
  <2> QED  BY <2>3, <2>4, <2>5, <2>6 DEF OwnersInv
<1>3. CASE SendRequest(w)
  <2>1. /\ at[w] = "pipe" /\ Goes(w, "idle", NoReq) /\ pipe' = Append(pipe, job[w])
        /\ UNCHANGED <<sock, threadVars, bounds, opened, reported, freed, wire, marks, failed>>
    BY <1>3, SendRequestEffect
  <2>n. PICK n : n = Len(pipe) + 1
    OBVIOUS
  <2>2. /\ DOMAIN pipe' = 1 .. n /\ DOMAIN pipe = 1 .. Len(pipe) /\ Len(pipe) \in Nat /\ pipe'[n] = job[w]
        /\ \A i \in DOMAIN pipe : pipe'[i] = pipe[i]
    BY <1>j, <1>t, <2>1, <2>n, AppendIs
  <2>3. \A i \in DOMAIN pipe' : i # n => i \in DOMAIN pipe /\ pipe'[i] = pipe[i] /\ (Asks(i)' <=> Asks(i))
    BY <2>n, <2>2 DEF Asks
  <2>4. Asks(n)' => Held(w)
    BY <1>j, <2>1, <2>2 DEF Asks, Held
  <2>5. \A v \in Worker : Held(v)' => v # w /\ Held(v) /\ job'[v] = job[v]
    BY <2>1 DEF Held, Goes
  <2>6. \A x : Reserved(x) => Reserved(x)'
    BY <2>1 DEF Reserved, bounds
  <2>7. HoldersInv'
    <3>1. \A v \in Worker : Held(v)' => Reserved(job[v].id)'
      <4> SUFFICES ASSUME NEW v \in Worker, Held(v)', NEW x, x = job'[v].id PROVE Reserved(x)'
        BY DEF Reserved
      <4> QED  BY <1>h, <2>5, <2>6 DEF HoldersInv
    <3>2. \A i \in DOMAIN pipe' : Asks(i)' => Reserved(pipe[i].id)'
      <4> SUFFICES ASSUME NEW i \in DOMAIN pipe', Asks(i)', NEW x, x = pipe'[i].id PROVE Reserved(x)'
        BY DEF Reserved
      <4> QED  BY <1>h, <2>2, <2>3, <2>4, <2>6 DEF HoldersInv
    <3>3. \A v, x \in Worker : Held(v)' /\ Held(x)' /\ Hash(job'[v].id) = Hash(job'[x].id) => v = x
      BY <1>h, <2>5 DEF HoldersInv
    <3>4. \A i, j \in DOMAIN pipe' : Asks(i)' /\ Asks(j)' /\ Hash(pipe'[i].id) = Hash(pipe'[j].id) => i = j
      <4> SUFFICES ASSUME NEW i \in DOMAIN pipe', NEW j \in DOMAIN pipe', Asks(i)', Asks(j)', Hash(pipe'[i].id) = Hash(pipe'[j].id)
                   PROVE  i = j
        OBVIOUS
      <4>1. CASE i # n /\ j # n
        BY <1>h, <2>3, <4>1 DEF HoldersInv
      <4>2. CASE i = n /\ j # n
        BY <1>h, <2>2, <2>3, <2>4, <4>2 DEF HoldersInv
      <4>3. CASE i # n /\ j = n
        BY <1>h, <2>2, <2>3, <2>4, <4>3 DEF HoldersInv
      <4> QED  BY <4>1, <4>2, <4>3
    <3>5. \A v \in Worker, i \in DOMAIN pipe' : Held(v)' /\ Asks(i)' => Hash(job'[v].id) # Hash(pipe'[i].id)
      <4> SUFFICES ASSUME NEW v \in Worker, NEW i \in DOMAIN pipe', Held(v)', Asks(i)' PROVE Hash(job'[v].id) # Hash(pipe'[i].id)
        OBVIOUS
      <4>1. CASE i = n
        BY <1>h, <2>2, <2>4, <2>5, <4>1 DEF HoldersInv
      <4>2. CASE i # n
        BY <1>h, <2>3, <2>5, <4>2 DEF HoldersInv
      <4> QED  BY <4>1, <4>2
    <3> QED  BY <3>1, <3>2, <3>3, <3>4, <3>5 DEF HoldersInv
  <2>8. JobsInv'
    BY <1>h, <2>1, JobsGo
  <2>9. NamesInv' /\ ClosingInv'
    BY <1>h, <2>1, NamesSame, ClosingKept DEF threadVars, bounds
  <2> QED  BY <2>7, <2>8, <2>9 DEF OwnersInv
<1>4. ASSUME NEW id \in Id, NEW cmd \in {"K", "Kill", "S"}, Control(w, cmd, id) PROVE OwnersInv'
  <2>1. /\ pipe' = Append(pipe, Req(cmd, id, 0))
        /\ UNCHANGED <<sock, threadVars, workerVars, nmsg, from, alloc_id, told, freed, wire, marks, failed>>
    BY <1>4 DEF Control
  <2>0. Req(cmd, id, 0) \in Requests
    <3>1. id \in 0 .. MaxId
      BY SocketAssumption DEF Id
    <3> QED  BY <3>1, ReqType DEF Closing
  <2>n. PICK n : n = Len(pipe) + 1
    OBVIOUS
  <2>2. /\ DOMAIN pipe' = 1 .. n /\ DOMAIN pipe = 1 .. Len(pipe) /\ Len(pipe) \in Nat /\ pipe'[n] = Req(cmd, id, 0)
        /\ \A i \in DOMAIN pipe : pipe'[i] = pipe[i]
    BY <1>t, <2>0, <2>1, <2>n, AppendIs
  <2>3. \A i \in DOMAIN pipe' : i # n => i \in DOMAIN pipe /\ pipe'[i] = pipe[i] /\ (Asks(i)' <=> Asks(i))
    BY <2>n, <2>2 DEF Asks
  <2>4. ~Asks(n)'
    BY <1>r, <2>2 DEF Asks, Opening
  <2>5. \A v \in Worker : (Held(v)' <=> Held(v)) /\ job'[v] = job[v]
    BY <2>1 DEF Held, workerVars
  <2>6. \A x : Reserved(x) => Reserved(x)'
    BY <2>1 DEF Reserved, told
  <2>7. HoldersInv'
    <3>1. \A v \in Worker : Held(v)' => Reserved(job[v].id)'
      <4> SUFFICES ASSUME NEW v \in Worker, Held(v)', NEW x, x = job'[v].id PROVE Reserved(x)'
        BY DEF Reserved
      <4> QED  BY <1>h, <2>5, <2>6 DEF HoldersInv
    <3>2. \A i \in DOMAIN pipe' : Asks(i)' => Reserved(pipe[i].id)'
      <4> SUFFICES ASSUME NEW i \in DOMAIN pipe', Asks(i)', NEW x, x = pipe'[i].id PROVE Reserved(x)'
        BY DEF Reserved
      <4> QED  BY <1>h, <2>3, <2>4, <2>6 DEF HoldersInv
    <3> QED  BY <1>h, <2>3, <2>4, <2>5, <3>1, <3>2 DEF HoldersInv
  <2>8. JobsInv' /\ NamesInv' /\ ClosingInv'
    BY <1>h, <2>1, NamesSame, ClosingKept DEF threadVars, workerVars, told, JobsInv
  <2> QED  BY <2>7, <2>8 DEF OwnersInv
<1>5. ASSUME NEW id \in Id, NEW cmd \in {"D", "P"}, Send(w, cmd, id) PROVE OwnersInv'
  <2>1. /\ nmsg' \in Msg /\ at[w] = "idle"
        /\ Goes(w, IF cmd = "D" THEN "try" ELSE "inc", Req(cmd, id, nmsg')) \/ UNCHANGED workerVars
        /\ UNCHANGED <<sock, pipe, threadVars, nctl, alloc_id, told, wire, marks, failed>>
    BY <1>5, SendEffect
  <2>2. HoldersInv'
    <3>1. \A v \in Worker : v # w => at'[v] = at[v] /\ job'[v] = job[v]
      BY <2>1 DEF Goes, workerVars
    <3>2. ~Held(w)'
      BY <2>1 DEF Held, Goes, workerVars
    <3> QED  BY <1>h, <2>1, <3>1, <3>2, HoldersGoOn DEF told
  <2>3. JobsInv'
    <3>1. CASE UNCHANGED workerVars
      BY <1>h, <3>1 DEF JobsInv, workerVars
    <3>2. CASE Goes(w, IF cmd = "D" THEN "try" ELSE "inc", Req(cmd, id, nmsg'))
      <4>1. (IF cmd = "D" THEN "try" ELSE "inc") # "reserve" /\ cmd \in Sending
        BY DEF Sending
      <4> QED  BY <1>h, <1>r, <3>2, <4>1, JobsGo
    <3> QED  BY <2>1, <3>1, <3>2
  <2>4. NamesInv' /\ ClosingInv'
    BY <1>h, <2>1, NamesSame, ClosingKept DEF threadVars, told
  <2> QED  BY <2>2, <2>3, <2>4 DEF OwnersInv
<1>n. \A k \in Slot : Named(k)
  BY <1>h DEF NamesInv
<1>6. ASSUME NEW k \in Slot, NEW a, NEW j, at[w] \in {"try", "locked", "inc"}, Goes(w, a, j), a \in {"locked", "inc", "idle", "pipe"},
             a = "pipe" => j = job[w] /\ job[w].cmd \in Sending, a = "inc" => j = job[w], JobsInv,
             \/ UNCHANGED sock
             \/ /\ OneSlot(k) /\ sock'[k].type = sock[k].type /\ sock'[k].id = sock[k].id
                /\ sock'[k].protocol = sock[k].protocol /\ sock'[k].tag = sock[k].tag
                /\ sock'[k].high = sock[k].high /\ sock'[k].low = sock[k].low,
             UNCHANGED <<pipe, threadVars, bounds, told>>
      PROVE OwnersInv'
  <2>1. ~Held(w)'
    BY <1>6, <1>j DEF Held, Goes
  <2>2. HoldersInv'
    BY <1>h, <1>6, <2>1, HoldersGoOn DEF Goes, OneSlot, told, bounds
  <2>3. JobsInv'
    BY <1>j, <1>6, JobsGo DEF JobsInv, Sending
  <2>4. NamesInv'
    <3>1. CASE UNCHANGED sock
      BY <1>h, <1>6, <3>1, NamesSame DEF told, bounds
    <3>2. CASE /\ OneSlot(k) /\ sock'[k].type = sock[k].type /\ sock'[k].id = sock[k].id
               /\ sock'[k].protocol = sock[k].protocol /\ sock'[k].tag = sock[k].tag
      <4>1. Named(k)'
        BY <1>n, <1>6, <3>2 DEF Named, bounds
      <4> QED  BY <1>h, <1>o, <1>t, <1>6, <3>2, <4>1, NamesOne DEF bounds, told
    <3> QED  BY <1>6, <3>1, <3>2
  <2>5. ClosingInv'
    BY <1>h, <1>6, ClosingKept DEF OneSlot, threadVars
  <2> QED  BY <2>2, <2>3, <2>4, <2>5 DEF OwnersInv
<1>7. CASE TryDirectWrite(w)
  BY <1>6, <1>7, <1>h, <1>j, TryEffect DEF Keeps, SameLists, SameName
<1>8. CASE DirectWrite(w)
  <2>1. LET k == Hash(job[w].id)
            s == sock[k]
            t == sock'[k]
        IN  /\ at[w] = "locked" /\ OneSlot(k) /\ t.type = s.type /\ SameName(s, t) /\ t.high = s.high /\ t.low = s.low
            /\ Goes(w, "inc", job[w]) \/ Goes(w, "idle", NoReq)
            /\ UNCHANGED <<pipe, threadVars, bounds, told, marks, failed>>
    BY <1>8, DirectWriteEffect DEF Keeps, SameLists
  <2> QED  BY <1>6, <1>h, <1>j, <2>1 DEF SameName
<1>9. CASE IncSendingRef(w)
  <2>1. LET k == Hash(job[w].id)
            s == sock[k]
            t == sock'[k]
        IN  /\ at[w] = "inc" /\ Goes(w, "pipe", job[w]) /\ OneSlot(k)
            /\ t.type = s.type /\ t.id = s.id /\ t.protocol = s.protocol /\ t.tag = s.tag
            /\ t.high = s.high /\ t.low = s.low
            /\ UNCHANGED <<pipe, threadVars, job, bounds, told, freed, wire, marks, failed>>
    BY <1>9, IncEffect DEF SameLists
  <2>2. job[w].cmd \in Sending
    BY <1>h, <2>1 DEF JobsInv
  <2> QED  BY <1>6, <1>h, <1>j, <2>1, <2>2
<1> QED  BY <1>1, <1>2, <1>3, <1>4, <1>5, <1>7, <1>8, <1>9 DEF Request, WorkerStep

(* The request that the socket thread takes from the pipe. *)
LEMMA TakenIs ==
    ASSUME TypeOK, pipe # <<>>
    PROVE  /\ Cmd \in Requests /\ Cmd.id \in 0 .. MaxId /\ Cmd.id \in Nat /\ Hash(Cmd.id) \in Slot
           /\ 1 \in DOMAIN pipe /\ Cmd = pipe[1] /\ Tail(pipe) # pipe
           /\ (Cmd.cmd \in Opening => Asks(1)) /\ (Cmd.cmd \in Sending => Cmd.m \in Msg)
<1>1. Cmd \in Requests /\ Cmd.id \in 0 .. MaxId /\ Cmd.id \in Nat /\ Hash(Cmd.id) \in Slot
  BY CmdType, HashRange
<1>2. 1 \in DOMAIN pipe /\ Cmd = pipe[1] /\ Len(Tail(pipe)) = Len(pipe) - 1 /\ Len(pipe) \in Nat
  <2>1. pipe \in Seq(Requests)
    BY DEF TypeOK
  <2> QED  BY <2>1, TailIs DEF Cmd
<1>3. Tail(pipe) # pipe
  <2> SUFFICES ASSUME Tail(pipe) = pipe PROVE FALSE
    OBVIOUS
  <2> DEFINE n == Len(pipe)
  <2>1. n = n - 1 /\ n \in Nat
    BY <1>2
  <2> HIDE DEF n
  <2> QED  BY <2>1
<1>4. Cmd.cmd \in Sending => Cmd.m \in Msg
  BY <1>1 DEF Requests, Opening, Closing, Sending
<1> QED  BY <1>1, <1>2, <1>3, <1>4 DEF Asks

(* force_close up to its lock, when its assertion holds *)
LEMMA FreeListsEffect ==
    ASSUME TypeOK, NEW k \in Slot, NEW then, FreeLists(k, then), failed' = {}
    PROVE  /\ sock[k].type # "RESERVE" /\ FreeMsgs(Msgs(sock[k].high) \cup Msgs(sock[k].low))
           /\ phase' = "free" /\ closing'.cmd = then /\ closing'.id = sock[k].id
           /\ OneSlot(k)
           /\ LET s == sock[k]
                  t == sock'[k]
              IN  /\ t.high = <<>> /\ t.low = <<>> /\ t.dw = s.dw /\ t.type = s.type
                  /\ SameName(s, t) /\ SameEvents(s, t) /\ t.lock = s.lock
           /\ cut' = IF sock[k].high # <<>> /\ Head(sock[k].high).off > 0 THEN cut \cup {sock[k].id} ELSE cut
<1>1. /\ failed' = failed \cup Broken("reserve", sock[k].type # "RESERVE")
      /\ FreeMsgs(Msgs(sock[k].high) \cup Msgs(sock[k].low))
      /\ cut' = (IF sock[k].high # <<>> /\ Head(sock[k].high).off > 0 THEN cut \cup {sock[k].id} ELSE cut)
      /\ phase' = "free" /\ closing' = Req(then, sock[k].id, 0)
  BY DEF FreeLists
<1>2. sock[k].type # "RESERVE"
  BY <1>1 DEF Broken
<1>3. closing'.cmd = then /\ closing'.id = sock[k].id
  BY <1>1 DEF Req
<1> QED  BY <1>1, <1>2, <1>3, FreeDoes

(* The slot that a command opens *)
NewSlot(k, type, polled, write) ==
    LET s == sock[k]
        t == sock'[k]
    IN  /\ s.type = "RESERVE" /\ s.high = <<>> /\ s.low = <<>>
        /\ t.type = type /\ t.id = Cmd.id /\ t.protocol = "TCP" /\ t.tag = Cmd.id /\ t.sending = 0
        /\ t.high = <<>> /\ t.low = <<>> /\ t.dw = <<>> /\ t.lock = s.lock
        /\ t.polled = polled /\ t.write = write

(* open_socket, listen_socket and bind_socket, when their assertion holds. *)
LEMMA OpenEffect ==
    ASSUME TypeOK, OpenSocket, failed' = {}
    PROVE  LET k == Hash(Cmd.id)
               s == sock[k]
               t == sock'[k]
           IN  /\ phase = "ctrl" /\ pipe # <<>> /\ Cmd.cmd \in Opening /\ pipe' = Tail(pipe) /\ OneSlot(k)
               /\ \/ /\ UNCHANGED <<phase, closing, reported>>
                     /\ \/ NewSlot(k, "CONNECTED", TRUE, FALSE) /\ opened' = opened \cup {Cmd.id}
                        \/ NewSlot(k, "CONNECTING", TRUE, TRUE) /\ UNCHANGED opened
                        \/ NewSlot(k, "PLISTEN", FALSE, FALSE) /\ UNCHANGED opened
                        \/ NewSlot(k, "BIND", TRUE, FALSE) /\ opened' = opened \cup {Cmd.id} /\ Cmd.cmd = "B"
                  \/ /\ t.type = "INVALID" /\ SameName(s, t) /\ SameLists(s, t) /\ SameEvents(s, t) /\ t.lock = s.lock
                     /\ phase' = "clear" /\ UNCHANGED opened
               /\ UNCHANGED <<ev, workerVars, bounds, ids, freed, wire, marks>>
<1>1. /\ phase = "ctrl" /\ pipe # <<>> /\ Cmd.cmd \in Opening /\ pipe' = Tail(pipe)
      /\ UNCHANGED <<ev, workerVars, bounds, ids, freed, wire, marks>>
  BY DEF OpenSocket, Command, Opening
<1>2. Cmd.id \in 0 .. MaxId /\ Hash(Cmd.id) \in Slot
  BY <1>1, TakenIs
<1>3. ASSUME NEW type \in Types, NEW polled \in BOOLEAN, NEW write \in BOOLEAN, NewFd(Cmd.id, type, polled, write)
      PROVE  NewSlot(Hash(Cmd.id), type, polled, write) /\ OneSlot(Hash(Cmd.id))
  <2>1. sock[Hash(Cmd.id)].type = "RESERVE" /\ SendBufferEmpty(sock[Hash(Cmd.id)])
    BY <1>3 DEF NewFd, Broken
  <2> QED  BY <1>2, <1>3, <2>1, NewFdDoes DEF NewSlot, SendBufferEmpty
<1>4. "CONNECTED" \in Types /\ "CONNECTING" \in Types /\ "PLISTEN" \in Types /\ "BIND" \in Types /\ "INVALID" \in Types
  BY DEF Types
<1>5. ASSUME sock' = [sock EXCEPT ![Hash(Cmd.id)].type = "INVALID"]
      PROVE  LET s == sock[Hash(Cmd.id)]
                 t == sock'[Hash(Cmd.id)]
             IN  /\ t.type = "INVALID" /\ SameName(s, t) /\ SameLists(s, t) /\ SameEvents(s, t) /\ t.lock = s.lock
                 /\ OneSlot(Hash(Cmd.id))
  <2>1. sock[Hash(Cmd.id)] \in Socket
    BY <1>2 DEF TypeOK
  <2>2. sock[Hash(Cmd.id)].polled \in BOOLEAN /\ sock[Hash(Cmd.id)].write \in BOOLEAN
    BY <2>1 DEF Socket
  <2> QED  BY <1>2, <1>4, <1>5, <2>2, TypeDoes DEF SameEvents
<1>6. \/ /\ UNCHANGED <<phase, closing, reported>>
         /\ \/ NewFd(Cmd.id, "CONNECTED", TRUE, FALSE) /\ opened' = opened \cup {Cmd.id}
            \/ NewFd(Cmd.id, "CONNECTING", TRUE, TRUE) /\ UNCHANGED opened
            \/ NewFd(Cmd.id, "PLISTEN", FALSE, FALSE) /\ UNCHANGED opened
            \/ NewFd(Cmd.id, "BIND", TRUE, FALSE) /\ opened' = opened \cup {Cmd.id} /\ Cmd.cmd = "B"
      \/ sock' = [sock EXCEPT ![Hash(Cmd.id)].type = "INVALID"] /\ phase' = "clear" /\ UNCHANGED opened
  BY DEF OpenSocket
<1> QED  BY <1>1, <1>3, <1>4, <1>5, <1>6

(* The owners, after a step of the socket thread that writes one slot or   *)
(* none.                                                                   *)
LEMMA OwnersStep ==
    ASSUME TypeOK, OwnersInv, UNCHANGED workerVars, alloc_id' \in Nat, alloc_id <= alloc_id',
           pipe' = pipe \/ (pipe # <<>> /\ pipe' = Tail(pipe)), NEW k \in Slot,
           UNCHANGED sock \/ (OneSlot(k) /\ Named(k)'),
           sock[k].type = "RESERVE" => sock'[k].type = "RESERVE" \/ (pipe' # pipe /\ Asks(1) /\ Hash(Cmd.id) = k),
           \A x \in opened' : \/ x \in opened
                              \/ /\ x \in Id /\ x <= alloc_id'
                                 /\ \/ sock[Hash(x)].type # "RESERVE"
                                    \/ pipe' # pipe /\ Asks(1) /\ Hash(Cmd.id) = Hash(x),
           ClosingInv'
    PROVE  OwnersInv'
<1>h. HoldersInv /\ JobsInv /\ NamesInv
  BY DEF OwnersInv
<1>t. alloc_id \in Nat
  <2>1. alloc_id \in 0 .. MaxId
    BY DEF TypeOK
  <2> QED  BY <2>1
<1>1. HoldersInv'
  <2> SUFFICES ASSUME NEW id \in Id, Reserved(id), pipe' # pipe /\ Asks(1) => Hash(id) # Hash(Cmd.id) PROVE Reserved(id)'
    BY <1>h, HoldersKept
  <2>1. id \in Nat /\ Hash(id) \in Slot /\ id <= alloc_id'
    BY <1>t, HashRange DEF Id, Reserved
  <2>2. id \notin opened'
    BY DEF Reserved
  <2>3. sock'[Hash(id)].type = "RESERVE"
    BY <2>1 DEF OneSlot, Reserved
  <2> QED  BY <2>1, <2>2, <2>3 DEF Reserved
<1>2. JobsInv'
  BY <1>h DEF JobsInv, workerVars
<1>3. \A x \in opened' : x \in Id /\ x <= alloc_id'
  BY <1>h, <1>t DEF NamesInv, Id
<1>4. NamesInv'
  <2>1. CASE UNCHANGED sock
    <3> SUFFICES ASSUME NEW j \in Slot PROVE Named(j)'
      BY <1>3 DEF NamesInv
    <3>1. Named(j) /\ sock'[j] = sock[j] /\ sock[j] \in Socket
      BY <1>h, <2>1 DEF NamesInv, TypeOK
    <3>2. sock[j].id \in Nat
      BY <3>1 DEF Socket
    <3> QED  BY <1>t, <3>1, <3>2 DEF Named
  <2>2. CASE OneSlot(k) /\ Named(k)'
    BY <1>h, <1>3, <2>2, NamesOne
  <2> QED  BY <2>1, <2>2
<1> QED  BY <1>1, <1>2, <1>4 DEF OwnersInv

(* A slot that keeps its name and is not opened keeps what Named says. *)
LEMMA NamedStays ==
    ASSUME NEW k \in Slot, Named(k), OneSlot(k), SameName(sock[k], sock'[k]), UNCHANGED alloc_id,
           sock'[k].type \in Open => sock[k].type \in Open
    PROVE  Named(k)'
BY DEF Named, SameName

(* force_close up to its lock keeps the owners. *)
LEMMA FreeListsOwners ==
    ASSUME TypeOK, OwnersInv, NEW k \in Slot, NEW then \in {"clear", "events"}, FreeLists(k, then), failed' = {},
           sock[k].type # "INVALID", UNCHANGED alloc_id
    PROVE  OneSlot(k) /\ Named(k)' /\ ClosingInv' /\ sock[k].type # "RESERVE"
<1>1. /\ sock[k].type # "RESERVE"
      /\ phase' = "free" /\ closing'.cmd = then /\ closing'.id = sock[k].id
      /\ OneSlot(k)
      /\ sock'[k].high = <<>> /\ sock'[k].low = <<>> /\ sock'[k].type = sock[k].type
      /\ SameName(sock[k], sock'[k])
  BY FreeListsEffect
<1>2. Named(k) /\ sock[k] \in Socket
  BY DEF OwnersInv, NamesInv, TypeOK
<1>3. sock[k].type \in Open
  BY <1>1, <1>2 DEF Socket, Open
<1>4. Named(k)'
  BY <1>1, <1>2, NamedStays
<1>5. Hash(closing'.id) = k
  BY <1>1, <1>2, <1>3 DEF Named
<1>6. ClosingInv'
  <2>1. closing'.cmd \in {"clear", "events"}
    BY <1>1
  <2>2. sock'[k].id = sock[k].id
    BY <1>1 DEF SameName
  <2> QED  BY <1>1, <1>3, <1>5, <2>1, <2>2 DEF ClosingInv
<1> QED  BY <1>1, <1>4, <1>6

(* Where the socket thread goes after send_buffer *)
LEMMA SendBufferTurns ==
    ASSUME TypeOK, NEW k \in Slot, NEW n \in Nat, NEW err, NEW ifClosed, NEW ifNot,
           SendBuffer(k, n, err, ifClosed, ifNot)
    PROVE  \/ sock'[k].type = "INVALID" /\ phase' = ifClosed
           \/ sock'[k].type = sock[k].type /\ phase' = ifNot
<1> DEFINE s == WithDirectWrite(sock[k])
           t == Sent(s, n)
           c == Closed(t)
           close == err \/ (SendBufferEmpty(t) /\ s.type = "HALFCLOSE")
<1>1. sock' = [sock EXCEPT ![k] = IF close THEN c ELSE t] /\ phase' = IF close THEN ifClosed ELSE ifNot
  BY DEF SendBuffer
<1>2. s \in Socket /\ s.type = sock[k].type
  BY WithDirectWriteIs DEF SameSocket, TypeOK
<1> HIDE DEF s
<1>3. t \in Socket /\ t.type = s.type
  BY <1>2, SentIs DEF SameSocket
<1> HIDE DEF t
<1>4. c.type = "INVALID"
  BY <1>3, ClosedIs
<1> HIDE DEF c, close
<1>5. sock'[k] = IF close THEN c ELSE t
  BY <1>1 DEF TypeOK
<1>6. CASE close
  BY <1>1, <1>4, <1>5, <1>6
<1>7. CASE ~close
  BY <1>1, <1>2, <1>3, <1>5, <1>7
<1> QED  BY <1>6, <1>7

(* send_buffer keeps the name of its slot. *)
LEMMA SendBufferOwners ==
    ASSUME TypeOK, OwnersInv, NEW k \in Slot, NEW n \in Nat, NEW err, NEW ifClosed, NEW ifNot,
           SendBuffer(k, n, err, ifClosed, ifNot), UNCHANGED alloc_id
    PROVE  /\ OneSlot(k) /\ Named(k)' /\ SameName(sock[k], sock'[k])
           /\ \/ sock'[k].type = "INVALID" /\ phase' = ifClosed
              \/ sock'[k].type = sock[k].type /\ phase' = ifNot
<1>1. /\ OneSlot(k) /\ SameName(sock[k], sock'[k])
      /\ \/ sock'[k].type = "INVALID" /\ phase' = ifClosed
         \/ sock'[k].type = sock[k].type /\ phase' = ifNot
  <2>1. OneSlot(k) /\ SameName(sock[k], sock'[k])
    BY SendBufferDoes
  <2>2. \/ sock'[k].type = "INVALID" /\ phase' = ifClosed
        \/ sock'[k].type = sock[k].type /\ phase' = ifNot
    BY SendBufferTurns
  <2> QED  BY <2>1, <2>2
<1>2. Named(k)
  BY DEF OwnersInv, NamesInv
<1>3. sock'[k].type \in Open => sock[k].type \in Open
  BY <1>1 DEF Open
<1> QED  BY <1>1, <1>2, <1>3, NamedStays

(* The socket thread keeps the slots owned. *)
LEMMA OwnersThread ==
    ASSUME TypeOK, OwnersInv, SocketThread, Sound'
    PROVE  OwnersInv'
<1>h. HoldersInv /\ JobsInv /\ NamesInv /\ ClosingInv
  BY DEF OwnersInv
<1>f. failed' = {} /\ ~strayed'
  BY DEF Sound
<1>t0. alloc_id \in Nat /\ closing.id \in Nat /\ Hash(closing.id) \in Slot
  <2>1. alloc_id \in 0 .. MaxId /\ closing \in Requests
    BY DEF TypeOK
  <2> QED  BY <2>1, RequestType, HashRange
<1>c. PICK c : c = Hash(closing.id)
  OBVIOUS
<1>t. alloc_id \in Nat /\ closing.id \in Nat /\ c \in Slot
  BY <1>t0, <1>c
<1>k. PICK k : k = Hash(Cmd.id)
  OBVIOUS
<1>s. \A j \in Slot : sock[j] \in Socket /\ sock[j].type \in Types /\ Named(j)
                      /\ sock[j].polled \in BOOLEAN /\ sock[j].write \in BOOLEAN
  <2> SUFFICES ASSUME NEW j \in Slot PROVE sock[j] \in Socket /\ sock[j].type \in Types /\ Named(j)
                                           /\ sock[j].polled \in BOOLEAN /\ sock[j].write \in BOOLEAN
    OBVIOUS
  <2>1. sock[j] \in Socket /\ Named(j)
    BY <1>h DEF TypeOK, NamesInv
  <2> QED  BY <2>1 DEF Socket
<1>q. pipe # <<>> =>
           /\ Cmd \in Requests /\ Cmd.id \in 0 .. MaxId /\ Cmd.id \in Nat /\ Hash(Cmd.id) \in Slot
           /\ 1 \in DOMAIN pipe /\ Cmd = pipe[1] /\ Tail(pipe) # pipe
           /\ (Cmd.cmd \in Opening => Asks(1)) /\ (Cmd.cmd \in Sending => Cmd.m \in Msg)
  BY TakenIs
<1>e. \A e \in ev : e.slot \in Slot
  BY DEF TypeOK
<1>1. CASE ForceClose
  <2>1. /\ phase = "free" /\ sock' = [sock EXCEPT ![c] = Closed(@)]
        /\ phase' = closing.cmd
        /\ UNCHANGED <<pipe, ev, closing, workerVars, bounds, ids, opened, wire, marks, failed>>
    BY <1>c, <1>1 DEF ForceClose
  <2>2. OneSlot(c) /\ sock'[c].type = "INVALID" /\ SameName(sock[c], sock'[c])
    BY <1>t, <2>1, ClosedDoes
  <2>3. ClosingInv' /\ sock[c].type # "RESERVE"
    BY <1>c, <1>h, <2>1 DEF ClosingInv, Open
  <2>4. Named(c)'
    BY <1>s, <1>t, <2>1, <2>2, NamedStays DEF bounds, Open
  <2> QED  BY <1>t, <2>1, <2>2, <2>3, <2>4, OwnersStep DEF bounds
<1>2. CASE ClearClosedEvent
  <2>1. /\ phase' = "ctrl" /\ UNCHANGED <<sock, pipe, workerVars, bounds, told, freed, wire, marks, failed>>
    BY <1>2 DEF ClearClosedEvent
  <2>2. ClosingInv'
    BY <2>1 DEF ClosingInv
  <2> QED  BY <1>t, <2>1, <2>2, OwnersStep DEF bounds, told
<1>3. CASE CloseOrHalf
  <2>1. phase = "close" /\ UNCHANGED <<pipe, ev, workerVars, bounds, told, wire>>
    BY <1>3 DEF CloseOrHalf
  <2>2. sock[c].type \in Open /\ sock[c].type # "INVALID" /\ sock[c].type # "RESERVE"
    BY <1>c, <1>h, <2>1 DEF ClosingInv, Open
  <2>3. CASE FreeLists(c, "clear")
    <3>1. OneSlot(c) /\ Named(c)' /\ ClosingInv'
      BY <1>f, <1>t, <2>1, <2>2, <2>3, FreeListsOwners DEF bounds
    <3> QED  BY <1>t, <2>1, <2>2, <3>1, OwnersStep DEF bounds, told
  <2>4. CASE sock' = [sock EXCEPT ![c].type = "HALFCLOSE"] /\ phase' = "ctrl"
    <3>1. "HALFCLOSE" \in Types
      BY DEF Types
    <3>2. OneSlot(c) /\ SameName(sock[c], sock'[c])
      BY <1>s, <1>t, <2>4, <3>1, TypeDoes
    <3>3. Named(c)' /\ ClosingInv'
      BY <1>s, <1>t, <2>1, <2>2, <2>4, <3>2, NamedStays DEF bounds, ClosingInv
    <3> QED  BY <1>t, <2>1, <2>2, <3>2, <3>3, OwnersStep DEF bounds, told
  <2> QED  BY <1>c, <1>3, <2>3, <2>4 DEF CloseOrHalf
<1>4. CASE OpenSocket
  <2>1. LET s == sock[k]
               t == sock'[k]
           IN  /\ phase = "ctrl" /\ pipe # <<>> /\ Cmd.cmd \in Opening /\ pipe' = Tail(pipe) /\ OneSlot(k)
               /\ \/ /\ t.id = Cmd.id /\ t.protocol = "TCP" /\ t.tag = Cmd.id /\ UNCHANGED <<phase, closing>>
                     /\ opened' = opened \cup {Cmd.id} \/ UNCHANGED opened
                  \/ t.type = "INVALID" /\ SameName(s, t) /\ phase' = "clear" /\ UNCHANGED opened
               /\ UNCHANGED <<ev, workerVars, bounds, ids, freed, wire, marks>>
    BY <1>k, <1>4, <1>f, OpenEffect DEF NewSlot
  <2>2. Asks(1) /\ Reserved(Cmd.id) /\ pipe' # pipe /\ k \in Slot
    BY <1>k, <1>h, <1>q, <2>1 DEF HoldersInv
  <2>3. Named(k)'
    <3>1. CASE sock'[k].id = Cmd.id /\ sock'[k].protocol = "TCP" /\ sock'[k].tag = Cmd.id
      BY <1>k, <2>1, <2>2, <3>1 DEF Named, Reserved, bounds
    <3>2. CASE sock'[k].type = "INVALID" /\ SameName(sock[k], sock'[k])
      BY <1>s, <2>1, <2>2, <3>2, NamedStays DEF bounds, Open
    <3> QED  BY <2>1, <3>1, <3>2
  <2>4. ClosingInv'
    BY <2>1 DEF ClosingInv
  <2>5. \A x \in opened' : x \in opened \/ (x \in Id /\ x <= alloc_id' /\ k = Hash(x))
    BY <1>k, <2>1, <2>2 DEF Reserved, bounds
  <2> QED  BY <1>t, <2>1, <2>2, <2>3, <2>4, <2>5, <1>k, OwnersStep DEF bounds
<1>5. CASE StartSocket
  <2>1. /\ phase = "ctrl" /\ pipe # <<>> /\ pipe' = Tail(pipe) /\ UNCHANGED <<ev, workerVars, bounds, ids, wire>>
    BY <1>5 DEF StartSocket, Command
  <2>2. k \in Slot
    BY <1>k, <1>q, <2>1
  <2>3. CASE sock' = sock /\ phase' = "clear" /\ opened' = opened
    <3>1. ClosingInv'
      BY <2>3 DEF ClosingInv
    <3> QED  BY <1>t, <2>1, <2>2, <2>3, <3>1, <1>k, OwnersStep DEF bounds
  <2>4. CASE /\ Live(Cmd.id) /\ sock[k].type \in {"PACCEPT", "PLISTEN"} /\ phase' = phase
             /\ opened' = opened \cup {Cmd.id}
             /\ \E type \in {"CONNECTED", "LISTEN"} : sock' = [sock EXCEPT ![k].polled = TRUE, ![k].type = type]
    <3>1. PICK type \in {"CONNECTED", "LISTEN"} : sock' = [sock EXCEPT ![k].polled = TRUE, ![k].type = type]
      BY <2>4
    <3>2. type \in Types /\ sock[k].write \in BOOLEAN
      BY <1>s, <2>2 DEF Types
    <3>3. OneSlot(k) /\ SameName(sock[k], sock'[k])
      BY <2>2, <3>1, <3>2, TypeDoes
    <3>4. sock[k].type \in Open /\ sock[k].type # "RESERVE"
      BY <1>s, <2>2, <2>4 DEF Open
    <3>5. Named(k)' /\ ClosingInv'
      BY <1>s, <2>1, <2>2, <2>4, <3>3, <3>4, NamedStays DEF bounds, ClosingInv
    <3>6. Cmd.id \in Id /\ Cmd.id <= alloc_id
      BY <1>k, <1>s, <2>2, <2>4, <3>4 DEF Named, Live
    <3> QED  BY <1>t, <2>1, <2>2, <2>4, <3>3, <3>4, <3>5, <3>6, <1>k, OwnersStep DEF bounds
  <2>5. CASE Live(Cmd.id) /\ FreeLists(k, "clear") /\ opened' = opened
    <3>1. OneSlot(k) /\ Named(k)' /\ ClosingInv' /\ sock[k].type # "RESERVE"
      BY <1>k, <1>f, <2>1, <2>2, <2>5, FreeListsOwners DEF bounds, Live
    <3> QED  BY <1>t, <2>1, <2>2, <2>5, <3>1, <1>k, OwnersStep DEF bounds
  <2>6. CASE Live(Cmd.id) /\ sock[k].type = "CONNECTED" /\ opened' = opened \cup {Cmd.id} /\ sock' = sock /\ phase' = phase
    <3>1. sock[k].type \in Open /\ sock[k].type # "RESERVE"
      BY <1>s, <2>2, <2>6 DEF Open
    <3>2. Cmd.id \in Id /\ Cmd.id <= alloc_id
      BY <1>k, <1>s, <2>2, <2>6, <3>1 DEF Named, Live
    <3>3. ClosingInv'
      BY <2>1, <2>6 DEF ClosingInv
    <3> QED  BY <1>t, <2>1, <2>2, <2>6, <3>1, <3>2, <3>3, <1>k, OwnersStep DEF bounds
  <2>7. CASE sock' = sock /\ phase' = phase /\ opened' = opened
    <3>1. ClosingInv'
      BY <2>1, <2>7 DEF ClosingInv
    <3> QED  BY <1>t, <2>1, <2>2, <2>7, <3>1, <1>k, OwnersStep DEF bounds
  <2> QED  BY <1>k, <1>5, <2>3, <2>4, <2>5, <2>6, <2>7 DEF StartSocket
<1>6. CASE CloseSocket
  <2>1. /\ phase = "ctrl" /\ pipe # <<>> /\ pipe' = Tail(pipe) /\ UNCHANGED <<ev, workerVars, bounds, ids, opened>> /\ closing' = Cmd
        /\ strayed' = (strayed \/ (Live(Cmd.id) /\ sock[k].type = "RESERVE"))
    BY <1>k, <1>6 DEF CloseSocket, Command
  <2>2. k \in Slot
    BY <1>k, <1>q, <2>1
  <2>3. CASE sock' = sock /\ phase' = "clear"
    <3>1. ClosingInv'
      BY <2>3 DEF ClosingInv
    <3> QED  BY <1>t, <2>1, <2>2, <2>3, <3>1, <1>k, OwnersStep DEF bounds
  <2>o. Live(Cmd.id) => sock[k].type \in Open /\ sock[k].type # "RESERVE" /\ sock[k].id = Cmd.id
    BY <1>k, <1>f, <1>s, <2>1, <2>2 DEF Live, Open
  <2>4. CASE Live(Cmd.id) /\ sock' = sock /\ phase' = "close"
    <3>1. ClosingInv'
      BY <1>k, <2>1, <2>4, <2>o DEF ClosingInv
    <3> QED  BY <1>t, <2>1, <2>2, <2>4, <3>1, <1>k, OwnersStep DEF bounds
  <2>5. ASSUME Live(Cmd.id), NEW n \in 0 .. MaxMsg * Size, NEW err \in BOOLEAN, SendBuffer(k, n, err, "clear", "close")
        PROVE  OwnersInv'
    <3>0. n \in Nat
      OBVIOUS
    <3>1. /\ OneSlot(k) /\ Named(k)' /\ SameName(sock[k], sock'[k])
          /\ \/ sock'[k].type = "INVALID" /\ phase' = "clear"
             \/ sock'[k].type = sock[k].type /\ phase' = "close"
      BY <2>1, <2>2, <2>5, <3>0, SendBufferOwners DEF bounds
    <3>2. ClosingInv'
      BY <1>k, <2>1, <2>5, <2>o, <3>1 DEF ClosingInv, SameName
    <3> QED  BY <1>t, <2>1, <2>2, <2>5, <2>o, <3>1, <3>2, <1>k, OwnersStep DEF bounds
  <2> QED  BY <1>k, <1>6, <2>3, <2>4, <2>5 DEF CloseSocket
<1>7. CASE SendSocket
  <2>1. /\ phase = "ctrl" /\ pipe # <<>> /\ pipe' = Tail(pipe) /\ Cmd.cmd \in {"D", "P"}
        /\ UNCHANGED <<threadVars, workerVars, bounds, told, wire, cut>>
    BY <1>7 DEF SendSocket, Command
  <2>2. k \in Slot /\ Cmd.m \in Msg
    BY <1>k, <1>q, <2>1 DEF Sending
  <2>3. OneSlot(k) /\ sock'[k].type = sock[k].type /\ sock'[k].id = sock[k].id /\ sock'[k].protocol = sock[k].protocol
        /\ sock'[k].tag = sock[k].tag
    BY <1>k, <1>7, <2>2, SendSocketDoes
  <2>4. Named(k)' /\ ClosingInv'
    BY <1>s, <2>1, <2>2, <2>3 DEF Named, ClosingInv, bounds, threadVars
  <2> QED  BY <1>t, <2>1, <2>2, <2>3, <2>4, <1>k, OwnersStep DEF bounds, told
<1>8. CASE CtrlDone \/ Wait
  <2>1. /\ phase' \in {"events", "ctrl"} /\ UNCHANGED <<sock, pipe, workerVars, bounds, told, freed, wire, marks, failed>>
    BY <1>8 DEF CtrlDone, Wait
  <2>2. ClosingInv'
    BY <2>1 DEF ClosingInv
  <2> QED  BY <1>t, <2>1, <2>2, OwnersStep DEF bounds, told
<1>9. ASSUME NEW e \in ev, ReportConnect(e) PROVE OwnersInv'
  <2>1. /\ phase = "events" /\ sock[e.slot].type = "CONNECTING" /\ UNCHANGED <<pipe, workerVars, bounds, ids, reported, wire>>
        /\ \/ /\ sock' = [sock EXCEPT ![e.slot].type = "CONNECTED", ![e.slot].write = ~NomoreSendingData(sock[e.slot])]
              /\ opened' = opened \cup {sock[e.slot].id}
              /\ UNCHANGED <<phase, closing, freed, marks, failed>>
           \/ FreeLists(e.slot, "events") /\ UNCHANGED opened
    BY <1>9 DEF ReportConnect, Event
  <2>2. CASE FreeLists(e.slot, "events") /\ UNCHANGED opened
    <3>1. OneSlot(e.slot) /\ Named(e.slot)' /\ ClosingInv' /\ sock[e.slot].type # "RESERVE"
      BY <1>e, <1>f, <2>1, <2>2, FreeListsOwners DEF bounds
    <3> QED  BY <1>e, <1>t, <2>1, <2>2, <3>1, OwnersStep DEF bounds
  <2>3. CASE /\ sock' = [sock EXCEPT ![e.slot].type = "CONNECTED", ![e.slot].write = ~NomoreSendingData(sock[e.slot])]
             /\ opened' = opened \cup {sock[e.slot].id} /\ UNCHANGED <<phase, closing, freed, marks, failed>>
    <3>1. "CONNECTED" \in Types /\ (~NomoreSendingData(sock[e.slot])) \in BOOLEAN
      BY DEF Types
    <3>2. OneSlot(e.slot) /\ SameName(sock[e.slot], sock'[e.slot])
      BY <1>e, <1>s, <2>3, <3>1, TypeDoes
    <3>3. sock[e.slot].type \in Open /\ Named(e.slot)
      BY <1>e, <1>s, <2>1 DEF Open
    <3>4. Named(e.slot)' /\ ClosingInv'
      BY <1>e, <2>1, <2>3, <3>2, <3>3, NamedStays DEF bounds, ClosingInv
    <3>5. sock[e.slot].id \in Id /\ sock[e.slot].id <= alloc_id /\ Hash(sock[e.slot].id) = e.slot
      BY <3>3 DEF Named
    <3> QED  BY <1>e, <1>t, <2>1, <2>3, <3>2, <3>4, <3>5, OwnersStep DEF bounds
  <2> QED  BY <2>1, <2>2, <2>3
<1>10. ASSUME NEW e \in ev, ReportAccept(e) PROVE OwnersInv'
  <2>1. /\ phase = "events"
        /\ UNCHANGED <<phase, closing, pipe, workerVars, nmsg, nctl, from, bound, opened, reported, freed, wire, marks, failed>>
        /\ \/ UNCHANGED <<sock, alloc_id, issued>>
           \/ \E id \in alloc_id + 1 .. alloc_id + Slots :
                /\ id <= MaxId /\ alloc_id' = id /\ sock[Hash(id)].type = "INVALID"
                /\ sock' = [sock EXCEPT ![Hash(id)] =
                  [@ EXCEPT !.type = "PACCEPT", !.id = id, !.protocol = "TCP", !.tag = id, !.sending = 0, !.wb = 0]]
    BY <1>10 DEF ReportAccept, Event
  <2>2. ClosingInv'
    BY <2>1 DEF ClosingInv
  <2>3. CASE UNCHANGED <<sock, alloc_id, issued>>
    BY <1>e, <1>t, <2>1, <2>2, <2>3, OwnersStep
  <2>4. ASSUME NEW id \in alloc_id + 1 .. alloc_id + Slots, id <= MaxId, alloc_id' = id, sock[Hash(id)].type = "INVALID",
               sock' = [sock EXCEPT ![Hash(id)] =
                  [@ EXCEPT !.type = "PACCEPT", !.id = id, !.protocol = "TCP", !.tag = id, !.sending = 0, !.wb = 0]]
        PROVE  OwnersInv'
    <3>1. id \in 0 .. MaxId /\ id \in Nat /\ id \in Id /\ alloc_id <= id /\ Hash(id) \in Slot
      <4>1. id \in Nat /\ id \in Id /\ alloc_id <= id
        BY <1>t, <2>4, SocketAssumption DEF Id
      <4>2. Hash(id) \in Slot
        BY <4>1, HashRange
      <4> QED  BY <2>4, <4>1, <4>2, SocketAssumption
    <3>2. /\ OneSlot(Hash(id)) /\ sock'[Hash(id)].id = id /\ sock'[Hash(id)].protocol = "TCP" /\ sock'[Hash(id)].tag = id
      BY <2>4, <3>1, AcceptDoes
    <3>3. Named(Hash(id))'
      BY <2>4, <3>1, <3>2 DEF Named
    <3> QED  BY <2>1, <2>2, <2>4, <3>1, <3>2, <3>3, OwnersStep
  <2> QED  BY <2>1, <2>3, <2>4
<1>11. ASSUME NEW e \in ev, ReadEvent(e) PROVE OwnersInv'
  <2>1. /\ phase = "events" /\ sock[e.slot].type # "INVALID" /\ UNCHANGED <<pipe, workerVars, bounds, told, wire>>
        /\ \/ UNCHANGED <<sock, phase, closing, freed, marks, failed>>
           \/ FreeLists(e.slot, "events")
    BY <1>11 DEF ReadEvent, Event
  <2>2. CASE UNCHANGED <<sock, phase, closing, freed, marks, failed>>
    <3>1. ClosingInv'
      BY <2>1, <2>2 DEF ClosingInv
    <3> QED  BY <1>e, <1>t, <2>1, <2>2, <3>1, OwnersStep DEF bounds, told
  <2>3. CASE FreeLists(e.slot, "events")
    <3>1. OneSlot(e.slot) /\ Named(e.slot)' /\ ClosingInv' /\ sock[e.slot].type # "RESERVE"
      BY <1>e, <1>f, <2>1, <2>3, FreeListsOwners DEF bounds
    <3> QED  BY <1>e, <1>t, <2>1, <3>1, OwnersStep DEF bounds, told
  <2> QED  BY <2>1, <2>2, <2>3
<1>12. ASSUME NEW e \in ev, NEW n \in 0 .. MaxMsg * Size, NEW err \in BOOLEAN, WriteEvent(e, n, err) PROVE OwnersInv'
  <2>1. /\ phase = "events" /\ UNCHANGED <<pipe, closing, workerVars, bounds, ids, opened, marks>>
        /\ \/ sock[e.slot].type # "RESERVE" /\ SendBuffer(e.slot, n, err, "events", "events")
           \/ UNCHANGED <<sock, phase, reported, freed, wire, failed>>
    BY <1>12 DEF WriteEvent, Event
  <2>2. CASE UNCHANGED <<sock, phase, reported, freed, wire, failed>>
    <3>1. ClosingInv'
      BY <2>1, <2>2 DEF ClosingInv
    <3> QED  BY <1>e, <1>t, <2>1, <2>2, <3>1, OwnersStep DEF bounds
  <2>3. CASE sock[e.slot].type # "RESERVE" /\ SendBuffer(e.slot, n, err, "events", "events")
    <3>0. n \in Nat
      OBVIOUS
    <3>1. OneSlot(e.slot) /\ Named(e.slot)' /\ phase' = "events"
      BY <1>e, <2>1, <2>3, <3>0, SendBufferOwners DEF bounds
    <3>2. ClosingInv'
      BY <3>1 DEF ClosingInv
    <3> QED  BY <1>e, <1>t, <2>1, <2>3, <3>1, <3>2, OwnersStep DEF bounds
  <2> QED  BY <2>1, <2>2, <2>3
<1>13. ASSUME NEW e \in ev, SkipEvent(e) PROVE OwnersInv'
  <2>1. phase = "events" /\ UNCHANGED <<sock, phase, closing, pipe, workerVars, bounds, told, freed, wire, marks, failed>>
    BY <1>13 DEF SkipEvent, Event
  <2>2. ClosingInv'
    BY <2>1 DEF ClosingInv
  <2> QED  BY <1>e, <1>t, <2>1, <2>2, OwnersStep DEF bounds, told
<1> QED  BY <1>1, <1>2, <1>3, <1>4, <1>5, <1>6, <1>7, <1>8, <1>9, <1>10, <1>11, <1>12, <1>13 DEF SocketThread

Mute == {"INVALID", "RESERVE", "PLISTEN", "PACCEPT", "LISTEN"}
Full(s) == s.dw # <<>> \/ s.high # <<>> \/ s.low # <<>>

(* The socket thread has looked at the slot for the last time. *)
Leaving(k) == phase \in {"close", "free"} /\ Hash(closing.id) = k

(* The write event of a slot, and what it takes for the slot to be written to *)
Armed(k) ==
    LET s == sock[k]
    IN  /\ s.type \in Mute => ~Full(s)
        /\ s.type \in {"CONNECTING", "CONNECTED"} => s.polled
        /\ s.type = "CONNECTING" => s.write \/ Leaving(k)
        /\ s.type = "BIND" => s.id \in bound
        /\ s.type \in {"CONNECTING", "CONNECTED", "HALFCLOSE"} /\ s.id \notin bound /\ Full(s) => s.polled /\ s.write
BoundInv == \A i \in DOMAIN pipe : pipe[i].cmd = "B" => pipe[i].id \in bound
ArmedInv == (\A k \in Slot : Armed(k)) /\ BoundInv

(* A socket with anything queued is full. *)
LEMMA FullIs == \A s \in Socket : Queued(s) # <<>> => Full(s)
<1> SUFFICES ASSUME NEW s \in Socket, ~Full(s) PROVE Queued(s) = <<>>
  OBVIOUS
<1>1. s.dw = <<>> /\ s.high = <<>> /\ s.low = <<>>
  BY DEF Full
<1>2. <<>> \o <<>> \o <<>> = <<>>
  OBVIOUS
<1> QED  BY <1>1, <1>2 DEF Queued

(* The invariant is about every socket that has something to write. *)
LEMMA ArmedHolds == TypeOK /\ ArmedInv => WriteEventArmed
<1> SUFFICES ASSUME TypeOK, ArmedInv, NEW k \in Slot, ToWrite(sock[k]) PROVE sock[k].polled /\ sock[k].write
  BY DEF WriteEventArmed, TypeOK
<1>1. sock[k] \in Socket
  BY DEF TypeOK
<1> QED  BY <1>1, FullIs DEF ArmedInv, Armed, ToWrite

(* Nothing is open before the first request. *)
LEMMA ArmedInit == Init => ArmedInv
<1> SUFFICES ASSUME Init PROVE ArmedInv
  OBVIOUS
<1>1. pipe = <<>> /\ \A k \in Slot : sock[k].type = "INVALID" /\ ~Full(sock[k])
  BY DEF Init, Slot, Full
<1> QED  BY <1>1 DEF ArmedInv, Armed, BoundInv

(* The armed sockets, after a step that writes one slot. *)
LEMMA ArmedOne ==
    ASSUME ArmedInv, NEW k, OneSlot(k), Armed(k)', bound \subseteq bound', BoundInv',
           \A j \in Slot : j # k /\ Leaving(j) => Leaving(j)'
    PROVE  ArmedInv'
<1>1. \A j \in Slot : j # k => Armed(j)'
  BY DEF ArmedInv, Armed, OneSlot
<1> QED  BY <1>1 DEF ArmedInv

(* The armed sockets, after a step that writes none. *)
LEMMA ArmedSame ==
    ASSUME ArmedInv, UNCHANGED sock, bound \subseteq bound', BoundInv',
           \A j \in Slot : Leaving(j) => Leaving(j)'
    PROVE  ArmedInv'
BY DEF ArmedInv, Armed

(* No request is added, or one that does not bind. *)
LEMMA BoundKept ==
    ASSUME TypeOK, BoundInv, UNCHANGED bound, pipe' = pipe \/ (pipe # <<>> /\ pipe' = Tail(pipe))
    PROVE  BoundInv'
<1>1. CASE pipe' = pipe
  BY <1>1 DEF BoundInv
<1>2. CASE pipe # <<>> /\ pipe' = Tail(pipe)
  <2>1. \A i \in DOMAIN pipe' : i + 1 \in DOMAIN pipe /\ pipe'[i] = pipe[i + 1]
    <3>1. pipe \in Seq(Requests)
      BY DEF TypeOK
    <3> QED  BY <1>2, <3>1, TailIs
  <2> QED  BY <2>1 DEF BoundInv
<1> QED  BY <1>1, <1>2

(* A bind that is put into the pipe is known as one. *)
LEMMA BoundAppended ==
    ASSUME TypeOK, BoundInv, NEW r \in Requests, pipe' = Append(pipe, r), bound \subseteq bound', r.cmd = "B" => r.id \in bound'
    PROVE  BoundInv'
<1>1. pipe \in Seq(Requests)
  BY DEF TypeOK
<1>2. \A i \in DOMAIN pipe' : (i \in DOMAIN pipe /\ pipe'[i] = pipe[i]) \/ pipe'[i] = r
  BY <1>1, AppendIs
<1> QED  BY <1>2 DEF BoundInv

(* Nothing but the event, the type, the count or the lock of a slot *)
LEMMA SentFull ==
    ASSUME NEW s \in Socket, NEW n \in Nat
    PROVE  LET t == Sent(WithDirectWrite(s), n) IN t.high # <<>> \/ t.low # <<>> => Full(s)
<1> SUFFICES ASSUME ~Full(s) PROVE Sent(WithDirectWrite(s), n).high = <<>> /\ Sent(WithDirectWrite(s), n).low = <<>>
  OBVIOUS
<1> DEFINE q == WithDirectWrite(s)
<1>1. s.dw = <<>> /\ s.high = <<>> /\ s.low = <<>> /\ <<>> \o <<>> = <<>>
  BY DEF Full
<1>2. q \in Socket /\ q.high = <<>> /\ q.low = <<>>
  BY <1>1, WithDirectWriteIs DEF SameSocket
<1> HIDE DEF q
<1>3. Left(<<>>) = 0
  BY UnitsEmpty
<1>4. FromHigh(q, n) = 0
  BY <1>2, <1>3 DEF FromHigh
<1>5. \A i : Rest(<<>>, i) = <<>>
  <2> SUFFICES ASSUME NEW i PROVE Rest(<<>>, i) = <<>>
    OBVIOUS
  <2> DEFINE k == Cardinality({j \in DOMAIN <<>> : Left(SubSeq(<<>>, 1, j)) <= i})
  <2>1. k = 0
    <3>1. {j \in DOMAIN <<>> : Left(SubSeq(<<>>, 1, j)) <= i} = {}
      OBVIOUS
    <3> QED  BY <3>1, FS_EmptySet
  <2> HIDE DEF k
  <2>2. SubSeq(<<>>, k + 1, Len(<<>>)) = <<>>
    BY <2>1
  <2> QED  BY <2>2 DEF Rest, k
<1>6. ~Raises(q, n)
  BY <1>2, <1>4, <1>5 DEF Raises
<1>7. /\ Sent(q, n).high = IF Raises(q, n) THEN <<Head(Rest(q.low, n - FromHigh(q, n)))>> ELSE Rest(q.high, FromHigh(q, n))
      /\ Sent(q, n).low = IF Raises(q, n) THEN Tail(Rest(q.low, n - FromHigh(q, n))) ELSE Rest(q.low, n - FromHigh(q, n))
  BY <1>2, SentIs
<1>8. Sent(q, n).high = <<>> /\ Sent(q, n).low = <<>>
  BY <1>2, <1>5, <1>6, <1>7
<1> QED  BY <1>8 DEF q

(* send_buffer disarms the event only when nothing is left. *)
LEMMA SendBufferArmed ==
    ASSUME TypeOK, NEW k \in Slot, NEW n \in Nat, NEW err, NEW ifClosed, NEW ifNot,
           SendBuffer(k, n, err, ifClosed, ifNot), Armed(k), UNCHANGED bound,
           sock[k].type # "CONNECTING" \/ sock'[k].type = "INVALID" \/ Leaving(k)'
    PROVE  Armed(k)' /\ OneSlot(k)
<1> DEFINE t == Sent(WithDirectWrite(sock[k]), n)
           u == sock'[k]
<1>1. /\ OneSlot(k) /\ SameName(sock[k], u)
      /\ \/ u.type = "INVALID" /\ u.high = <<>> /\ u.low = <<>> /\ u.dw = <<>>
         \/ /\ u.type = sock[k].type /\ u.high = t.high /\ u.low = t.low /\ u.dw = <<>>
            /\ u.polled = sock[k].polled
            /\ u.write = (sock[k].write /\ (t.high # <<>> \/ t.low # <<>>))
  BY SendBufferDoes
<1>2. sock[k] \in Socket
  BY DEF TypeOK
<1>3. t.high # <<>> \/ t.low # <<>> => Full(sock[k])
  BY <1>2, SentFull
<1> HIDE DEF t
<1>4. CASE u.type = "INVALID" /\ u.high = <<>> /\ u.low = <<>> /\ u.dw = <<>>
  BY <1>1, <1>4 DEF Armed, Full
<1>5. CASE /\ u.type = sock[k].type /\ u.high = t.high /\ u.low = t.low /\ u.dw = <<>>
           /\ u.polled = sock[k].polled
           /\ u.write = (sock[k].write /\ (t.high # <<>> \/ t.low # <<>>))
  <2>1. Full(u) => Full(sock[k]) /\ (sock[k].write => u.write)
    BY <1>3, <1>5 DEF Full
  <2>2. u.id = sock[k].id
    BY <1>1 DEF SameName
  <2>3. u.type = "CONNECTING" => Leaving(k)'
    BY <1>5
  <2> QED  BY <1>1, <1>5, <2>1, <2>2, <2>3 DEF Armed
<1> QED  BY <1>1, <1>4, <1>5

(* A worker that leaves a remainder arms the write event itself. *)
LEMMA ArmedWorker ==
    ASSUME TypeOK, OwnersInv, ArmedInv, NEW w \in Worker, Request(w) \/ WorkerStep(w)
    PROVE  ArmedInv'
<1>a. (\A k \in Slot : Armed(k)) /\ BoundInv /\ pipe \in Seq(Requests)
  BY DEF ArmedInv, TypeOK
<1>j. /\ job[w] \in Requests /\ Hash(job[w].id) \in Slot
  BY JobTypes
<1>l. \A j \in Slot : UNCHANGED threadVars => (Leaving(j) => Leaving(j)')
  BY DEF Leaving, threadVars
<1>1. ASSUME NEW cmd \in Kinds, Reserve(w, cmd) PROVE ArmedInv'
  <2>1. PICK k \in Slot : /\ sock[k].type = "INVALID" /\ Keeps(k) /\ sock'[k].type = "RESERVE"
                          /\ UNCHANGED <<pipe, threadVars, nmsg, nctl, from, told, freed, wire, marks, failed>>
    BY <1>1, ReserveEffect
  <2>2. Armed(k)'
    BY <1>a, <2>1 DEF Armed, Full, Keeps, SameLists, Mute
  <2>3. BoundInv'
    BY <1>a, <2>1, BoundKept DEF told, ids
  <2> QED  BY <1>l, <2>1, <2>2, <2>3, ArmedOne DEF Keeps, told, ids
<1>2. CASE ReserveSet(w)
  <2>0. PICK k \in Slot : k = Hash(job[w].id)
    BY <1>j
  <2>1. /\ at[w] = "reserve" /\ OneSlot(k) /\ sock'[k].type = sock[k].type /\ SameLists(sock[k], sock'[k])
        /\ UNCHANGED <<pipe, threadVars, job, bounds, told, freed, wire, marks, failed>>
    BY <1>2, <2>0, ReserveSetEffect
  <2>2. sock[k].type = "RESERVE"
    <3>1. Held(w) /\ Reserved(job[w].id)
      BY <2>1 DEF OwnersInv, HoldersInv, JobsInv, Held
    <3> QED  BY <2>0, <3>1 DEF Reserved
  <2>3. Armed(k)'
    BY <1>a, <2>1, <2>2 DEF Armed, Full, SameLists, Mute
  <2>4. BoundInv'
    BY <1>a, <2>1, BoundKept DEF told, ids
  <2> QED  BY <1>l, <2>1, <2>3, <2>4, ArmedOne DEF told, ids
<1>3. CASE SendRequest(w)
  <2>1. /\ pipe' = Append(pipe, job[w])
        /\ bound' = (IF job[w].cmd = "B" THEN bound \cup {job[w].id} ELSE bound)
        /\ UNCHANGED <<sock, threadVars, bounds, opened, reported, freed, wire, marks, failed>>
    BY <1>3, SendRequestEffect
  <2>2. bound \subseteq bound' /\ (job[w].cmd = "B" => job[w].id \in bound')
    BY <2>1
  <2>3. BoundInv'
    BY <1>a, <1>j, <2>1, <2>2, BoundAppended
  <2> QED  BY <1>l, <2>1, <2>2, <2>3, ArmedSame
<1>4. ASSUME NEW id \in Id, NEW cmd \in {"K", "Kill", "S"}, Control(w, cmd, id) PROVE ArmedInv'
  <2>1. /\ pipe' = Append(pipe, Req(cmd, id, 0))
        /\ UNCHANGED <<sock, threadVars, workerVars, nmsg, from, alloc_id, told, freed, wire, marks, failed>>
    BY <1>4 DEF Control
  <2>2. Req(cmd, id, 0) \in Requests /\ Req(cmd, id, 0).cmd # "B"
    <3>1. id \in 0 .. MaxId
      BY SocketAssumption DEF Id
    <3> QED  BY <3>1, ReqType DEF Closing, Req
  <2>3. BoundInv'
    BY <1>a, <2>1, <2>2, BoundAppended DEF told, ids
  <2> QED  BY <1>l, <2>1, <2>3, ArmedSame DEF told, ids
<1>5. ASSUME NEW id \in Id, NEW cmd \in {"D", "P"}, Send(w, cmd, id) PROVE ArmedInv'
  <2>1. UNCHANGED <<sock, pipe, threadVars, nctl, alloc_id, told, wire, marks, failed>>
    BY <1>5, SendEffect
  <2>3. BoundInv'
    BY <1>a, <2>1, BoundKept DEF told, ids
  <2> QED  BY <1>l, <2>1, <2>3, ArmedSame DEF told, ids
<1>6. PICK k \in Slot : k = Hash(job[w].id)
  BY <1>j
<1>7. ASSUME OneSlot(k), sock'[k].type = sock[k].type, SameLists(sock[k], sock'[k]), SameEvents(sock[k], sock'[k]),
             sock'[k].id = sock[k].id, UNCHANGED <<pipe, threadVars, told>>
      PROVE  ArmedInv'
  <2>1. Armed(k)'
    BY <1>a, <1>l, <1>7 DEF Armed, Full, SameLists, SameEvents, told, ids
  <2>2. BoundInv'
    BY <1>a, <1>7, BoundKept DEF told, ids
  <2> QED  BY <1>l, <1>7, <2>1, <2>2, ArmedOne DEF told, ids
<1>8. CASE TryDirectWrite(w)
  <2>1. /\ (Keeps(k) /\ sock'[k].type = sock[k].type) \/ UNCHANGED sock
        /\ UNCHANGED <<pipe, threadVars, job, bounds, told, freed, wire, marks, failed>>
    BY <1>6, <1>8, TryEffect
  <2>2. CASE Keeps(k) /\ sock'[k].type = sock[k].type
    BY <1>7, <2>1, <2>2 DEF Keeps, SameName
  <2>3. CASE UNCHANGED sock
    <3>1. BoundInv'
      BY <1>a, <2>1, BoundKept DEF told, ids
    <3> QED  BY <1>l, <2>1, <2>3, <3>1, ArmedSame DEF told, ids
  <2> QED  BY <2>1, <2>2, <2>3
<1>9. CASE DirectWrite(w)
  <2>1. /\ OneSlot(k) /\ sock'[k].type = sock[k].type /\ SameName(sock[k], sock'[k])
        /\ UNCHANGED <<pipe, threadVars, bounds, told, marks, failed>>
        /\ \/ Keeps(k)
           \/ CanDirectWrite(sock[k], job[w].id) /\ sock'[k].write = TRUE /\ sock'[k].polled = sock[k].polled
    BY <1>6, <1>9, DirectWriteEffect
  <2>2. CASE Keeps(k)
    BY <1>7, <2>1, <2>2 DEF Keeps, SameName
  <2>3. CASE CanDirectWrite(sock[k], job[w].id) /\ sock'[k].write = TRUE /\ sock'[k].polled = sock[k].polled
    <3>1. sock[k].type = "CONNECTED"
      BY <2>3 DEF CanDirectWrite
    <3>2. Armed(k)'
      BY <1>a, <2>1, <2>3, <3>1 DEF Armed, Mute
    <3>3. BoundInv'
      BY <1>a, <2>1, BoundKept DEF told, ids
    <3> QED  BY <1>l, <2>1, <3>2, <3>3, ArmedOne DEF told, ids
  <2> QED  BY <2>1, <2>2, <2>3
<1>10. CASE IncSendingRef(w)
  <2>1. /\ OneSlot(k) /\ sock'[k].type = sock[k].type /\ sock'[k].id = sock[k].id
        /\ SameLists(sock[k], sock'[k]) /\ SameEvents(sock[k], sock'[k])
        /\ UNCHANGED <<pipe, threadVars, job, bounds, told, freed, wire, marks, failed>>
    BY <1>6, <1>10, IncEffect
  <2> QED  BY <1>7, <2>1
<1> QED  BY <1>1, <1>2, <1>3, <1>4, <1>5, <1>8, <1>9, <1>10 DEF Request, WorkerStep

(* force_close up to its lock: the slot is leaving. *)
LEMMA FreeListsArmed ==
    ASSUME TypeOK, OwnersInv, NEW k \in Slot, NEW then, FreeLists(k, then), failed' = {}, Armed(k), UNCHANGED bound,
           sock[k].type \in Open, Leaving(k) => closing.id = sock[k].id
    PROVE  OneSlot(k) /\ Armed(k)'
<1>1. /\ phase' = "free" /\ closing'.id = sock[k].id /\ OneSlot(k)
      /\ sock'[k].high = <<>> /\ sock'[k].low = <<>> /\ sock'[k].dw = sock[k].dw /\ sock'[k].type = sock[k].type
      /\ SameName(sock[k], sock'[k]) /\ SameEvents(sock[k], sock'[k])
  BY FreeListsEffect
<1>2. Hash(sock[k].id) = k
  BY DEF OwnersInv, NamesInv, Named
<1>3. Leaving(k)'
  BY <1>1, <1>2 DEF Leaving
<1> QED  BY <1>1, <1>3 DEF Armed, Full, SameName, SameEvents

(* report_connect on one slot. *)
LEMMA ConnectDoes ==
    ASSUME TypeOK, NEW k \in Slot, NEW b \in BOOLEAN,
           sock' = [sock EXCEPT ![k].type = "CONNECTED", ![k].write = b]
    PROVE  /\ OneSlot(k) /\ sock'[k].type = "CONNECTED" /\ sock'[k].polled = sock[k].polled
           /\ sock'[k].write = b /\ SameLists(sock[k], sock'[k])
<1>1. sock[k].polled \in BOOLEAN
  BY DEF TypeOK, Socket
<1>2. PICK p \in BOOLEAN : p = sock[k].polled
  BY <1>1
<1>3. PICK t \in Types : t = "CONNECTED"
  BY DEF Types
<1>4. sock' = [sock EXCEPT ![k].type = t, ![k].write = b] /\ p = sock[k].polled
  BY <1>2, <1>3
<1>5. /\ OneSlot(k) /\ sock'[k].type = t /\ sock'[k].polled = p /\ sock'[k].write = b
      /\ SameLists(sock[k], sock'[k])
  BY <1>4, TypeDoes, ZenonT(30)
<1> QED  BY <1>2, <1>3, <1>5

(* The socket thread keeps every socket with something to write armed. *)
LEMMA ArmedThread ==
    ASSUME TypeOK, OwnersInv, ArmedInv, SocketThread, Sound'
    PROVE  ArmedInv'
<1>f. failed' = {} /\ ~strayed'
  BY DEF Sound
<1>a. (\A k \in Slot : Armed(k)) /\ BoundInv
  BY DEF ArmedInv
<1>o. HoldersInv /\ NamesInv /\ ClosingInv
  BY DEF OwnersInv
<1>s. \A j \in Slot : sock[j] \in Socket /\ sock[j].type \in Types /\ Named(j)
                      /\ sock[j].polled \in BOOLEAN /\ sock[j].write \in BOOLEAN
  <2> SUFFICES ASSUME NEW j \in Slot PROVE sock[j] \in Socket /\ sock[j].type \in Types /\ Named(j)
                                           /\ sock[j].polled \in BOOLEAN /\ sock[j].write \in BOOLEAN
    OBVIOUS
  <2>1. sock[j] \in Socket /\ Named(j)
    BY <1>o DEF TypeOK, NamesInv
  <2> QED  BY <2>1 DEF Socket
<1>t. Hash(closing.id) \in Slot
  BY RequestType, HashRange DEF TypeOK
<1>c. PICK c \in Slot : c = Hash(closing.id)
  BY <1>t
<1>k. PICK k : k = Hash(Cmd.id)
  OBVIOUS
<1>q. pipe # <<>> => /\ k \in Slot /\ 1 \in DOMAIN pipe /\ Cmd = pipe[1]
                     /\ (Cmd.cmd \in Opening => Asks(1)) /\ (Cmd.cmd \in Sending => Cmd.m \in Msg)
  BY <1>k, TakenIs
<1>e. \A e \in ev : e.slot \in Slot
  BY DEF TypeOK
<1>l. phase \notin {"close", "free"} => \A j \in Slot : ~Leaving(j)
  BY DEF Leaving
<1>m. \A j \in Slot : Leaving(j) => j = c
  BY <1>c DEF Leaving
<1>1. CASE ForceClose
  <2>1. /\ sock' = [sock EXCEPT ![c] = Closed(@)]
        /\ UNCHANGED <<pipe, ev, closing, workerVars, bounds, ids, opened, wire, marks, failed>>
    BY <1>c, <1>1 DEF ForceClose
  <2>2. /\ OneSlot(c) /\ sock'[c].type = "INVALID"
        /\ sock'[c].high = <<>> /\ sock'[c].low = <<>> /\ sock'[c].dw = <<>>
    BY <1>c, <2>1, ClosedDoes
  <2>3. Armed(c)'
    BY <2>2 DEF Armed, Full
  <2>4. BoundInv'
    BY <1>a, <2>1, BoundKept DEF ids
  <2> QED  BY <1>m, <2>1, <2>2, <2>3, <2>4, ArmedOne DEF ids
<1>2. CASE ClearClosedEvent
  <2>1. phase = "clear" /\ UNCHANGED <<sock, pipe, workerVars, bounds, told, freed, wire, marks, failed>>
    BY <1>2 DEF ClearClosedEvent
  <2>4. BoundInv'
    BY <1>a, <2>1, BoundKept DEF told, ids
  <2> QED  BY <1>l, <2>1, <2>4, ArmedSame DEF told, ids
<1>3. CASE CloseOrHalf
  <2>1. phase = "close" /\ UNCHANGED <<pipe, ev, workerVars, bounds, told, wire>>
    BY <1>3 DEF CloseOrHalf
  <2>2. sock[c].type \in Open /\ sock[c].id = closing.id
    BY <1>c, <1>o, <2>1 DEF ClosingInv
  <2>4. BoundInv'
    BY <1>a, <2>1, BoundKept DEF told, ids
  <2>5. OneSlot(c) /\ Armed(c)'
    <3>1. CASE FreeLists(c, "clear")
      BY <1>a, <1>f, <2>1, <2>2, <3>1, FreeListsArmed DEF told, ids
    <3>2. CASE sock' = [sock EXCEPT ![c].type = "HALFCLOSE"]
      <4>1. "HALFCLOSE" \in Types
        BY DEF Types
      <4>2. /\ OneSlot(c) /\ sock'[c].type = "HALFCLOSE" /\ sock'[c].polled = sock[c].polled /\ sock'[c].write = sock[c].write
            /\ SameName(sock[c], sock'[c]) /\ SameLists(sock[c], sock'[c])
        BY <1>s, <3>2, <4>1, TypeDoes, ZenonT(30)
      <4>3. Armed(c) /\ sock[c].type \in Types
        BY <1>a, <1>s
      <4>4. sock'[c].id = sock[c].id /\ (Full(sock'[c]) <=> Full(sock[c])) /\ bound' = bound
        BY <2>1, <4>2 DEF SameName, SameLists, Full, told, ids
      <4>5. Full(sock[c]) /\ sock[c].id \notin bound => sock[c].type \in {"CONNECTING", "CONNECTED", "HALFCLOSE"}
        BY <4>3 DEF Armed, Mute, Types
      <4> QED  BY <4>2, <4>3, <4>4, <4>5 DEF Armed, Mute
    <3> QED  BY <1>c, <1>3, <3>1, <3>2 DEF CloseOrHalf
  <2> QED  BY <1>m, <2>1, <2>4, <2>5, ArmedOne DEF told, ids
<1>4. CASE OpenSocket
  <2>1. /\ phase = "ctrl" /\ pipe # <<>> /\ Cmd.cmd \in Opening /\ pipe' = Tail(pipe) /\ OneSlot(k)
        /\ \/ NewSlot(k, "CONNECTED", TRUE, FALSE) \/ NewSlot(k, "CONNECTING", TRUE, TRUE)
           \/ NewSlot(k, "PLISTEN", FALSE, FALSE) \/ (NewSlot(k, "BIND", TRUE, FALSE) /\ Cmd.cmd = "B")
           \/ sock'[k].type = "INVALID" /\ SameLists(sock[k], sock'[k])
        /\ UNCHANGED <<ev, workerVars, bounds, ids, freed, wire, marks>>
    BY <1>k, <1>4, <1>f, OpenEffect
  <2>2. sock[k].type = "RESERVE" /\ (Cmd.cmd = "B" => Cmd.id \in bound) /\ bound' = bound /\ k \in Slot
    BY <1>a, <1>k, <1>o, <1>q, <2>1 DEF HoldersInv, Reserved, BoundInv, ids
  <2>3. ~Full(sock[k])
    BY <1>a, <2>2 DEF Armed, Mute
  <2>4. Armed(k)'
    <3>1. CASE NewSlot(k, "CONNECTED", TRUE, FALSE)
      BY <3>1 DEF NewSlot, Armed, Full, Mute
    <3>2. CASE NewSlot(k, "CONNECTING", TRUE, TRUE)
      BY <3>2 DEF NewSlot, Armed, Full, Mute
    <3>3. CASE NewSlot(k, "PLISTEN", FALSE, FALSE)
      BY <3>3 DEF NewSlot, Armed, Full, Mute
    <3>4. CASE NewSlot(k, "BIND", TRUE, FALSE) /\ Cmd.cmd = "B"
      <4>1. sock'[k].type = "BIND" /\ sock'[k].id \in bound'
        BY <2>2, <3>4 DEF NewSlot
      <4> QED  BY <4>1 DEF Armed, Mute
    <3>5. CASE sock'[k].type = "INVALID" /\ SameLists(sock[k], sock'[k])
      BY <2>3, <3>5 DEF Armed, Full, SameLists
    <3> QED  BY <2>1, <3>1, <3>2, <3>3, <3>4, <3>5
  <2>5. BoundInv'
    BY <1>a, <2>1, BoundKept DEF ids
  <2> QED  BY <1>l, <2>1, <2>2, <2>4, <2>5, ArmedOne
<1>5. CASE StartSocket
  <2>1. /\ phase = "ctrl" /\ pipe # <<>> /\ pipe' = Tail(pipe) /\ UNCHANGED <<ev, workerVars, bounds, ids, wire>>
    BY <1>5 DEF StartSocket, Command
  <2>2. k \in Slot /\ bound' = bound
    BY <1>q, <2>1 DEF ids
  <2>3. BoundInv'
    BY <1>a, <2>1, BoundKept DEF ids
  <2>4. \/ sock' = sock
        \/ /\ Live(Cmd.id) /\ sock[k].type \in {"PACCEPT", "PLISTEN"}
           /\ FreeLists(k, "clear") \/ \E type \in {"CONNECTED", "LISTEN"} : sock' = [sock EXCEPT ![k].polled = TRUE, ![k].type = type]
    BY <1>k, <1>5 DEF StartSocket
  <2>5. CASE sock' = sock
    BY <1>l, <2>1, <2>2, <2>3, <2>5, ArmedSame
  <2>6. CASE sock[k].type \in {"PACCEPT", "PLISTEN"} /\ FreeLists(k, "clear")
    <3>1. sock[k].type \in Open /\ ~Leaving(k)
      BY <1>l, <2>1, <2>2, <2>6 DEF Open, Types
    <3>2. OneSlot(k) /\ Armed(k)'
      BY <1>a, <1>f, <2>2, <2>6, <3>1, FreeListsArmed
    <3> QED  BY <1>l, <2>1, <2>2, <2>3, <3>2, ArmedOne
  <2>7. ASSUME sock[k].type \in {"PACCEPT", "PLISTEN"}, NEW type \in {"CONNECTED", "LISTEN"},
               sock' = [sock EXCEPT ![k].polled = TRUE, ![k].type = type]
        PROVE  ArmedInv'
    <3>1. type \in Types /\ sock[k].write \in BOOLEAN
      BY <1>s, <2>2 DEF Types
    <3>2. OneSlot(k) /\ sock'[k].type = type /\ sock'[k].polled = TRUE /\ SameLists(sock[k], sock'[k])
      BY <2>2, <2>7, <3>1, TypeDoes
    <3>3. ~Full(sock[k])
      BY <1>a, <2>2, <2>7 DEF Armed, Mute
    <3>4. Armed(k)'
      BY <3>2, <3>3 DEF Armed, Full, SameLists
    <3> QED  BY <1>l, <2>1, <2>2, <2>3, <3>2, <3>4, ArmedOne
  <2> QED  BY <2>4, <2>5, <2>6, <2>7
<1>6. CASE CloseSocket
  <2>1. /\ phase = "ctrl" /\ pipe # <<>> /\ pipe' = Tail(pipe) /\ UNCHANGED <<ev, workerVars, bounds, ids, opened>> /\ closing' = Cmd
    BY <1>6 DEF CloseSocket, Command
  <2>2. k \in Slot /\ bound' = bound
    BY <1>q, <2>1 DEF ids
  <2>3. BoundInv'
    BY <1>a, <2>1, BoundKept DEF ids
  <2>4. sock' = sock \/ \E n \in 0 .. MaxMsg * Size, err \in BOOLEAN : SendBuffer(k, n, err, "clear", "close")
    BY <1>k, <1>6 DEF CloseSocket
  <2>5. CASE sock' = sock
    BY <1>l, <2>1, <2>2, <2>3, <2>5, ArmedSame
  <2>6. ASSUME NEW n \in 0 .. MaxMsg * Size, NEW err \in BOOLEAN, SendBuffer(k, n, err, "clear", "close") PROVE ArmedInv'
    <3>0. n \in Nat
      OBVIOUS
    <3>1. sock'[k].type = "INVALID" \/ phase' = "close"
      BY <2>2, <2>6, <3>0, SendBufferTurns
    <3>2. sock'[k].type = "INVALID" \/ Leaving(k)'
      BY <1>k, <2>1, <3>1 DEF Leaving
    <3>3. Armed(k)' /\ OneSlot(k)
      BY <1>a, <2>2, <2>6, <3>0, <3>2, SendBufferArmed
    <3> QED  BY <1>l, <2>1, <2>2, <2>3, <3>3, ArmedOne
  <2> QED  BY <2>4, <2>5, <2>6
<1>7. CASE SendSocket
  <2>1. /\ phase = "ctrl" /\ pipe # <<>> /\ pipe' = Tail(pipe) /\ Cmd.cmd \in {"D", "P"}
        /\ UNCHANGED <<threadVars, workerVars, bounds, told, wire, cut>>
        /\ strayed' = (strayed \/ (~Drop(sock[k], Cmd.id) /\ sock[k].type = "RESERVE"))
    BY <1>k, <1>7 DEF SendSocket, Command
  <2>2. k \in Slot /\ Cmd.m \in Msg
    BY <1>q, <2>1 DEF Sending
  <2>3. /\ OneSlot(k) /\ sock'[k].type = sock[k].type /\ sock'[k].id = sock[k].id /\ sock'[k].polled = sock[k].polled
        /\ sock'[k].dw = sock[k].dw
        /\ \/ SameLists(sock[k], sock'[k]) /\ sock'[k].write = sock[k].write
           \/ ~Drop(sock[k], Cmd.id) /\ sock[k].type = "CONNECTED" /\ sock'[k].write = TRUE
           \/ /\ ~Drop(sock[k], Cmd.id) /\ ~(SendBufferEmpty(sock[k]) /\ sock[k].type = "CONNECTED")
              /\ sock'[k].write = sock[k].write
    BY <1>k, <1>7, <2>2, SendSocketDoes
  <2>4. Armed(k)'
    <3>l. Armed(k) /\ ~Leaving(k) /\ bound' = bound /\ sock[k].type \in Types
      BY <1>a, <1>l, <1>s, <2>1, <2>2 DEF told, ids
    <3>1. CASE SameLists(sock[k], sock'[k]) /\ sock'[k].write = sock[k].write
      BY <2>3, <3>l, <3>1 DEF Armed, SameLists, Full
    <3>2. CASE ~Drop(sock[k], Cmd.id) /\ sock[k].type = "CONNECTED" /\ sock'[k].write = TRUE
      BY <2>3, <3>l, <3>2 DEF Armed, Mute
    <3>3. CASE /\ ~Drop(sock[k], Cmd.id) /\ ~(SendBufferEmpty(sock[k]) /\ sock[k].type = "CONNECTED")
               /\ sock'[k].write = sock[k].write
      <4>1. sock[k].type \in {"CONNECTING", "CONNECTED", "BIND"}
        BY <1>f, <2>1, <3>l, <3>3 DEF Drop, Types
      <4>2. sock[k].type = "CONNECTED" => Full(sock[k])
        BY <3>3 DEF SendBufferEmpty, Full
      <4> QED  BY <2>3, <3>l, <3>3, <4>1, <4>2 DEF Armed, Mute
    <3> QED  BY <2>3, <3>1, <3>2, <3>3
  <2>5. BoundInv'
    BY <1>a, <2>1, BoundKept DEF told, ids
  <2> QED  BY <1>l, <2>1, <2>3, <2>4, <2>5, ArmedOne DEF told, ids
<1>8. CASE CtrlDone \/ Wait
  <2>1. phase \in {"events", "ctrl"} /\ UNCHANGED <<sock, pipe, workerVars, bounds, told, freed, wire, marks, failed>>
    BY <1>8 DEF CtrlDone, Wait
  <2>2. BoundInv'
    BY <1>a, <2>1, BoundKept DEF told, ids
  <2> QED  BY <1>l, <2>1, <2>2, ArmedSame DEF told, ids
<1>9. ASSUME NEW e \in ev, ReportConnect(e) PROVE ArmedInv'
  <2>1. /\ phase = "events" /\ sock[e.slot].type = "CONNECTING" /\ UNCHANGED <<pipe, workerVars, bounds, ids, reported, wire>>
        /\ \/ sock' = [sock EXCEPT ![e.slot].type = "CONNECTED", ![e.slot].write = ~NomoreSendingData(sock[e.slot])]
           \/ FreeLists(e.slot, "events")
    BY <1>9 DEF ReportConnect, Event
  <2>2. BoundInv' /\ bound' = bound /\ e.slot \in Slot /\ ~Leaving(e.slot)
    BY <1>a, <1>e, <1>l, <2>1, BoundKept DEF ids
  <2>3. OneSlot(e.slot) /\ Armed(e.slot)'
    <3>1. CASE FreeLists(e.slot, "events")
      <4>1. sock[e.slot].type \in Open
        BY <2>1 DEF Open, Types
      <4> QED  BY <1>a, <1>f, <2>2, <3>1, <4>1, FreeListsArmed
    <3>2. CASE sock' = [sock EXCEPT ![e.slot].type = "CONNECTED", ![e.slot].write = ~NomoreSendingData(sock[e.slot])]
      <4>0. PICK b \in BOOLEAN : b = ~NomoreSendingData(sock[e.slot])
        OBVIOUS
      <4>1. "CONNECTED" \in Types /\ sock' = [sock EXCEPT ![e.slot].type = "CONNECTED", ![e.slot].write = b]
        BY <3>2, <4>0 DEF Types
      <4>2. /\ OneSlot(e.slot) /\ sock'[e.slot].type = "CONNECTED" /\ sock'[e.slot].polled = sock[e.slot].polled
            /\ sock'[e.slot].write = b /\ SameLists(sock[e.slot], sock'[e.slot])
        BY <2>2, <4>1, ConnectDoes
      <4>3. Full(sock[e.slot]) => ~NomoreSendingData(sock[e.slot])
        BY DEF Full, NomoreSendingData, SendBufferEmpty
      <4>4. Full(sock'[e.slot]) => sock'[e.slot].write
        BY <4>0, <4>2, <4>3 DEF Full, SameLists
      <4>5. sock[e.slot].polled
        BY <1>a, <2>1, <2>2 DEF Armed
      <4> QED  BY <4>2, <4>4, <4>5 DEF Armed, Mute
    <3> QED  BY <2>1, <3>1, <3>2
  <2> QED  BY <1>l, <2>1, <2>2, <2>3, ArmedOne
<1>10. ASSUME NEW e \in ev, ReportAccept(e) PROVE ArmedInv'
  <2>1. /\ phase = "events"
        /\ UNCHANGED <<phase, closing, pipe, workerVars, nmsg, nctl, from, bound, opened, reported, freed, wire, marks, failed>>
        /\ \/ UNCHANGED sock
           \/ \E id \in alloc_id + 1 .. alloc_id + Slots :
                /\ id <= MaxId /\ sock[Hash(id)].type = "INVALID"
                /\ sock' = [sock EXCEPT ![Hash(id)] =
                  [@ EXCEPT !.type = "PACCEPT", !.id = id, !.protocol = "TCP", !.tag = id, !.sending = 0, !.wb = 0]]
    BY <1>10 DEF ReportAccept, Event
  <2>2. BoundInv'
    BY <1>a, <2>1, BoundKept
  <2>3. CASE UNCHANGED sock
    BY <1>l, <2>1, <2>2, <2>3, ArmedSame
  <2>4. ASSUME NEW id \in alloc_id + 1 .. alloc_id + Slots, id <= MaxId, sock[Hash(id)].type = "INVALID",
               sock' = [sock EXCEPT ![Hash(id)] =
                  [@ EXCEPT !.type = "PACCEPT", !.id = id, !.protocol = "TCP", !.tag = id, !.sending = 0, !.wb = 0]]
        PROVE  ArmedInv'
    <3>1. id \in 0 .. MaxId /\ id \in Nat /\ Hash(id) \in Slot
      <4>1. alloc_id \in 0 .. MaxId
        BY DEF TypeOK
      <4>2. id \in Nat /\ id \in 0 .. MaxId
        BY <2>4, <4>1
      <4> QED  BY <4>2, HashRange
    <3>2. /\ OneSlot(Hash(id)) /\ sock'[Hash(id)].type = "PACCEPT" /\ SameLists(sock[Hash(id)], sock'[Hash(id)])
      BY <2>4, <3>1, AcceptDoes
    <3>3. Armed(Hash(id))'
      BY <1>a, <2>4, <3>1, <3>2 DEF Armed, Full, SameLists, Mute
    <3> QED  BY <1>l, <2>1, <2>2, <3>2, <3>3, ArmedOne
  <2> QED  BY <2>1, <2>3, <2>4
<1>11. ASSUME NEW e \in ev, ReadEvent(e) PROVE ArmedInv'
  <2>1. /\ phase = "events" /\ sock[e.slot].type \in {"CONNECTED", "HALFCLOSE", "BIND", "RESERVE"}
        /\ UNCHANGED <<pipe, workerVars, bounds, told, wire>>
        /\ UNCHANGED sock \/ FreeLists(e.slot, "events")
    BY <1>11 DEF ReadEvent, Event
  <2>2. BoundInv' /\ bound' = bound /\ e.slot \in Slot /\ ~Leaving(e.slot)
    BY <1>a, <1>e, <1>l, <2>1, BoundKept DEF told, ids
  <2>3. CASE UNCHANGED sock
    BY <1>l, <2>1, <2>2, <2>3, ArmedSame
  <2>4. CASE FreeLists(e.slot, "events")
    <3>1. sock[e.slot].type # "RESERVE"
      BY <1>f, <2>2, <2>4, FreeListsEffect
    <3>2. sock[e.slot].type \in Open
      BY <2>1, <3>1 DEF Open, Types
    <3>3. OneSlot(e.slot) /\ Armed(e.slot)'
      BY <1>a, <1>f, <2>2, <2>4, <3>2, FreeListsArmed
    <3> QED  BY <1>l, <2>1, <2>2, <3>3, ArmedOne
  <2> QED  BY <2>1, <2>3, <2>4
<1>12. ASSUME NEW e \in ev, NEW n \in 0 .. MaxMsg * Size, NEW err \in BOOLEAN, WriteEvent(e, n, err) PROVE ArmedInv'
  <2>1. /\ phase = "events" /\ sock[e.slot].type \in {"CONNECTED", "HALFCLOSE", "BIND", "RESERVE"}
        /\ UNCHANGED <<pipe, closing, workerVars, bounds, ids, opened, marks>>
        /\ UNCHANGED <<sock, phase>> \/ SendBuffer(e.slot, n, err, "events", "events")
    BY <1>12 DEF WriteEvent, Event
  <2>2. BoundInv' /\ bound' = bound /\ e.slot \in Slot
    BY <1>a, <1>e, <2>1, BoundKept DEF ids
  <2>3. CASE UNCHANGED <<sock, phase>>
    BY <1>l, <2>1, <2>2, <2>3, ArmedSame
  <2>4. CASE SendBuffer(e.slot, n, err, "events", "events")
    <3>0. n \in Nat
      OBVIOUS
    <3>1. Armed(e.slot)' /\ OneSlot(e.slot)
      BY <1>a, <2>1, <2>2, <2>4, <3>0, SendBufferArmed
    <3> QED  BY <1>l, <2>1, <2>2, <3>1, ArmedOne
  <2> QED  BY <2>1, <2>3, <2>4
<1>13. ASSUME NEW e \in ev, SkipEvent(e) PROVE ArmedInv'
  <2>1. phase = "events" /\ UNCHANGED <<sock, phase, closing, pipe, workerVars, bounds, told, freed, wire, marks, failed>>
    BY <1>13 DEF SkipEvent, Event
  <2>2. BoundInv'
    BY <1>a, <2>1, BoundKept DEF told, ids
  <2> QED  BY <1>l, <2>1, <2>2, ArmedSame DEF told, ids
<1> QED  BY <1>1, <1>2, <1>3, <1>4, <1>5, <1>6, <1>7, <1>8, <1>9, <1>10, <1>11, <1>12, <1>13 DEF SocketThread

(* Nobody holds a slot before the first request. *)
LEMMA OwnersInit == Init => OwnersInv
<1> SUFFICES ASSUME Init PROVE OwnersInv
  OBVIOUS
<1>1. /\ \A k \in Slot : sock[k].type = "INVALID" /\ sock[k].id = 0 /\ sock[k].protocol = "UNKNOWN"
      /\ alloc_id = 0 /\ pipe = <<>> /\ phase = "ctrl" /\ opened = {}
      /\ \A w \in Worker : at[w] = "idle"
  BY DEF Init, Slot
<1>2. HoldersInv
  BY <1>1 DEF HoldersInv, Held
<1>3. JobsInv
  BY <1>1 DEF JobsInv
<1>4. NamesInv
  BY <1>1 DEF NamesInv, Named, Open
<1>5. ClosingInv
  BY <1>1 DEF ClosingInv
<1> QED  BY <1>2, <1>3, <1>4, <1>5 DEF OwnersInv

(* What every step preserves *)
SocketInv == TypeOK /\ (Sound => OwnersInv /\ ArmedInv)

(* Every step keeps the invariant, as long as no assertion fails and no    *)
(* request strays.                                                         *)
LEMMA SocketInvNext == SocketInv /\ [Next]_vars => SocketInv'
<1> SUFFICES ASSUME SocketInv, [Next]_vars PROVE SocketInv'
  OBVIOUS
<1>1. TypeOK /\ TypeOK' /\ strayed \in BOOLEAN
  BY TypeNext DEF SocketInv, TypeOK
<1>2. ASSUME Sound' PROVE OwnersInv' /\ ArmedInv'
  <2>1. OwnersInv /\ ArmedInv
    BY <1>1, <1>2, SoundBefore DEF SocketInv
  <2>2. CASE UNCHANGED vars
    <3>1. UNCHANGED <<sock, alloc_id, pipe, phase, closing, at, job, bound, opened>>
      BY <2>2 DEF vars, threadVars, workerVars, bounds, told, ids
    <3>2. OwnersInv'
      BY <2>1, <3>1 DEF OwnersInv, HoldersInv, JobsInv, NamesInv, ClosingInv, Named, Held, Asks, Reserved, Cmd
    <3>3. ArmedInv'
      BY <2>1, <3>1 DEF ArmedInv, Armed, BoundInv, Full, Leaving, Mute
    <3> QED  BY <3>2, <3>3
  <2>3. ASSUME NEW w \in Worker, Request(w) \/ WorkerStep(w) PROVE OwnersInv' /\ ArmedInv'
    BY <1>1, <2>1, <2>3, OwnersWorker, ArmedWorker
  <2>4. CASE SocketThread
    BY <1>1, <1>2, <2>1, <2>4, OwnersThread, ArmedThread
  <2> QED  BY <2>2, <2>3, <2>4 DEF Next
<1> QED  BY <1>1, <1>2 DEF SocketInv

(***************************************************************************)
(* A slot that is reserved has one worker or one request that will open    *)
(* it, an open one is found by its id, and every socket with something to  *)
(* write is polled for it, as long as no assertion of socket_server.c      *)
(* fails and no request reaches a slot that another id is reserving.       *)
(***************************************************************************)
THEOREM SocketInvariant == Spec => []SocketInv
<1>1. Init => SocketInv
  BY TypeInit, OwnersInit, ArmedInit DEF SocketInv
<1> QED  BY <1>1, SocketInvNext, PTL DEF Spec

(***************************************************************************)
(* Every slot, request and buffer is one that socket_server.c produces,    *)
(* whatever has failed before.                                             *)
(***************************************************************************)
THEOREM TypeCorrect == Spec => []TypeOK
<1>1. SocketInv => TypeOK
  BY DEF SocketInv
<1> QED  BY <1>1, SocketInvariant, PTL

(***************************************************************************)
(* No message waits for a write event that nobody asked for: a socket with *)
(* anything in dw_buffer, in the high or in the low list is in the poll    *)
(* set and armed for writing, across the worker that writes directly, the  *)
(* thread that drains the lists, and shutdown.                             *)
(***************************************************************************)
THEOREM WritesArmed == Spec => []WriteEventArmed
<1>1. SocketInv => WriteEventArmed
  BY ArmedHolds DEF SocketInv, WriteEventArmed
<1> QED  BY <1>1, SocketInvariant, PTL

(* How many elements of q are in S *)
Where(q, S) == {i \in DOMAIN q : q[i] \in S}
Count(q, S) == Cardinality(Where(q, S))

(* How many elements of a sequence are of a kind is a number. *)
LEMMA CountType == \A T, S : \A q \in Seq(T) : IsFiniteSet(Where(q, S)) /\ Count(q, S) \in Nat
<1> SUFFICES ASSUME NEW T, NEW S, NEW q \in Seq(T) PROVE IsFiniteSet(Where(q, S)) /\ Count(q, S) \in Nat
  OBVIOUS
<1>1. DOMAIN q = 1 .. Len(q) /\ Len(q) \in Int
  OBVIOUS
<1>2. IsFiniteSet(DOMAIN q)
  <2>1. 1 \in Int
    OBVIOUS
  <2> QED  BY <1>1, <2>1, FS_Interval
<1>3. Where(q, S) \in SUBSET (DOMAIN q)
  BY DEF Where
<1> QED  BY <1>2, <1>3, FS_Subset, FS_CardinalityType DEF Count

(* Where the first k elements of q are in S *)
WhereFirst(q, k, S) == {i \in 1 .. k : q[i] \in S}

(* Behind the first k elements of q comes a sequence like r. *)
Behind(q, k, r, S) ==
    k \in 0 .. Len(q) /\ Len(r) = Len(q) - k /\ \A i \in 1 .. Len(r) : r[i] \in S <=> q[k + i] \in S

(* The elements of q are its first k and those behind them. *)
LEMMA CountShift ==
    ASSUME NEW T, NEW S, NEW q \in Seq(T), NEW r \in Seq(T), NEW k, Behind(q, k, r, S)
    PROVE  /\ Count(q, S) = Cardinality(WhereFirst(q, k, S)) + Count(r, S)
           /\ Cardinality(WhereFirst(q, k, S)) \in Nat
           /\ IsFiniteSet(WhereFirst(q, k, S))
<1>0. /\ k \in 0 .. Len(q) /\ Len(r) = Len(q) - k
      /\ \A i \in 1 .. Len(r) : r[i] \in S <=> q[k + i] \in S
  BY DEF Behind
<1> USE <1>0
<1> DEFINE A == {i \in 1 .. k : q[i] \in S}
           B == {i \in k + 1 .. Len(q) : q[i] \in S}
           R == Where(r, S)
           f == [i \in R |-> k + i]
<1>1. IsFiniteSet(R) /\ Count(r, S) = Cardinality(R) /\ IsFiniteSet(Where(q, S))
  BY CountType DEF Count
<1>2. Where(q, S) = A \cup B /\ A \cap B = {} /\ A \in SUBSET Where(q, S)
  <2>1. DOMAIN q = 1 .. Len(q) /\ Len(q) \in Nat
    OBVIOUS
  <2> QED  BY <2>1 DEF Where
<1>3. \A i \in R : i \in 1 .. Len(r) /\ f[i] = k + i /\ f[i] \in B
  <2> SUFFICES ASSUME NEW i \in R PROVE i \in 1 .. Len(r) /\ f[i] = k + i /\ f[i] \in B
    OBVIOUS
  <2>1. i \in 1 .. Len(r) /\ r[i] \in S
    BY DEF Where
  <2>2. q[k + i] \in S /\ k + i \in k + 1 .. Len(q)
    BY <2>1
  <2> QED  BY <2>1, <2>2
<1>4. \A j \in B : j - k \in R /\ f[j - k] = j
  <2> SUFFICES ASSUME NEW j \in B PROVE j - k \in R /\ f[j - k] = j
    OBVIOUS
  <2>1. j \in k + 1 .. Len(q) /\ q[j] \in S
    OBVIOUS
  <2>2. j - k \in 1 .. Len(r) /\ k + (j - k) = j
    BY <2>1
  <2>3. r[j - k] \in S /\ j - k \in DOMAIN r
    BY <2>1, <2>2
  <2> QED  BY <2>2, <2>3 DEF Where
<1>5. f \in Bijection(R, B)
  <2>1. f \in [R -> B]
    BY <1>3
  <2>2. \A i, j \in R : f[i] = f[j] => i = j
    <3> SUFFICES ASSUME NEW i \in R, NEW j \in R, f[i] = f[j] PROVE i = j
      OBVIOUS
    <3>1. i \in 1 .. Len(r) /\ j \in 1 .. Len(r) /\ k + i = k + j
      BY <1>3
    <3> QED  BY <3>1
  <2>3. \A j \in B : \E i \in R : f[i] = j
    BY <1>4
  <2> HIDE DEF f, R, B
  <2> QED  BY <2>1, <2>2, <2>3 DEF Bijection, Injection, Surjection, IsInjective
<1> HIDE DEF f, R, A, B
<1>6. IsFiniteSet(B) /\ Cardinality(B) = Cardinality(R)
  <2>1. ExistsBijection(R, B)
    BY <1>5 DEF ExistsBijection
  <2> QED  BY <1>1, <2>1, FS_Bijection
<1>7. IsFiniteSet(A) /\ Cardinality(A) \in Nat
  BY <1>1, <1>2, FS_Subset, FS_CardinalityType
<1>8. Cardinality(A \cup B) = Cardinality(A) + Cardinality(B)
  <2>1. Cardinality(A \cup B) = Cardinality(A) + Cardinality(B) - Cardinality(A \cap B)
    BY <1>6, <1>7, FS_Union
  <2>2. Cardinality(A \cap B) = 0 /\ Cardinality(B) \in Nat
    BY <1>2, <1>6, FS_EmptySet, FS_CardinalityType
  <2> QED  BY <1>7, <2>1, <2>2
<1>9. Count(q, S) = Cardinality(A) + Count(r, S)
  BY <1>1, <1>2, <1>6, <1>8 DEF Count
<1>10. A = WhereFirst(q, k, S)
  BY DEF A, WhereFirst
<1> QED  BY <1>7, <1>9, <1>10

(* Nothing is in an empty sequence. *)
LEMMA CountEmpty == \A S : Count(<<>>, S) = 0
<1> SUFFICES ASSUME NEW S PROVE Count(<<>>, S) = 0
  OBVIOUS
<1>1. Where(<<>>, S) = {}
  BY DEF Where
<1> QED  BY <1>1, FS_EmptySet DEF Count

(* A sequence without its first element has one less, or as many. *)
LEMMA CountTail ==
    ASSUME NEW T, NEW S, NEW q \in Seq(T), q # <<>>
    PROVE  Count(q, S) = Count(Tail(q), S) + (IF Head(q) \in S THEN 1 ELSE 0)
<1>1. /\ Tail(q) \in Seq(T) /\ Len(Tail(q)) = Len(q) - 1 /\ Head(q) = q[1] /\ Len(q) \in Nat /\ 1 \in 0 .. Len(q)
      /\ \A i \in 1 .. Len(Tail(q)) : Tail(q)[i] = q[1 + i]
  OBVIOUS
<1>0. Count(Tail(q), S) \in Nat
  BY <1>1, CountType
<1>b. Behind(q, 1, Tail(q), S)
  BY <1>1 DEF Behind
<1>2. Count(q, S) = Cardinality(WhereFirst(q, 1, S)) + Count(Tail(q), S)
  BY <1>1, <1>b, CountShift
<1>3. CASE Head(q) \in S
  <2>1. WhereFirst(q, 1, S) = {1}
    BY <1>1, <1>3 DEF WhereFirst
  <2>2. Cardinality(WhereFirst(q, 1, S)) = 1
    BY <2>1, FS_Singleton
  <2> QED  BY <1>0, <1>2, <1>3, <2>2
<1>4. CASE Head(q) \notin S
  <2>1. WhereFirst(q, 1, S) = {}
    BY <1>1, <1>4 DEF WhereFirst
  <2>2. Cardinality(WhereFirst(q, 1, S)) = 0
    BY <2>1, FS_EmptySet
  <2> QED  BY <1>0, <1>2, <1>4, <2>2
<1> QED  BY <1>3, <1>4

(* Two sequences, one behind the other, have what both have. *)
LEMMA CountConcat ==
    ASSUME NEW T, NEW S, NEW q \in Seq(T), NEW r \in Seq(T)
    PROVE  Count(q \o r, S) = Count(q, S) + Count(r, S)
<1> SUFFICES ASSUME NEW p, p = q \o r PROVE Count(p, S) = Count(q, S) + Count(r, S)
  OBVIOUS
<1>1. /\ p \in Seq(T) /\ Len(p) = Len(q) + Len(r) /\ Len(q) \in Nat /\ Len(r) \in Nat
      /\ \A i \in 1 .. Len(q) : p[i] = q[i]
      /\ \A i \in 1 .. Len(r) : p[Len(q) + i] = r[i]
  BY ConcatProperties
<1>2. PICK k : k = Len(q)
  OBVIOUS
<1>3. k \in 0 .. Len(p) /\ Len(r) = Len(p) - k /\ p \in Seq(T)
  BY <1>1, <1>2
<1>4. \A i \in 1 .. Len(r) : r[i] \in S <=> p[k + i] \in S
  BY <1>1, <1>2
<1>5. Count(p, S) = Cardinality(WhereFirst(p, k, S)) + Count(r, S)
  <2>1. Behind(p, k, r, S)
    BY <1>3, <1>4 DEF Behind
  <2> QED  BY <1>3, <2>1, CountShift
<1>6. WhereFirst(p, k, S) = Where(q, S)
  BY <1>1, <1>2 DEF Where, WhereFirst
<1> QED  BY <1>5, <1>6 DEF Count

(* A sequence of one element has it. *)
LEMMA CountOne ==
    ASSUME NEW S, NEW x
    PROVE  Count(<<x>>, S) = IF x \in S THEN 1 ELSE 0
<1>1. x \in S => Where(<<x>>, S) = {1}
  BY DEF Where
<1>2. x \notin S => Where(<<x>>, S) = {}
  BY DEF Where
<1> QED  BY <1>1, <1>2, FS_Singleton, FS_EmptySet DEF Count

(* A sequence with one more element has one more, or as many. *)
LEMMA CountAppend ==
    ASSUME NEW T, NEW S, NEW q \in Seq(T), NEW x \in T
    PROVE  Count(Append(q, x), S) = Count(q, S) + (IF x \in S THEN 1 ELSE 0)
<1>1. Append(q, x) = q \o <<x>> /\ <<x>> \in Seq(T)
  BY AppendIsConcat
<1>2. Count(q \o <<x>>, S) = Count(q, S) + Count(<<x>>, S)
  BY <1>1, CountConcat
<1>3. Count(<<x>>, S) = IF x \in S THEN 1 ELSE 0
  BY CountOne
<1> QED  BY <1>1, <1>2, <1>3

(* Where a message can be *)
MsgReq(m) == {r \in Requests : r.m = m}
MsgBuf(m) == {x \in Buf : x.m = m}
JobsOf(f, m) == {w \in Worker : f[w].m = m}
InJobs(m) == Cardinality(JobsOf(job, m))
InPipe(m) == Count(pipe, MsgReq(m))
One(c) == IF c THEN 1 ELSE 0

(* The places of m in the slot k of f, and in all of them *)
InSlot(s, m) == Count(Queued(s), MsgBuf(m))
SlotPlace(f, k, m) == {<<k, i>> : i \in Where(Queued(f[k]), MsgBuf(m))}
SlotPlaces(f, m) == UNION {{<<k, i>> : i \in {j \in DOMAIN Queued(f[k]) : Queued(f[k])[j].m = m}} : k \in DOMAIN f}
InSlots(f, m) == Cardinality(SlotPlaces(f, m))

(* What the lists of a slot hold are sequences of buffers. *)
LEMMA QueuedType ==
    \A s \in Socket : Queued(s) \in Seq(Buf) /\ s.dw \in Seq(Buf) /\ s.high \in Seq(Buf) /\ s.low \in Seq(Buf)
<1> SUFFICES ASSUME NEW s \in Socket
             PROVE  Queued(s) \in Seq(Buf) /\ s.dw \in Seq(Buf) /\ s.high \in Seq(Buf) /\ s.low \in Seq(Buf)
  OBVIOUS
<1>1. s.dw \in Seq(Buf) /\ s.high \in Seq(Buf) /\ s.low \in Seq(Buf)
  BY DEF Socket
<1>2. s.dw \o s.high \in Seq(Buf)
  BY <1>1, ConcatProperties
<1>3. s.dw \o s.high \o s.low \in Seq(Buf)
  BY <1>1, <1>2, ConcatProperties
<1> QED  BY <1>1, <1>3 DEF Queued

(* The positions of a message in the lists of a slot are finitely many. *)
LEMMA SlotIs ==
    ASSUME NEW s \in Socket, NEW m
    PROVE  /\ {j \in DOMAIN Queued(s) : Queued(s)[j].m = m} = Where(Queued(s), MsgBuf(m))
           /\ IsFiniteSet(Where(Queued(s), MsgBuf(m))) /\ InSlot(s, m) \in Nat
<1> DEFINE q == Queued(s)
<1>1. q \in Seq(Buf)
  BY QueuedType
<1> HIDE DEF q
<1>2. \A j \in DOMAIN q : q[j] \in Buf
  BY <1>1
<1>3. {j \in DOMAIN q : q[j].m = m} = Where(q, MsgBuf(m))
  BY <1>2 DEF Where, MsgBuf
<1>4. IsFiniteSet(Where(q, MsgBuf(m))) /\ Count(q, MsgBuf(m)) \in Nat
  BY <1>1, CountType
<1> QED  BY <1>3, <1>4 DEF q, InSlot

(* The places of a message in one slot, as a set, are as many as it has    *)
(* there.                                                                  *)
LEMMA SlotPlaceIs ==
    ASSUME NEW f \in [Slot -> Socket], NEW k \in Slot, NEW m
    PROVE  IsFiniteSet(SlotPlace(f, k, m)) /\ Cardinality(SlotPlace(f, k, m)) = InSlot(f[k], m) /\ InSlot(f[k], m) \in Nat
<1> DEFINE W == Where(Queued(f[k]), MsgBuf(m))
           g == [i \in W |-> <<k, i>>]
<1>1. IsFiniteSet(W) /\ InSlot(f[k], m) \in Nat
  BY SlotIs
<1>2. g \in Bijection(W, SlotPlace(f, k, m))
  <2>1. g \in [W -> SlotPlace(f, k, m)]
    BY DEF SlotPlace
  <2>2. \A i, j \in W : g[i] = g[j] => i = j
    OBVIOUS
  <2>3. \A p \in SlotPlace(f, k, m) : \E i \in W : g[i] = p
    BY DEF SlotPlace
  <2> HIDE DEF g, W
  <2> QED  BY <2>1, <2>2, <2>3 DEF Bijection, Injection, Surjection, IsInjective
<1> HIDE DEF g
<1>3. ExistsBijection(W, SlotPlace(f, k, m))
  BY <1>2 DEF ExistsBijection
<1>4. IsFiniteSet(SlotPlace(f, k, m)) /\ Cardinality(SlotPlace(f, k, m)) = Cardinality(W)
  <2> HIDE DEF W
  <2> QED  BY <1>1, <1>3, FS_Bijection
<1> QED  BY <1>1, <1>4 DEF InSlot, Count

(* Those of all slots are the union of them, and finitely many. *)
LEMMA SlotPlacesIs ==
    ASSUME NEW f \in [Slot -> Socket], NEW m
    PROVE  SlotPlaces(f, m) = UNION {SlotPlace(f, k, m) : k \in Slot} /\ IsFiniteSet(SlotPlaces(f, m)) /\ InSlots(f, m) \in Nat
<1>1. DOMAIN f = Slot
  OBVIOUS
<1>2. SlotPlaces(f, m) = UNION {SlotPlace(f, k, m) : k \in Slot}
  <2> DEFINE P(k) == {<<k, i>> : i \in {j \in DOMAIN Queued(f[k]) : Queued(f[k])[j].m = m}}
  <2>1. \A k \in Slot : P(k) = SlotPlace(f, k, m)
    BY SlotIs DEF SlotPlace
  <2>2. SlotPlaces(f, m) = UNION {P(k) : k \in Slot}
    BY <1>1 DEF SlotPlaces
  <2> HIDE DEF P
  <2> QED  BY <2>1, <2>2
<1> DEFINE F == [k \in Slot |-> SlotPlace(f, k, m)]
           SS == {SlotPlace(f, k, m) : k \in Slot}
<1>3. IsFiniteSet(SS)
  <2>1. IsFiniteSet(Slot)
    <3>1. Slots - 1 \in Int /\ 0 \in Int
      BY SocketAssumption
    <3> QED  BY <3>1, FS_Interval DEF Slot
  <2>2. F \in Surjection(Slot, SS)
    <3>1. F \in [Slot -> SS] /\ \A T \in SS : \E k \in Slot : F[k] = T
      OBVIOUS
    <3> HIDE DEF F, SS
    <3> QED  BY <3>1 DEF Surjection
  <2> HIDE DEF F, SS
  <2> QED  BY <2>1, <2>2, FS_Surjection
<1>4. \A T \in SS : IsFiniteSet(T)
  BY SlotPlaceIs
<1> HIDE DEF SS
<1>5. IsFiniteSet(UNION SS)
  BY <1>3, <1>4, FS_UNION
<1>6. IsFiniteSet(SlotPlaces(f, m))
  BY <1>2, <1>5 DEF SS
<1> QED  BY <1>2, <1>6, FS_CardinalityType DEF InSlots

(* Two tables that differ in one slot differ by what is in that slot. *)
LEMMA SlotsCount ==
    ASSUME NEW f \in [Slot -> Socket], NEW g \in [Slot -> Socket], NEW k \in Slot,
           \A j \in Slot : j # k => g[j] = f[j], NEW m
    PROVE  /\ InSlots(f, m) \in Nat /\ InSlot(f[k], m) \in Nat /\ InSlots(g, m) \in Nat /\ InSlot(g[k], m) \in Nat
           /\ InSlots(g, m) + InSlot(f[k], m) = InSlots(f, m) + InSlot(g[k], m)
           /\ InSlot(f[k], m) <= InSlots(f, m)
<1> DEFINE R == UNION {SlotPlace(f, j, m) : j \in Slot \ {k}}
           A == SlotPlace(f, k, m)
           B == SlotPlace(g, k, m)
           a == InSlots(f, m)
           b == InSlot(f[k], m)
           c == InSlots(g, m)
           d == InSlot(g[k], m)
           r == Cardinality(R)
<1>1. SlotPlaces(f, m) = R \cup A
  BY SlotPlacesIs
<1>2. SlotPlaces(g, m) = R \cup B
  <2>1. SlotPlaces(g, m) = UNION {SlotPlace(g, j, m) : j \in Slot}
    BY SlotPlacesIs
  <2>2. \A j \in Slot \ {k} : SlotPlace(g, j, m) = SlotPlace(f, j, m)
    BY DEF SlotPlace
  <2> QED  BY <2>1, <2>2
<1>3. R \cap A = {} /\ R \cap B = {}
  BY DEF SlotPlace
<1>4. IsFiniteSet(SlotPlaces(f, m)) /\ a \in Nat /\ c \in Nat
  BY SlotPlacesIs
<1>5. IsFiniteSet(A) /\ IsFiniteSet(B) /\ Cardinality(A) = b /\ Cardinality(B) = d /\ b \in Nat /\ d \in Nat
  BY SlotPlaceIs
<1>6. a = Cardinality(R \cup A) /\ c = Cardinality(R \cup B)
  BY <1>1, <1>2 DEF InSlots
<1> HIDE DEF A, B, a, b, c, d
<1>7. IsFiniteSet(R) /\ r \in Nat
  <2>1. R \in SUBSET SlotPlaces(f, m)
    BY <1>1
  <2> HIDE DEF R
  <2> QED  BY <1>4, <2>1, FS_Subset, FS_CardinalityType
<1> HIDE DEF R
<1>8. Cardinality(R \cup A) = r + Cardinality(A) - Cardinality(R \cap A)
  BY <1>5, <1>7, FS_Union
<1>9. Cardinality(R \cup B) = r + Cardinality(B) - Cardinality(R \cap B)
  BY <1>5, <1>7, FS_Union
<1> HIDE DEF r
<1>10. a = r + b /\ c = r + d
  BY <1>3, <1>5, <1>6, <1>7, <1>8, <1>9, FS_EmptySet
<1>11. c + b = a + d /\ b <= a
  BY <1>5, <1>7, <1>10
<1> QED  BY <1>4, <1>5, <1>11 DEF a, b, c, d

(* A worker that goes on gives up one message and takes another. *)
LEMMA JobsCount ==
    ASSUME NEW f \in [Worker -> Requests], NEW g \in [Worker -> Requests], NEW w \in Worker,
           \A v \in Worker : v # w => g[v] = f[v], NEW m
    PROVE  /\ Cardinality(JobsOf(f, m)) \in Nat /\ Cardinality(JobsOf(g, m)) \in Nat
           /\ Cardinality(JobsOf(g, m)) + One(f[w].m = m) = Cardinality(JobsOf(f, m)) + One(g[w].m = m)
<1> DEFINE S == JobsOf(f, m)
           T == JobsOf(g, m)
           R == S \ {w}
<1>1. IsFiniteSet(S) /\ IsFiniteSet(T) /\ Cardinality(S) \in Nat /\ Cardinality(T) \in Nat
  <2>1. S \in SUBSET Worker /\ T \in SUBSET Worker /\ IsFiniteSet(Worker)
    BY SocketAssumption DEF JobsOf
  <2> HIDE DEF S, T
  <2> QED  BY <2>1, FS_Subset, FS_CardinalityType
<1>2. R = T \ {w} /\ (w \in S <=> f[w].m = m) /\ (w \in T <=> g[w].m = m)
  BY DEF JobsOf
<1> HIDE DEF S, T, R
<1>4. Cardinality(R) = IF w \in S THEN Cardinality(S) - 1 ELSE Cardinality(S)
  BY <1>1, FS_RemoveElement DEF R
<1>5. Cardinality(R) = IF w \in T THEN Cardinality(T) - 1 ELSE Cardinality(T)
  BY <1>1, <1>2, FS_RemoveElement
<1>6. Cardinality(T) + One(f[w].m = m) = Cardinality(S) + One(g[w].m = m)
  BY <1>1, <1>2, <1>4, <1>5 DEF One
<1> QED  BY <1>1, <1>6 DEF S, T

(* Every message that was sent is in one place, and no other is anywhere. *)
PlacesInv ==
    /\ \A m \in Msg : freed[m] + InJobs(m) + InPipe(m) + InSlots(sock, m) = One(m <= nmsg)
    /\ \A w \in Worker : at[w] = "idle" => job[w] = NoReq

(* How often the pipe holds a message is a number. *)
LEMMA PipeCount ==
    \A q \in Seq(Requests) : \A m : {i \in DOMAIN q : q[i].m = m} = Where(q, MsgReq(m)) /\ Count(q, MsgReq(m)) \in Nat
<1> SUFFICES ASSUME NEW q \in Seq(Requests), NEW m
             PROVE  {i \in DOMAIN q : q[i].m = m} = Where(q, MsgReq(m)) /\ Count(q, MsgReq(m)) \in Nat
  OBVIOUS
<1>1. \A j \in DOMAIN q : q[j] \in Requests
  OBVIOUS
<1> QED  BY <1>1, CountType DEF Where, MsgReq

(* How often the workers, the pipe and the slots have a message are        *)
(* numbers.                                                                *)
LEMMA PlacesNat ==
    TypeOK => \A m \in Msg : freed[m] \in Nat /\ InJobs(m) \in Nat /\ InPipe(m) \in Nat /\ InSlots(sock, m) \in Nat
<1> SUFFICES ASSUME TypeOK, NEW m \in Msg
             PROVE  freed[m] \in Nat /\ InJobs(m) \in Nat /\ InPipe(m) \in Nat /\ InSlots(sock, m) \in Nat
  OBVIOUS
<1>1. freed \in [Msg -> Nat] /\ pipe \in Seq(Requests) /\ sock \in [Slot -> Socket] /\ job \in [Worker -> Requests]
  BY DEF TypeOK
<1>2. InJobs(m) \in Nat
  <2> DEFINE S == JobsOf(job, m)
  <2>1. S \in SUBSET Worker /\ IsFiniteSet(Worker)
    BY SocketAssumption DEF JobsOf
  <2> HIDE DEF S
  <2>2. Cardinality(S) \in Nat
    BY <2>1, FS_Subset, FS_CardinalityType
  <2> QED  BY <2>2 DEF S, InJobs
<1>3. InPipe(m) \in Nat
  BY <1>1, PipeCount DEF InPipe
<1>4. InSlots(sock, m) \in Nat
  BY <1>1, SlotPlacesIs
<1> QED  BY <1>1, <1>2, <1>3, <1>4

(* A message that was sent has exactly one place, any other has none. *)
LEMMA PlacesHold ==
    ASSUME TypeOK, PlacesInv PROVE \A m \in Msg : Places(m) = IF m <= nmsg THEN 1 ELSE 0
<1> SUFFICES ASSUME NEW m \in Msg PROVE Places(m) = IF m <= nmsg THEN 1 ELSE 0
  OBVIOUS
<1>1. Cardinality({i \in DOMAIN pipe : pipe[i].m = m}) = InPipe(m)
  BY PipeCount DEF TypeOK, InPipe, Count
<1>2. Cardinality(UNION {{<<k, i>> : i \in {j \in DOMAIN Queued(sock[k]) : Queued(sock[k])[j].m = m}} : k \in DOMAIN sock})
        = InSlots(sock, m)
  BY DEF InSlots, SlotPlaces
<1>3. Places(m) = freed[m] + InJobs(m) + InPipe(m) + InSlots(sock, m)
  BY <1>1, <1>2, Zenon DEF Places, InJobs, JobsOf
<1> QED  BY <1>3 DEF PlacesInv, One

(* A step that changes one slot, and takes or adds requests, keeps the balance. *)
Balanced(k, old, new) ==
    \A m \in Msg :
        freed'[m] + One(new = m) + Count(pipe', MsgReq(m)) + InSlot(sock'[k], m) + One(m <= nmsg)
            = freed[m] + One(old = m) + Count(pipe, MsgReq(m)) + InSlot(sock[k], m) + One(m <= nmsg')

(* A step of a worker that keeps the balance of every message keeps the    *)
(* places.                                                                 *)
LEMMA BalanceWorker ==
    ASSUME TypeOK, TypeOK', PlacesInv, NEW k \in Slot, OneSlot(k), NEW w \in Worker, NEW a, NEW j,
           Goes(w, a, j), a = "idle" => j = NoReq, Balanced(k, job[w].m, j.m)
    PROVE  PlacesInv'
<1>1. /\ sock \in [Slot -> Socket] /\ sock' \in [Slot -> Socket] /\ job \in [Worker -> Requests] /\ job' \in [Worker -> Requests]
      /\ pipe \in Seq(Requests) /\ pipe' \in Seq(Requests) /\ freed \in [Msg -> Nat] /\ freed' \in [Msg -> Nat]
  BY DEF TypeOK
<1>2. ASSUME NEW m \in Msg PROVE freed'[m] + InJobs(m)' + InPipe(m)' + InSlots(sock, m)' = One((m <= nmsg)')
  <2>1. /\ InSlots(sock, m) \in Nat /\ InSlots(sock', m) \in Nat /\ InSlot(sock[k], m) \in Nat /\ InSlot(sock'[k], m) \in Nat
        /\ InSlots(sock', m) + InSlot(sock[k], m) = InSlots(sock, m) + InSlot(sock'[k], m)
    BY <1>1, SlotsCount DEF OneSlot
  <2>2. /\ InJobs(m) \in Nat /\ InJobs(m)' \in Nat
        /\ InJobs(m)' + One(job[w].m = m) = InJobs(m) + One(j.m = m)
    <3>1. \A v \in Worker : v # w => job'[v] = job[v]
      BY DEF Goes
    <3>2. /\ Cardinality(JobsOf(job, m)) \in Nat /\ Cardinality(JobsOf(job', m)) \in Nat
          /\ Cardinality(JobsOf(job', m)) + One(job[w].m = m) = Cardinality(JobsOf(job, m)) + One(job'[w].m = m)
      <4>1. PICK f \in [Worker -> Requests] : f = job
        BY <1>1
      <4>2. PICK g \in [Worker -> Requests] : g = job'
        BY <1>1
      <4>3. \A v \in Worker : v # w => g[v] = f[v]
        BY <3>1, <4>1, <4>2
      <4>4. /\ Cardinality(JobsOf(f, m)) \in Nat /\ Cardinality(JobsOf(g, m)) \in Nat
            /\ Cardinality(JobsOf(g, m)) + One(f[w].m = m) = Cardinality(JobsOf(f, m)) + One(g[w].m = m)
        BY <4>3, JobsCount
      <4> QED  BY <4>1, <4>2, <4>4
    <3>3. job'[w] = j
      BY DEF Goes
    <3> QED  BY <3>2, <3>3 DEF InJobs
  <2>3. /\ InPipe(m) = Count(pipe, MsgReq(m)) /\ InPipe(m)' = Count(pipe', MsgReq(m))
        /\ InPipe(m) \in Nat /\ InPipe(m)' \in Nat
    BY <1>1, PipeCount DEF InPipe
  <2>4. freed[m] \in Nat /\ freed'[m] \in Nat
    BY <1>1
  <2>5. freed[m] + InJobs(m) + InPipe(m) + InSlots(sock, m) = One(m <= nmsg)
    BY DEF PlacesInv
  <2>6. freed'[m] + One(j.m = m) + InPipe(m)' + InSlot(sock'[k], m) + One(m <= nmsg)
          = freed[m] + One(job[w].m = m) + InPipe(m) + InSlot(sock[k], m) + One(m <= nmsg')
    BY <2>3 DEF Balanced
  <2>7. One(m <= nmsg) \in Nat /\ One(m <= nmsg') \in Nat /\ One(j.m = m) \in Nat /\ One(job[w].m = m) \in Nat
    BY DEF One
  <2> DEFINE f1 == freed[m]  f2 == freed'[m]  j1 == InJobs(m)  j2 == InJobs(m)'  p1 == InPipe(m)  p2 == InPipe(m)'
             s1 == InSlots(sock, m)  s2 == InSlots(sock', m)  l1 == InSlot(sock[k], m)  l2 == InSlot(sock'[k], m)
             o1 == One(job[w].m = m)  o2 == One(j.m = m)  n1 == One(m <= nmsg)  n2 == One(m <= nmsg')
  <2>8. /\ {f1, f2, j1, j2, p1, p2, s1, s2, l1, l2, o1, o2, n1, n2} \subseteq Nat
        /\ s2 + l1 = s1 + l2 /\ j2 + o1 = j1 + o2 /\ f1 + j1 + p1 + s1 = n1
        /\ f2 + o2 + p2 + l2 + n1 = f1 + o1 + p1 + l1 + n2
    BY <2>1, <2>2, <2>3, <2>4, <2>5, <2>6, <2>7
  <2> HIDE DEF f1, f2, j1, j2, p1, p2, s1, s2, l1, l2, o1, o2, n1, n2
  <2>9. f2 + j2 + p2 + s2 = n2
    BY <2>8
  <2> QED  BY <2>9 DEF f2, j2, p2, s2, n2
<1>3. \A v \in Worker : at'[v] = "idle" => job'[v] = NoReq
  BY DEF PlacesInv, Goes
<1> QED  BY <1>2, <1>3 DEF PlacesInv

(* A step of the socket thread that keeps the balance keeps the places. *)
LEMMA BalanceThread ==
    ASSUME TypeOK, TypeOK', PlacesInv, NEW k \in Slot, OneSlot(k), UNCHANGED workerVars, Balanced(k, 0, 0)
    PROVE  PlacesInv'
<1>1. /\ sock \in [Slot -> Socket] /\ sock' \in [Slot -> Socket] /\ job' = job /\ at' = at
      /\ pipe \in Seq(Requests) /\ pipe' \in Seq(Requests) /\ freed \in [Msg -> Nat] /\ freed' \in [Msg -> Nat]
  BY DEF TypeOK, workerVars
<1>2. ASSUME NEW m \in Msg PROVE freed'[m] + InJobs(m)' + InPipe(m)' + InSlots(sock, m)' = One((m <= nmsg)')
  <2>1. /\ InSlots(sock, m) \in Nat /\ InSlots(sock', m) \in Nat /\ InSlot(sock[k], m) \in Nat /\ InSlot(sock'[k], m) \in Nat
        /\ InSlots(sock', m) + InSlot(sock[k], m) = InSlots(sock, m) + InSlot(sock'[k], m)
    BY <1>1, SlotsCount DEF OneSlot
  <2>2. InJobs(m) \in Nat /\ InJobs(m)' = InJobs(m)
    BY <1>1, PlacesNat DEF InJobs
  <2>3. /\ InPipe(m) = Count(pipe, MsgReq(m)) /\ InPipe(m)' = Count(pipe', MsgReq(m))
        /\ InPipe(m) \in Nat /\ InPipe(m)' \in Nat
    BY <1>1, PipeCount DEF InPipe
  <2>4. freed[m] \in Nat /\ freed'[m] \in Nat
    BY <1>1
  <2>5. freed[m] + InJobs(m) + InPipe(m) + InSlots(sock, m) = One(m <= nmsg)
    BY DEF PlacesInv
  <2>6. freed'[m] + One(0 = m) + InPipe(m)' + InSlot(sock'[k], m) + One(m <= nmsg)
          = freed[m] + One(0 = m) + InPipe(m) + InSlot(sock[k], m) + One(m <= nmsg')
    BY <2>3 DEF Balanced
  <2>7. One(m <= nmsg) \in Nat /\ One(m <= nmsg') \in Nat /\ One(0 = m) \in Nat
    BY DEF One
  <2> DEFINE f1 == freed[m]  f2 == freed'[m]  j1 == InJobs(m)  p1 == InPipe(m)  p2 == InPipe(m)'
             s1 == InSlots(sock, m)  s2 == InSlots(sock', m)  l1 == InSlot(sock[k], m)  l2 == InSlot(sock'[k], m)
             o == One(0 = m)  n1 == One(m <= nmsg)  n2 == One(m <= nmsg')
  <2>8. /\ f1 \in Nat /\ f2 \in Nat /\ j1 \in Nat /\ p1 \in Nat /\ p2 \in Nat /\ s1 \in Nat /\ s2 \in Nat
        /\ l1 \in Nat /\ l2 \in Nat /\ o \in Nat /\ n1 \in Nat /\ n2 \in Nat
        /\ s2 + l1 = s1 + l2 /\ f1 + j1 + p1 + s1 = n1
        /\ f2 + o + p2 + l2 + n1 = f1 + o + p1 + l1 + n2
    BY <2>1, <2>2, <2>3, <2>4, <2>5, <2>6, <2>7
  <2> HIDE DEF f1, f2, j1, p1, p2, s1, s2, l1, l2, o, n1, n2
  <2>9. f2 + p2 + l2 + n1 = f1 + p1 + l1 + n2
    BY <2>8
  <2>10. f2 + j1 + p2 + s2 = n2
    BY <2>8, <2>9
  <2> QED  BY <2>2, <2>10 DEF f2, j1, p2, s2, n2
<1>3. \A v \in Worker : at'[v] = "idle" => job'[v] = NoReq
  BY <1>1 DEF PlacesInv
<1> QED  BY <1>2, <1>3 DEF PlacesInv

(* What a slot has of a message, list by list, is at most the message once. *)
LEMMA Alone ==
    ASSUME TypeOK, PlacesInv, NEW k \in Slot, NEW m \in Msg
    PROVE  InSlot(sock[k], m) \in {0, 1}
<1>1. InSlot(sock[k], m) \in Nat /\ InSlot(sock[k], m) <= InSlots(sock, m)
  <2>1. sock \in [Slot -> Socket]
    BY DEF TypeOK
  <2> QED  BY <2>1, SlotsCount
<1>2. freed[m] + InJobs(m) + InPipe(m) + InSlots(sock, m) = One(m <= nmsg)
  BY DEF PlacesInv
<1>3. freed[m] \in Nat /\ InJobs(m) \in Nat /\ InPipe(m) \in Nat /\ InSlots(sock, m) \in Nat
  BY PlacesNat
<1> QED  BY <1>1, <1>2, <1>3 DEF One

(* How often a slot holds a message, list by list. *)
LEMMA InSlotIs ==
    ASSUME NEW s \in Socket, NEW m
    PROVE  LET a == Count(s.dw, MsgBuf(m))
               b == Count(s.high, MsgBuf(m))
               c == Count(s.low, MsgBuf(m))
           IN  a \in Nat /\ b \in Nat /\ c \in Nat /\ InSlot(s, m) = a + b + c
<1>1. s.dw \in Seq(Buf) /\ s.high \in Seq(Buf) /\ s.low \in Seq(Buf)
  BY QueuedType
<1>2. Count(s.dw, MsgBuf(m)) \in Nat /\ Count(s.high, MsgBuf(m)) \in Nat /\ Count(s.low, MsgBuf(m)) \in Nat
  BY <1>1, CountType
<1>3. Count(s.dw \o s.high, MsgBuf(m)) = Count(s.dw, MsgBuf(m)) + Count(s.high, MsgBuf(m))
  BY <1>1, CountConcat
<1>4. Count((s.dw \o s.high) \o s.low, MsgBuf(m)) = Count(s.dw \o s.high, MsgBuf(m)) + Count(s.low, MsgBuf(m))
  <2>1. s.dw \o s.high \in Seq(Buf)
    BY <1>1, ConcatProperties
  <2> QED  BY <1>1, <2>1, CountConcat
<1> QED  BY <1>2, <1>3, <1>4 DEF InSlot, Queued

(* A message is among those of a list when the list holds it at least      *)
(* once.                                                                   *)
LEMMA MsgsCount ==
    ASSUME NEW q \in Seq(Buf), NEW m
    PROVE  Count(q, MsgBuf(m)) \in Nat /\ (m \in Msgs(q) <=> Count(q, MsgBuf(m)) # 0)
<1> DEFINE W == Where(q, MsgBuf(m))
<1>1. IsFiniteSet(W) /\ Cardinality(W) \in Nat
  BY CountType DEF Count
<1>2. m \in Msgs(q) <=> W # {}
  <2>1. \A i \in DOMAIN q : q[i] \in Buf
    OBVIOUS
  <2> QED  BY <2>1 DEF Msgs, Where, MsgBuf
<1> HIDE DEF W
<1>3. W = {} <=> Cardinality(W) = 0
  BY <1>1, FS_EmptySet
<1> QED  BY <1>1, <1>2, <1>3 DEF W, Count

(* FreeMsgs frees each message of its set once more. *)
LEMMA FreedIs ==
    ASSUME TypeOK, NEW ms, FreeMsgs(ms), NEW m \in Msg
    PROVE  freed'[m] = freed[m] + One(m \in ms) /\ freed[m] \in Nat
<1>1. freed[m] \in Nat
  BY DEF TypeOK
<1>2. freed'[m] = IF m \in ms THEN freed[m] + 1 ELSE freed[m]
  BY Zenon DEF FreeMsgs
<1> QED  BY <1>1, <1>2 DEF One

(* A slot with the same lists holds the same messages. *)
LEMMA SameSlot == \A s, t, m : SameLists(s, t) => InSlot(t, m) = InSlot(s, m)
BY DEF SameLists, InSlot, Queued

(* The terms of a balance are numbers. *)
LEMMA BalanceNat ==
    ASSUME TypeOK, TypeOK', NEW k \in Slot, NEW m \in Msg, NEW x
    PROVE  /\ freed[m] \in Nat /\ freed'[m] \in Nat /\ One(x = m) \in Nat
           /\ Count(pipe, MsgReq(m)) \in Nat /\ Count(pipe', MsgReq(m)) \in Nat
           /\ InSlot(sock[k], m) \in Nat /\ InSlot(sock'[k], m) \in Nat /\ One(m <= nmsg) \in Nat /\ One(m <= nmsg') \in Nat
<1>1. /\ sock \in [Slot -> Socket] /\ sock' \in [Slot -> Socket] /\ freed \in [Msg -> Nat] /\ freed' \in [Msg -> Nat]
      /\ pipe \in Seq(Requests) /\ pipe' \in Seq(Requests)
  BY DEF TypeOK
<1>2. Count(pipe, MsgReq(m)) \in Nat /\ Count(pipe', MsgReq(m)) \in Nat
  BY <1>1, CountType
<1>3. sock[k] \in Socket /\ sock'[k] \in Socket
  BY <1>1
<1>4. InSlot(sock[k], m) \in Nat /\ InSlot(sock'[k], m) \in Nat
  BY <1>3, SlotIs
<1> QED  BY <1>1, <1>2, <1>4 DEF One

(* No message changes its place, but for those of a worker or of the pipe. *)
LEMMA BalanceSame ==
    ASSUME TypeOK, NEW k \in Slot, SameLists(sock[k], sock'[k]), UNCHANGED <<pipe, freed, nmsg>>, NEW x
    PROVE  Balanced(k, x, x)
BY SameSlot DEF Balanced

(* A request that is put into the pipe. *)
LEMMA AddCount ==
    ASSUME TypeOK, NEW r \in Requests, pipe' = Append(pipe, r), NEW m \in Msg
    PROVE  Count(pipe', MsgReq(m)) = Count(pipe, MsgReq(m)) + One(r.m = m)
<1>1. pipe \in Seq(Requests)
  BY DEF TypeOK
<1>2. Count(Append(pipe, r), MsgReq(m)) = Count(pipe, MsgReq(m)) + (IF r \in MsgReq(m) THEN 1 ELSE 0)
  BY <1>1, CountAppend
<1>3. r \in MsgReq(m) <=> r.m = m
  BY DEF MsgReq
<1> QED  BY <1>2, <1>3 DEF One

(* A request that is taken from the pipe. *)
LEMMA TakeCount ==
    ASSUME TypeOK, pipe # <<>>, pipe' = Tail(pipe), NEW m \in Msg
    PROVE  Count(pipe, MsgReq(m)) = Count(pipe', MsgReq(m)) + One(Cmd.m = m)
<1>1. pipe \in Seq(Requests)
  BY DEF TypeOK
<1>2. Count(pipe, MsgReq(m)) = Count(Tail(pipe), MsgReq(m)) + (IF Head(pipe) \in MsgReq(m) THEN 1 ELSE 0)
  BY <1>1, CountTail
<1>3. Cmd \in MsgReq(m) <=> Cmd.m = m
  BY CmdType DEF MsgReq
<1> QED  BY <1>2, <1>3 DEF One, Cmd

(* Every step of a worker keeps each message in one place. *)
LEMMA PlacesWorker ==
    ASSUME TypeOK, PlacesInv, NEW w \in Worker, Request(w) \/ WorkerStep(w)
    PROVE  PlacesInv'
<1>t. /\ TypeOK' /\ sock \in [Slot -> Socket] /\ pipe \in Seq(Requests) /\ nmsg \in 0 .. MaxMsg
      /\ sock' \in [Slot -> Socket]
  <2>1. TypeOK'
    BY WorkerTypes
  <2> QED  BY <2>1 DEF TypeOK
<1>j. /\ job[w] \in Requests /\ job[w].id \in Nat /\ Hash(job[w].id) \in Slot
      /\ at[w] = "idle" => job[w] = NoReq
      /\ at[w] \in {"try", "locked"} => job[w].m \in Msg
  BY JobTypes DEF PlacesInv
<1>r. \A cmd, id, m : Req(cmd, id, m).cmd = cmd /\ Req(cmd, id, m).id = id /\ Req(cmd, id, m).m = m
  BY DEF Req
<1>0. NoReq.m = 0 /\ 0 \notin Msg
  <2>1. NoReq.m = 0
    BY DEF NoReq, Req
  <2>2. 0 \notin Msg
    BY SocketAssumption DEF Msg
  <2> QED  BY <2>1, <2>2
<1>k. PICK k \in Slot : k = Hash(job[w].id)
  BY <1>j
<1>1. ASSUME NEW cmd \in Kinds, Reserve(w, cmd) PROVE PlacesInv'
  <2>1. PICK id \in Id :
               /\ alloc_id < id /\ alloc_id' = id /\ sock[Hash(id)].type = "INVALID" /\ Hash(id) \in Slot
               /\ Keeps(Hash(id)) /\ sock'[Hash(id)].type = "RESERVE" /\ sock'[Hash(id)].lock = sock[Hash(id)].lock
               /\ at[w] = "idle" /\ Goes(w, "reserve", Req(cmd, id, 0)) /\ cmd \in Opening
               /\ UNCHANGED <<pipe, threadVars, nmsg, nctl, from, told, freed, wire, marks, failed>>
    BY <1>1, ReserveEffect
  <2>2. PICK h \in Slot : h = Hash(id)
    BY <2>1
  <2>3. OneSlot(h) /\ SameLists(sock[h], sock'[h])
    BY <2>1, <2>2 DEF Keeps
  <2>4. Balanced(h, 0, 0)
    BY <2>1, <2>3, BalanceSame
  <2>5. job[w].m = 0 /\ Req(cmd, id, 0).m = 0
    BY <1>j, <1>0, <1>r, <2>1
  <2> QED  BY <1>t, <2>1, <2>3, <2>4, <2>5, BalanceWorker
<1>2. CASE ReserveSet(w)
  <2>1. /\ Goes(w, "pipe", job[w]) /\ OneSlot(k) /\ SameLists(sock[k], sock'[k]) /\ UNCHANGED <<pipe, freed, nmsg>>
    BY <1>2, <1>k, ReserveSetEffect DEF bounds
  <2>2. Balanced(k, job[w].m, job[w].m)
    BY <2>1, BalanceSame
  <2> QED  BY <1>t, <2>1, <2>2, BalanceWorker
<1>3. CASE SendRequest(w)
  <2>1. Goes(w, "idle", NoReq) /\ pipe' = Append(pipe, job[w]) /\ UNCHANGED <<sock, freed, nmsg>>
    BY <1>3, SendRequestEffect DEF bounds
  <2>2. OneSlot(k) /\ SameLists(sock[k], sock'[k])
    BY <1>t, <2>1 DEF OneSlot, SameLists
  <2>3. Balanced(k, job[w].m, NoReq.m)
    <3> SUFFICES ASSUME NEW m \in Msg
                 PROVE freed'[m] + One(NoReq.m = m) + Count(pipe', MsgReq(m)) + InSlot(sock'[k], m) + One(m <= nmsg)
                         = freed[m] + One(job[w].m = m) + Count(pipe, MsgReq(m)) + InSlot(sock[k], m) + One(m <= nmsg')
      BY Zenon DEF Balanced
    <3>1. Count(pipe', MsgReq(m)) = Count(pipe, MsgReq(m)) + One(job[w].m = m)
      BY <1>j, <2>1, AddCount
    <3>2. One(NoReq.m = m) = 0
      BY <1>0 DEF One
    <3>3. /\ freed[m] \in Nat /\ One(job[w].m = m) \in Nat /\ Count(pipe, MsgReq(m)) \in Nat
          /\ InSlot(sock[k], m) \in Nat /\ One(m <= nmsg) \in Nat
      BY <1>t, BalanceNat
    <3> QED  BY <2>1, <3>1, <3>2, <3>3
  <2> QED  BY <1>t, <2>1, <2>2, <2>3, BalanceWorker
<1>4. ASSUME NEW id \in Id, NEW cmd \in {"K", "Kill", "S"}, Control(w, cmd, id) PROVE PlacesInv'
  <2>1. pipe' = Append(pipe, Req(cmd, id, 0)) /\ UNCHANGED workerVars /\ UNCHANGED <<sock, freed, nmsg>>
    BY <1>4 DEF Control
  <2>2. OneSlot(k) /\ SameLists(sock[k], sock'[k])
    BY <1>t, <2>1 DEF OneSlot, SameLists
  <2>3. Req(cmd, id, 0) \in Requests
    <3>1. id \in 0 .. MaxId
      BY SocketAssumption DEF Id
    <3>2. cmd \in {"", "S", "clear", "events"} \cup Opening \cup Closing
      BY DEF Closing
    <3> QED  BY <3>1, <3>2, ReqType, Zenon
  <2>4. Balanced(k, 0, 0)
    <3> SUFFICES ASSUME NEW m \in Msg
                 PROVE freed'[m] + One(0 = m) + Count(pipe', MsgReq(m)) + InSlot(sock'[k], m) + One(m <= nmsg)
                         = freed[m] + One(0 = m) + Count(pipe, MsgReq(m)) + InSlot(sock[k], m) + One(m <= nmsg')
      BY Zenon DEF Balanced
    <3>1. Count(pipe', MsgReq(m)) = Count(pipe, MsgReq(m)) + One(Req(cmd, id, 0).m = m)
      BY <2>1, <2>3, AddCount
    <3>2. One(Req(cmd, id, 0).m = m) = 0
      BY <1>0, <1>r DEF One
    <3>3. Count(pipe, MsgReq(m)) \in Nat
      BY <1>t, BalanceNat
    <3> QED  BY <2>1, <3>1, <3>2, <3>3
  <2> QED  BY <1>t, <2>1, <2>2, <2>4, BalanceThread
<1>5. ASSUME NEW id \in Id, NEW cmd \in {"D", "P"}, Send(w, cmd, id) PROVE PlacesInv'
  <2>1. /\ at[w] = "idle" /\ nmsg' = nmsg + 1 /\ nmsg' \in Msg
        /\ \/ Goes(w, IF cmd = "D" THEN "try" ELSE "inc", Req(cmd, id, nmsg')) /\ UNCHANGED freed
           \/ FreeMsgs({nmsg'}) /\ UNCHANGED workerVars
        /\ UNCHANGED <<sock, pipe>>
    BY <1>5, SendEffect
  <2>2. OneSlot(k) /\ SameLists(sock[k], sock'[k])
    BY <1>t, <2>1 DEF OneSlot, SameLists
  <2>3. \A m \in Msg : One(m <= nmsg') = One(m <= nmsg) + One(nmsg' = m) /\ One(m <= nmsg) \in Nat /\ One(nmsg' = m) \in Nat
    BY <1>t, <2>1 DEF One, Msg
  <2>4. job[w].m = 0
    BY <1>0, <1>j, <2>1
  <2>5. CASE Goes(w, IF cmd = "D" THEN "try" ELSE "inc", Req(cmd, id, nmsg')) /\ UNCHANGED freed
    <3>1. Balanced(k, job[w].m, Req(cmd, id, nmsg').m)
      <4> SUFFICES ASSUME NEW m \in Msg
                   PROVE freed'[m] + One(nmsg' = m) + Count(pipe', MsgReq(m)) + InSlot(sock'[k], m) + One(m <= nmsg)
                           = freed[m] + One(0 = m) + Count(pipe, MsgReq(m)) + InSlot(sock[k], m) + One(m <= nmsg')
        BY <1>r, <2>4 DEF Balanced
      <4>1. One(0 = m) = 0
        BY <1>0 DEF One
      <4>2. freed[m] \in Nat /\ Count(pipe, MsgReq(m)) \in Nat /\ InSlot(sock[k], m) \in Nat
        BY <1>t, BalanceNat
      <4> QED  BY <2>1, <2>3, <2>5, <4>1, <4>2
    <3> QED  BY <1>t, <2>2, <2>5, <3>1, BalanceWorker
  <2>6. CASE FreeMsgs({nmsg'}) /\ UNCHANGED workerVars
    <3>1. Balanced(k, 0, 0)
      <4> SUFFICES ASSUME NEW m \in Msg
                   PROVE freed'[m] + One(0 = m) + Count(pipe', MsgReq(m)) + InSlot(sock'[k], m) + One(m <= nmsg)
                           = freed[m] + One(0 = m) + Count(pipe, MsgReq(m)) + InSlot(sock[k], m) + One(m <= nmsg')
        BY Zenon DEF Balanced
      <4>1. freed'[m] = freed[m] + One(nmsg' = m)
        <5>1. freed'[m] = freed[m] + One(m \in {nmsg'})
          BY <2>6, FreedIs
        <5> QED  BY <5>1 DEF One
      <4>2. freed[m] \in Nat /\ Count(pipe, MsgReq(m)) \in Nat /\ InSlot(sock[k], m) \in Nat /\ One(0 = m) \in Nat
        BY <1>t, BalanceNat
      <4> QED  BY <2>1, <2>3, <4>1, <4>2
    <3> QED  BY <1>t, <2>2, <2>6, <3>1, BalanceThread
  <2> QED  BY <2>1, <2>5, <2>6
<1>6. CASE TryDirectWrite(w)
  <2>1. /\ Goes(w, "locked", job[w]) \/ Goes(w, "inc", job[w])
        /\ Keeps(k) \/ UNCHANGED sock
        /\ UNCHANGED <<pipe, freed, nmsg>>
    BY <1>6, <1>k, TryEffect DEF bounds
  <2>2. OneSlot(k) /\ SameLists(sock[k], sock'[k])
    BY <1>t, <2>1 DEF OneSlot, SameLists, Keeps
  <2>3. Balanced(k, job[w].m, job[w].m)
    BY <2>1, <2>2, BalanceSame
  <2> QED  BY <1>t, <2>1, <2>2, <2>3, BalanceWorker
<1>7. CASE DirectWrite(w)
  <2>0. PICK s : s = sock[k]
    OBVIOUS
  <2>00. PICK t : t = sock'[k]
    OBVIOUS
  <2>1. /\ at[w] = "locked" /\ OneSlot(k)
        /\ \/ Goes(w, "inc", job[w]) /\ Keeps(k) /\ UNCHANGED <<job, freed, wire>>
           \/ /\ Goes(w, "idle", NoReq) /\ CanDirectWrite(s, job[w].id)
              /\ \/ Keeps(k) /\ FreeMsgs({job[w].m})
                 \/ \E n \in 0 .. Size - 1 :
                       /\ t.high = s.high /\ t.low = s.low /\ t.dw = <<[m |-> job[w].m, off |-> n]>>
                       /\ [m |-> job[w].m, off |-> n] \in Buf
                       /\ FreeMsgs({})
        /\ UNCHANGED <<pipe, nmsg>>
    BY <1>7, <1>k, <2>0, <2>00, DirectWriteEffect DEF bounds
  <2>2. CASE Goes(w, "inc", job[w]) /\ Keeps(k) /\ UNCHANGED <<job, freed, wire>>
    <3>1. Balanced(k, job[w].m, job[w].m)
      BY <2>1, <2>2, BalanceSame DEF Keeps
    <3> QED  BY <1>t, <2>1, <2>2, <3>1, BalanceWorker
  <2>3. CASE Goes(w, "idle", NoReq) /\ Keeps(k) /\ FreeMsgs({job[w].m})
    <3>1. Balanced(k, job[w].m, NoReq.m)
      <4> SUFFICES ASSUME NEW m \in Msg
                   PROVE freed'[m] + One(0 = m) + Count(pipe', MsgReq(m)) + InSlot(sock'[k], m) + One(m <= nmsg)
                           = freed[m] + One(job[w].m = m) + Count(pipe, MsgReq(m)) + InSlot(sock[k], m) + One(m <= nmsg')
        BY <1>0 DEF Balanced
      <4>1. freed'[m] = freed[m] + One(job[w].m = m) /\ One(0 = m) = 0
        <5>1. freed'[m] = freed[m] + One(m \in {job[w].m})
          BY <2>3, FreedIs
        <5> QED  BY <1>0, <5>1 DEF One
      <4>2. /\ freed[m] \in Nat /\ Count(pipe, MsgReq(m)) \in Nat /\ InSlot(sock[k], m) \in Nat
            /\ One(job[w].m = m) \in Nat /\ One(m <= nmsg) \in Nat
        BY <1>t, BalanceNat
      <4>3. InSlot(sock'[k], m) = InSlot(sock[k], m)
        BY <2>3, SameSlot DEF Keeps
      <4> QED  BY <2>1, <4>1, <4>2, <4>3
    <3> QED  BY <1>t, <2>1, <2>3, <3>1, BalanceWorker
  <2>4. ASSUME Goes(w, "idle", NoReq), CanDirectWrite(s, job[w].id), NEW n \in 0 .. Size - 1,
               t.high = s.high /\ t.low = s.low /\ t.dw = <<[m |-> job[w].m, off |-> n]>>,
               [m |-> job[w].m, off |-> n] \in Buf, FreeMsgs({})
        PROVE  PlacesInv'
    <3>1. Balanced(k, job[w].m, NoReq.m)
      <4> SUFFICES ASSUME NEW m \in Msg
                   PROVE freed'[m] + One(0 = m) + Count(pipe', MsgReq(m)) + InSlot(t, m) + One(m <= nmsg)
                           = freed[m] + One(job[w].m = m) + Count(pipe, MsgReq(m)) + InSlot(s, m) + One(m <= nmsg')
        BY <1>0, <2>0, <2>00 DEF Balanced
      <4>1. freed'[m] = freed[m] /\ One(0 = m) = 0
        <5>1. freed'[m] = freed[m] + One(m \in {}) /\ freed[m] \in Nat
          BY <2>4, FreedIs
        <5> QED  BY <1>0, <5>1 DEF One
      <4>2. /\ freed[m] \in Nat /\ Count(pipe, MsgReq(m)) \in Nat
            /\ One(job[w].m = m) \in Nat /\ One(m <= nmsg) \in Nat
        BY <1>t, BalanceNat
      <4>3. s \in Socket /\ t \in Socket
        BY <1>t, <2>0, <2>00
      <4>4. s.dw = <<>> /\ s.high = <<>> /\ s.low = <<>>
        BY <2>4 DEF CanDirectWrite, NomoreSendingData, SendBufferEmpty
      <4>5. Count(<<>>, MsgBuf(m)) = 0 /\ Count(t.dw, MsgBuf(m)) = One(job[w].m = m)
        <5>1. Count(<<[m |-> job[w].m, off |-> n]>>, MsgBuf(m)) = IF [m |-> job[w].m, off |-> n] \in MsgBuf(m) THEN 1 ELSE 0
          BY CountOne
        <5>2. [m |-> job[w].m, off |-> n] \in MsgBuf(m) <=> job[w].m = m
          BY <2>4 DEF MsgBuf
        <5> QED  BY <2>4, <5>1, <5>2, CountEmpty DEF One
      <4>6. InSlot(s, m) = 0 /\ InSlot(t, m) = One(job[w].m = m)
        <5>1. InSlot(s, m) = Count(s.dw, MsgBuf(m)) + Count(s.high, MsgBuf(m)) + Count(s.low, MsgBuf(m))
          BY <4>3, InSlotIs
        <5>2. InSlot(t, m) = Count(t.dw, MsgBuf(m)) + Count(t.high, MsgBuf(m)) + Count(t.low, MsgBuf(m))
          BY <4>3, InSlotIs
        <5> QED  BY <2>4, <4>2, <4>4, <4>5, <5>1, <5>2
      <4> QED  BY <2>1, <4>1, <4>2, <4>6
    <3> QED  BY <1>t, <2>1, <2>4, <3>1, BalanceWorker
  <2> QED  BY <2>1, <2>2, <2>3, <2>4
<1>8. CASE IncSendingRef(w)
  <2>1. Goes(w, "pipe", job[w]) /\ OneSlot(k) /\ SameLists(sock[k], sock'[k]) /\ UNCHANGED <<pipe, freed, nmsg>>
    BY <1>8, <1>k, IncEffect DEF bounds
  <2>2. Balanced(k, job[w].m, job[w].m)
    BY <2>1, BalanceSame
  <2> QED  BY <1>t, <2>1, <2>2, BalanceWorker
<1> QED  BY <1>1, <1>2, <1>3, <1>4, <1>5, <1>6, <1>7, <1>8 DEF Request, WorkerStep

(* A write takes the messages of a list from the front: none comes to be. *)
LEMMA RestCount ==
    ASSUME NEW b \in Seq(Buf), NEW n \in Nat, NEW m
    PROVE  Rest(b, n) \in Seq(Buf) /\ Count(Rest(b, n), MsgBuf(m)) \in Nat /\ Count(b, MsgBuf(m)) \in Nat
           /\ Count(Rest(b, n), MsgBuf(m)) <= Count(b, MsgBuf(m))
<1>1. PICK k \in 0 .. Len(b) :
              /\ Rest(b, n) \in Seq(Buf) /\ Len(Rest(b, n)) = Len(b) - k
              /\ \A i \in 1 .. Len(b) - k : Rest(b, n)[i].m = b[k + i].m
  BY RestIs
<1>2. PICK r \in Seq(Buf) : r = Rest(b, n)
  BY <1>1
<1>3. Len(r) = Len(b) - k /\ \A i \in 1 .. Len(r) : r[i].m = b[k + i].m
  BY <1>1, <1>2
<1>4. \A i \in 1 .. Len(r) : r[i] \in Buf /\ b[k + i] \in Buf
  BY <1>3
<1>5. \A i \in 1 .. Len(r) : r[i] \in MsgBuf(m) <=> b[k + i] \in MsgBuf(m)
  BY <1>3, <1>4 DEF MsgBuf
<1>6. Count(b, MsgBuf(m)) \in Nat /\ Count(r, MsgBuf(m)) \in Nat /\ Count(r, MsgBuf(m)) <= Count(b, MsgBuf(m))
  <2>1. PICK S : S = MsgBuf(m)
    OBVIOUS
  <2>2. \A i \in 1 .. Len(r) : r[i] \in S <=> b[k + i] \in S
    BY <1>5, <2>1
  <2>3. Len(r) = Len(b) - k
    BY <1>3
  <2>4. /\ Count(b, S) = Cardinality(WhereFirst(b, k, S)) + Count(r, S)
        /\ Cardinality(WhereFirst(b, k, S)) \in Nat
    <3>1. Behind(b, k, r, S)
      BY <2>2, <2>3 DEF Behind
    <3> QED  BY <3>1, CountShift
  <2>5. Count(r, S) \in Nat /\ Count(b, S) \in Nat
    BY CountType
  <2>6. Count(r, S) <= Count(b, S)
    BY <2>4, <2>5
  <2> QED  BY <2>1, <2>5, <2>6
<1> QED  BY <1>2, <1>6

(* send_buffer leaves no more of a message in the two lists than was       *)
(* there.                                                                  *)
LEMMA SentCount ==
    ASSUME NEW s \in Socket, NEW n \in Nat, NEW m
    PROVE  LET t == Sent(s, n)
           IN  /\ t \in Socket /\ t.high \in Seq(Buf) /\ t.low \in Seq(Buf)
               /\ Count(t.high, MsgBuf(m)) \in Nat /\ Count(t.low, MsgBuf(m)) \in Nat
               /\ Count(t.high, MsgBuf(m)) + Count(t.low, MsgBuf(m))
                    <= Count(s.high, MsgBuf(m)) + Count(s.low, MsgBuf(m))
<1> DEFINE low == Rest(s.low, n - FromHigh(s, n))
           high == Rest(s.high, FromHigh(s, n))
           S == MsgBuf(m)
<1>t. PICK t : t = Sent(s, n)
  OBVIOUS
<1>1. /\ t \in Socket
      /\ t.high = IF Raises(s, n) THEN <<Head(low)>> ELSE high
      /\ t.low = IF Raises(s, n) THEN Tail(low) ELSE low
      /\ Raises(s, n) => low # <<>>
  BY <1>t, SentIs DEF SameSocket, Raises
<1>2. s.high \in Seq(Buf) /\ s.low \in Seq(Buf) /\ t.high \in Seq(Buf) /\ t.low \in Seq(Buf)
  BY <1>1, QueuedType
<1>3. FromHigh(s, n) \in Nat /\ n - FromHigh(s, n) \in Nat
  <2>1. Left(s.high) \in Nat
    BY <1>2, LeftType
  <2> QED  BY <2>1 DEF FromHigh
<1>4. /\ low \in Seq(Buf) /\ Count(low, S) \in Nat /\ Count(s.low, S) \in Nat /\ Count(low, S) <= Count(s.low, S)
      /\ high \in Seq(Buf) /\ Count(high, S) \in Nat /\ Count(s.high, S) \in Nat /\ Count(high, S) <= Count(s.high, S)
  BY <1>2, <1>3, RestCount
<1>5. Count(t.high, S) \in Nat /\ Count(t.low, S) \in Nat
  BY <1>2, CountType
<1> HIDE DEF low, high, S
<1>6. CASE Raises(s, n)
  <2>1. t.high = <<Head(low)>> /\ t.low = Tail(low) /\ low # <<>>
    BY <1>1, <1>6
  <2>2. Count(low, S) = Count(Tail(low), S) + (IF Head(low) \in S THEN 1 ELSE 0)
    BY <1>4, <2>1, CountTail
  <2>3. Count(<<Head(low)>>, S) = IF Head(low) \in S THEN 1 ELSE 0
    BY CountOne
  <2>4. Count(t.high, S) + Count(t.low, S) = Count(low, S)
    BY <1>4, <1>5, <2>1, <2>2, <2>3
  <2>5. Count(t.high, S) + Count(t.low, S) <= Count(s.high, S) + Count(s.low, S)
    BY <1>4, <2>4
  <2> QED  BY <1>1, <1>2, <1>5, <2>5, <1>t DEF S
<1>7. CASE ~Raises(s, n)
  <2>1. t.high = high /\ t.low = low
    BY <1>1, <1>7
  <2> QED  BY <1>1, <1>2, <1>4, <1>5, <2>1, <1>t DEF S
<1> QED  BY <1>6, <1>7

(* A step of the socket thread moves the messages of one slot, or frees them. *)
SlotBalanced(k) == \A m \in Msg : freed'[m] + InSlot(sock'[k], m) = freed[m] + InSlot(sock[k], m)

(* A step of the socket thread that writes one slot keeps each message in  *)
(* one place.                                                              *)
LEMMA ThreadPlaces ==
    ASSUME TypeOK, TypeOK', PlacesInv, NEW k \in Slot, OneSlot(k), UNCHANGED workerVars, UNCHANGED nmsg,
           pipe' = pipe \/ (pipe # <<>> /\ pipe' = Tail(pipe) /\ Cmd.m = 0), SlotBalanced(k)
    PROVE  PlacesInv'
<1>1. Balanced(k, 0, 0)
  <2> SUFFICES ASSUME NEW m \in Msg
               PROVE freed'[m] + One(0 = m) + Count(pipe', MsgReq(m)) + InSlot(sock'[k], m) + One(m <= nmsg)
                       = freed[m] + One(0 = m) + Count(pipe, MsgReq(m)) + InSlot(sock[k], m) + One(m <= nmsg')
    BY Zenon DEF Balanced
  <2>1. Count(pipe', MsgReq(m)) = Count(pipe, MsgReq(m))
    <3>1. CASE pipe' = pipe
      BY <3>1
    <3>2. CASE pipe # <<>> /\ pipe' = Tail(pipe) /\ Cmd.m = 0
      <4>1. Count(pipe, MsgReq(m)) = Count(pipe', MsgReq(m)) + One(Cmd.m = m)
        BY <3>2, TakeCount
      <4>2. Count(pipe', MsgReq(m)) \in Nat
        BY BalanceNat
      <4>3. 0 \notin Msg
        BY SocketAssumption DEF Msg
      <4> QED  BY <3>2, <4>1, <4>2, <4>3 DEF One
    <3> QED  BY <3>1, <3>2
  <2>2. /\ freed[m] \in Nat /\ freed'[m] \in Nat /\ One(0 = m) \in Nat /\ Count(pipe, MsgReq(m)) \in Nat
        /\ InSlot(sock[k], m) \in Nat /\ InSlot(sock'[k], m) \in Nat /\ One(m <= nmsg) \in Nat
    BY BalanceNat
  <2>3. freed'[m] + InSlot(sock'[k], m) = freed[m] + InSlot(sock[k], m)
    BY DEF SlotBalanced
  <2> QED  BY <2>1, <2>2, <2>3
<1> QED  BY <1>1, BalanceThread

(* A step that leaves the lists of its slot alone. *)
LEMMA SlotSame ==
    ASSUME TypeOK, NEW k \in Slot, SameLists(sock[k], sock'[k]), UNCHANGED freed
    PROVE  SlotBalanced(k)
BY SameSlot DEF SlotBalanced

(* One of the lists, or all, are freed: each message of them once. *)
LEMMA FreeListsBalanced ==
    ASSUME TypeOK, TypeOK', PlacesInv, NEW k \in Slot, NEW then, FreeLists(k, then), failed' = {}
    PROVE  OneSlot(k) /\ SlotBalanced(k)
<1>1. PICK s \in Socket : s = sock[k]
  BY DEF TypeOK
<1>2. PICK t \in Socket : t = sock'[k]
  BY DEF TypeOK
<1>3. /\ FreeMsgs(Msgs(s.high) \cup Msgs(s.low)) /\ OneSlot(k)
      /\ t.high = <<>> /\ t.low = <<>> /\ t.dw = s.dw
  BY <1>1, <1>2, FreeListsEffect
<1>4. ASSUME NEW m \in Msg PROVE freed'[m] + InSlot(t, m) = freed[m] + InSlot(s, m)
  <2> DEFINE a == Count(s.dw, MsgBuf(m))
             b == Count(s.high, MsgBuf(m))
             c == Count(s.low, MsgBuf(m))
  <2>1. a \in Nat /\ b \in Nat /\ c \in Nat /\ InSlot(s, m) = a + b + c
    BY InSlotIs
  <2>2. InSlot(t, m) = a
    <3>1. InSlot(t, m) = Count(t.dw, MsgBuf(m)) + Count(t.high, MsgBuf(m)) + Count(t.low, MsgBuf(m))
      BY InSlotIs
    <3>2. Count(<<>>, MsgBuf(m)) = 0
      BY CountEmpty
    <3> QED  BY <1>3, <2>1, <3>1, <3>2
  <2>3. InSlot(s, m) \in {0, 1}
    BY <1>1, Alone
  <2>4. freed'[m] = freed[m] + One(m \in Msgs(s.high) \cup Msgs(s.low)) /\ freed[m] \in Nat
    BY <1>3, FreedIs
  <2>5. (m \in Msgs(s.high) <=> b # 0) /\ (m \in Msgs(s.low) <=> c # 0)
    BY QueuedType, MsgsCount
  <2> HIDE DEF a, b, c
  <2>6. One(m \in Msgs(s.high) \cup Msgs(s.low)) = b + c
    BY <2>1, <2>3, <2>5 DEF One
  <2> QED  BY <2>1, <2>2, <2>4, <2>6
<1> QED  BY <1>1, <1>2, <1>3, <1>4 DEF SlotBalanced

(* force_close frees every message of its slot. *)
LEMMA ForceCloseBalanced ==
    ASSUME TypeOK, TypeOK', PlacesInv, NEW k \in Slot, sock' = [sock EXCEPT ![k] = Closed(@)],
           FreeMsgs(Msgs(sock[k].dw)), sock[k].high = <<>>, sock[k].low = <<>>
    PROVE  OneSlot(k) /\ SlotBalanced(k)
<1>1. PICK s \in Socket : s = sock[k]
  BY DEF TypeOK
<1>2. PICK t \in Socket : t = sock'[k]
  BY DEF TypeOK
<1>3. OneSlot(k) /\ t.high = <<>> /\ t.low = <<>> /\ t.dw = <<>>
  BY <1>2, ClosedDoes
<1>4. ASSUME NEW m \in Msg PROVE freed'[m] + InSlot(t, m) = freed[m] + InSlot(s, m)
  <2> DEFINE a == Count(s.dw, MsgBuf(m))
  <2>0. Count(<<>>, MsgBuf(m)) = 0
    BY CountEmpty
  <2>1. a \in Nat /\ InSlot(s, m) = a
    <3>1. /\ InSlot(s, m) = Count(s.dw, MsgBuf(m)) + Count(s.high, MsgBuf(m)) + Count(s.low, MsgBuf(m))
          /\ Count(s.dw, MsgBuf(m)) \in Nat
      BY InSlotIs
    <3> QED  BY <1>1, <2>0, <3>1
  <2>2. InSlot(t, m) = 0
    <3>1. InSlot(t, m) = Count(t.dw, MsgBuf(m)) + Count(t.high, MsgBuf(m)) + Count(t.low, MsgBuf(m))
      BY InSlotIs
    <3> QED  BY <1>3, <2>0, <3>1
  <2>3. InSlot(s, m) \in {0, 1}
    BY <1>1, Alone
  <2>4. freed'[m] = freed[m] + One(m \in Msgs(s.dw)) /\ freed[m] \in Nat
    BY <1>1, FreedIs
  <2>5. m \in Msgs(s.dw) <=> a # 0
    BY QueuedType, MsgsCount
  <2> HIDE DEF a
  <2>6. One(m \in Msgs(s.dw)) = a
    BY <2>1, <2>3, <2>5 DEF One
  <2> QED  BY <2>1, <2>2, <2>4, <2>6
<1> QED  BY <1>1, <1>2, <1>3, <1>4 DEF SlotBalanced

(* send_buffer loses no message and frees none twice. *)
LEMMA SendBufferBalanced ==
    ASSUME TypeOK, TypeOK', PlacesInv, NEW k \in Slot, NEW n \in Nat, NEW err, NEW ifClosed, NEW ifNot,
           SendBuffer(k, n, err, ifClosed, ifNot)
    PROVE  OneSlot(k) /\ SlotBalanced(k)
<1>1. PICK x \in Socket : x = sock[k]
  BY DEF TypeOK
<1>2. PICK u \in Socket : u = sock'[k]
  BY DEF TypeOK
<1>3. PICK s : s = WithDirectWrite(x)
  OBVIOUS
<1>4. PICK t : t = Sent(s, n)
  OBVIOUS
<1>5. /\ OneSlot(k) /\ s \in Socket /\ t \in Socket
      /\ \/ /\ u.high = <<>> /\ u.low = <<>> /\ u.dw = <<>>
            /\ FreeMsgs(Msgs(s.high \o s.low))
         \/ /\ u.high = t.high /\ u.low = t.low /\ u.dw = <<>>
            /\ FreeMsgs(Msgs(s.high \o s.low) \ Msgs(t.high \o t.low))
  BY <1>1, <1>2, <1>3, <1>4, SendBufferDoes
<1>6. s.high = x.dw \o x.high /\ s.low = x.low /\ s.dw = <<>>
  BY <1>3, WithDirectWriteIs
<1>7. ASSUME NEW m \in Msg PROVE freed'[m] + InSlot(u, m) = freed[m] + InSlot(x, m)
  <2> DEFINE S == MsgBuf(m)
             all == Count(s.high \o s.low, S)
             rest == Count(t.high \o t.low, S)
  <2>1. /\ s.high \in Seq(Buf) /\ s.low \in Seq(Buf) /\ t.high \in Seq(Buf) /\ t.low \in Seq(Buf)
        /\ x.dw \in Seq(Buf) /\ x.high \in Seq(Buf)
    BY <1>5, QueuedType
  <2>2. s.high \o s.low \in Seq(Buf) /\ t.high \o t.low \in Seq(Buf)
    BY <2>1, ConcatProperties
  <2>3. InSlot(x, m) = all
    BY <1>6 DEF InSlot, Queued
  <2>4. all \in {0, 1}
    BY <1>1, <2>3, Alone
  <2>5. rest \in Nat /\ rest <= all /\ rest = Count(t.high, S) + Count(t.low, S)
    <3>1. all = Count(s.high, S) + Count(s.low, S)
      BY <2>1, CountConcat
    <3>2. rest = Count(t.high, S) + Count(t.low, S)
      BY <2>1, CountConcat
    <3>3. /\ Count(t.high, S) \in Nat /\ Count(t.low, S) \in Nat
          /\ Count(t.high, S) + Count(t.low, S) <= Count(s.high, S) + Count(s.low, S)
      BY <1>4, <1>5, SentCount
    <3> HIDE DEF all, rest
    <3> QED  BY <3>1, <3>2, <3>3
  <2>6. (m \in Msgs(s.high \o s.low) <=> all # 0) /\ (m \in Msgs(t.high \o t.low) <=> rest # 0)
    BY <2>2, MsgsCount
  <2>7. InSlot(u, m) = Count(u.dw, S) + Count(u.high, S) + Count(u.low, S) /\ Count(<<>>, S) = 0
    BY InSlotIs, CountEmpty
  <2>8. Count(t.high, S) \in Nat /\ Count(t.low, S) \in Nat
    BY <2>1, CountType
  <2> HIDE DEF S, all, rest
  <2>9. CASE u.high = <<>> /\ u.low = <<>> /\ u.dw = <<>> /\ FreeMsgs(Msgs(s.high \o s.low))
    <3>1. freed'[m] = freed[m] + One(m \in Msgs(s.high \o s.low)) /\ freed[m] \in Nat
      BY <2>9, FreedIs
    <3>2. One(m \in Msgs(s.high \o s.low)) = all
      BY <2>4, <2>6 DEF One
    <3> QED  BY <2>3, <2>4, <2>7, <2>9, <3>1, <3>2
  <2>10. CASE /\ u.high = t.high /\ u.low = t.low /\ u.dw = <<>>
              /\ FreeMsgs(Msgs(s.high \o s.low) \ Msgs(t.high \o t.low))
    <3>1. /\ freed'[m] = freed[m] + One(m \in Msgs(s.high \o s.low) \ Msgs(t.high \o t.low))
          /\ freed[m] \in Nat
      BY <2>10, FreedIs
    <3>2. One(m \in Msgs(s.high \o s.low) \ Msgs(t.high \o t.low)) = all - rest
      BY <2>4, <2>5, <2>6 DEF One
    <3>3. InSlot(u, m) = rest
      BY <2>5, <2>7, <2>8, <2>10
    <3> QED  BY <2>3, <2>4, <2>5, <3>1, <3>2, <3>3
  <2> QED  BY <1>5, <2>9, <2>10
<1> QED  BY <1>1, <1>2, <1>5, <1>7 DEF SlotBalanced

(* Every step of the socket thread keeps each message in one place. *)
LEMMA PlacesThread ==
    ASSUME TypeOK, OwnersInv, ArmedInv, PlacesInv, SocketThread, Sound'
    PROVE  PlacesInv'
<1>f. failed' = {} /\ ~strayed'
  BY DEF Sound
<1>a. \A j \in Slot : Armed(j)
  BY DEF ArmedInv
<1>o. HoldersInv /\ NamesInv /\ ClosingInv
  BY DEF OwnersInv
<1>T. TypeOK'
  BY ThreadTypes
<1>t. Hash(closing.id) \in Slot /\ alloc_id \in 0 .. MaxId /\ sock \in [Slot -> Socket]
  BY RequestType, HashRange DEF TypeOK
<1>c. PICK c \in Slot : c = Hash(closing.id)
  BY <1>t
<1>k. PICK k : k = Hash(Cmd.id)
  OBVIOUS
<1>q. pipe # <<>> => /\ k \in Slot /\ Cmd \in Requests /\ (Cmd.cmd \in Opening => Asks(1)) /\ 1 \in DOMAIN pipe /\ Cmd = pipe[1]
                     /\ (Cmd.cmd \in Sending => Cmd.m \in Msg)
  BY <1>k, TakenIs
<1>z. pipe # <<>> /\ Cmd.cmd \in {"O", "L", "B", "S", "K", "Kill"} => Cmd.m = 0
  BY <1>q DEF Requests, Sending
<1>e. \A e \in ev : e.slot \in Slot
  BY DEF TypeOK
<1>u. /\ \A j \in Slot : UNCHANGED sock => OneSlot(j) /\ SameLists(sock[j], sock'[j])
      /\ \A j \in Slot : SameLists(sock[j], sock'[j]) /\ UNCHANGED freed => SlotBalanced(j)
  <2>1. ASSUME NEW j \in Slot, UNCHANGED sock PROVE OneSlot(j) /\ SameLists(sock[j], sock'[j])
    BY <1>t, <2>1 DEF OneSlot, SameLists
  <2>2. ASSUME NEW j \in Slot, SameLists(sock[j], sock'[j]), UNCHANGED freed PROVE SlotBalanced(j)
    BY <2>2, SlotSame
  <2> QED  BY <2>1, <2>2
<1>1. CASE ForceClose
  <2>1. /\ phase = "free" /\ sock' = [sock EXCEPT ![c] = Closed(@)] /\ FreeMsgs(Msgs(sock[c].dw))
        /\ UNCHANGED workerVars /\ UNCHANGED <<pipe, nmsg>>
    BY <1>c, <1>1 DEF ForceClose, bounds
  <2>2. sock[c].high = <<>> /\ sock[c].low = <<>>
    BY <1>c, <1>o, <2>1 DEF ClosingInv
  <2>3. OneSlot(c) /\ SlotBalanced(c)
    BY <1>T, <2>1, <2>2, ForceCloseBalanced
  <2> QED  BY <1>T, <2>1, <2>3, ThreadPlaces
<1>2. CASE ClearClosedEvent \/ CtrlDone \/ Wait \/ \E e \in ev : SkipEvent(e)
  <2>1. UNCHANGED workerVars /\ UNCHANGED <<sock, pipe, nmsg, freed>>
    BY <1>2 DEF ClearClosedEvent, CtrlDone, Wait, SkipEvent, bounds
  <2>2. OneSlot(c) /\ SlotBalanced(c)
    BY <1>u, <2>1
  <2> QED  BY <1>T, <2>1, <2>2, ThreadPlaces
<1>3. CASE CloseOrHalf
  <2>1. UNCHANGED workerVars /\ UNCHANGED <<pipe, nmsg>>
    BY <1>3 DEF CloseOrHalf, bounds
  <2>2. OneSlot(c) /\ SlotBalanced(c)
    <3>1. CASE FreeLists(c, "clear")
      BY <1>T, <1>f, <3>1, FreeListsBalanced
    <3>2. CASE sock' = [sock EXCEPT ![c].type = "HALFCLOSE"] /\ UNCHANGED freed
      <4>1. "HALFCLOSE" \in Types /\ sock[c].polled \in BOOLEAN /\ sock[c].write \in BOOLEAN
        BY <1>t DEF Types, Socket
      <4>2. OneSlot(c) /\ SameLists(sock[c], sock'[c])
        BY <3>2, <4>1, TypeDoes
      <4> QED  BY <1>u, <3>2, <4>2
    <3> QED  BY <1>c, <1>3, <3>1, <3>2 DEF CloseOrHalf
  <2> QED  BY <1>T, <2>1, <2>2, ThreadPlaces
<1>4. CASE OpenSocket
  <2>1. /\ pipe # <<>> /\ Cmd.cmd \in Opening /\ pipe' = Tail(pipe) /\ OneSlot(k)
        /\ \/ /\ sock[k].high = <<>> /\ sock[k].low = <<>>
              /\ sock'[k].high = <<>> /\ sock'[k].low = <<>> /\ sock'[k].dw = <<>>
           \/ SameLists(sock[k], sock'[k])
        /\ UNCHANGED workerVars /\ UNCHANGED <<freed, nmsg>>
    BY <1>k, <1>4, <1>f, OpenEffect DEF NewSlot, bounds
  <2>2. k \in Slot /\ Cmd.m = 0
    BY <1>q, <1>z, <2>1 DEF Opening
  <2>3. sock[k].dw = <<>>
    <3>1. sock[k].type = "RESERVE"
      BY <1>k, <1>o, <1>q, <2>1 DEF HoldersInv, Reserved
    <3> QED  BY <1>a, <2>2, <3>1 DEF Armed, Mute, Full
  <2>4. SlotBalanced(k)
    BY <1>u, <2>1, <2>2, <2>3 DEF SameLists
  <2> QED  BY <1>T, <2>1, <2>2, <2>4, ThreadPlaces
<1>5. CASE StartSocket
  <2>1. /\ pipe # <<>> /\ pipe' = Tail(pipe) /\ Cmd.cmd = "S" /\ UNCHANGED workerVars /\ UNCHANGED nmsg
    BY <1>5 DEF StartSocket, Command, bounds
  <2>2. k \in Slot /\ Cmd.m = 0
    BY <1>q, <1>z, <2>1
  <2>3. \/ UNCHANGED <<sock, freed>>
        \/ FreeLists(k, "clear")
        \/ /\ \E type \in {"CONNECTED", "LISTEN"} : sock' = [sock EXCEPT ![k].polled = TRUE, ![k].type = type]
           /\ UNCHANGED freed
    BY <1>k, <1>5 DEF StartSocket
  <2>4. OneSlot(k) /\ SlotBalanced(k)
    <3>1. CASE UNCHANGED <<sock, freed>>
      BY <1>u, <2>2, <3>1
    <3>2. CASE FreeLists(k, "clear")
      BY <1>T, <1>f, <2>2, <3>2, FreeListsBalanced
    <3>3. ASSUME NEW type \in {"CONNECTED", "LISTEN"}, sock' = [sock EXCEPT ![k].polled = TRUE, ![k].type = type], UNCHANGED freed
          PROVE  OneSlot(k) /\ SlotBalanced(k)
      <4>1. type \in Types /\ sock[k].write \in BOOLEAN
        BY <1>t, <2>2 DEF Types, Socket
      <4>2. OneSlot(k) /\ SameLists(sock[k], sock'[k])
        BY <2>2, <3>3, <4>1, TypeDoes
      <4> QED  BY <1>u, <2>2, <3>3, <4>2
    <3> QED  BY <2>3, <3>1, <3>2, <3>3
  <2> QED  BY <1>T, <2>1, <2>2, <2>4, ThreadPlaces
<1>6. CASE CloseSocket
  <2>1. /\ pipe # <<>> /\ pipe' = Tail(pipe) /\ Cmd.cmd \in {"K", "Kill"} /\ UNCHANGED workerVars /\ UNCHANGED nmsg
    BY <1>6 DEF CloseSocket, Command, bounds
  <2>2. k \in Slot /\ Cmd.m = 0
    BY <1>q, <1>z, <2>1
  <2>3. \/ UNCHANGED <<sock, freed>>
        \/ \E n \in 0 .. MaxMsg * Size, err \in BOOLEAN : SendBuffer(k, n, err, "clear", "close")
    BY <1>k, <1>6 DEF CloseSocket
  <2>4. OneSlot(k) /\ SlotBalanced(k)
    <3>1. CASE UNCHANGED <<sock, freed>>
      BY <1>u, <2>2, <3>1
    <3>2. ASSUME NEW n \in 0 .. MaxMsg * Size, NEW err \in BOOLEAN, SendBuffer(k, n, err, "clear", "close")
          PROVE  OneSlot(k) /\ SlotBalanced(k)
      <4>1. n \in Nat
        OBVIOUS
      <4> QED  BY <1>T, <2>2, <3>2, <4>1, SendBufferBalanced
    <3> QED  BY <2>3, <3>1, <3>2
  <2> QED  BY <1>T, <2>1, <2>2, <2>4, ThreadPlaces
<1>7. CASE SendSocket
  <2>1. /\ pipe # <<>> /\ pipe' = Tail(pipe) /\ Cmd.cmd \in {"D", "P"} /\ UNCHANGED workerVars /\ UNCHANGED nmsg
        /\ FreeMsgs(IF Drop(sock[k], Cmd.id) THEN {Cmd.m} ELSE {})
    BY <1>k, <1>7 DEF SendSocket, Command, bounds
  <2>2. k \in Slot /\ Cmd.m \in Msg
    BY <1>q, <2>1 DEF Sending
  <2>s. PICK s \in Socket : s = sock[k]
    BY <1>t, <2>2
  <2>t. PICK t \in Socket : t = sock'[k]
    BY <1>T, <2>2 DEF TypeOK
  <2>x. PICK x \in Buf : x = [m |-> Cmd.m, off |-> 0]
    <3>1. 0 \in 0 .. Size - 1
      BY SocketAssumption
    <3> QED  BY <2>2, <3>1 DEF Buf
  <2>3. /\ OneSlot(k) /\ t.dw = s.dw
        /\ \/ Drop(s, Cmd.id) /\ SameLists(s, t)
           \/ ~Drop(s, Cmd.id) /\ s.high = <<>> /\ s.low = <<>> /\ t.high = <<x>> /\ t.low = <<>>
           \/ ~Drop(s, Cmd.id) /\ t.high = s.high /\ t.low = Append(s.low, x)
           \/ ~Drop(s, Cmd.id) /\ t.high = Append(s.high, x) /\ t.low = s.low
    BY <1>k, <1>7, <2>2, <2>s, <2>t, <2>x, SendSocketDoes
  <2>4. Balanced(k, 0, 0)
    <3> SUFFICES ASSUME NEW m \in Msg
                 PROVE freed'[m] + One(0 = m) + Count(pipe', MsgReq(m)) + InSlot(t, m) + One(m <= nmsg)
                         = freed[m] + One(0 = m) + Count(pipe, MsgReq(m)) + InSlot(s, m) + One(m <= nmsg')
      BY <2>s, <2>t DEF Balanced
    <3>1. Count(pipe, MsgReq(m)) = Count(pipe', MsgReq(m)) + One(Cmd.m = m)
      BY <2>1, TakeCount
    <3>2. /\ freed[m] \in Nat /\ One(0 = m) \in Nat /\ Count(pipe', MsgReq(m)) \in Nat /\ One(m <= nmsg) \in Nat
          /\ InSlot(s, m) \in Nat
      BY <1>T, <2>2, <2>s, BalanceNat
    <3>3. One(Cmd.m = m) \in Nat
      BY DEF One
    <3>4. CASE Drop(s, Cmd.id) /\ SameLists(s, t)
      <4>1. freed'[m] = freed[m] + One(Cmd.m = m)
        <5>1. freed'[m] = freed[m] + One(m \in (IF Drop(sock[k], Cmd.id) THEN {Cmd.m} ELSE {}))
          BY <2>1, FreedIs
        <5>2. m \in (IF Drop(sock[k], Cmd.id) THEN {Cmd.m} ELSE {}) <=> Cmd.m = m
          BY <2>s, <3>4
        <5> QED  BY <5>1, <5>2 DEF One
      <4>2. InSlot(t, m) = InSlot(s, m)
        BY <3>4, SameSlot
      <4> QED  BY <2>1, <3>1, <3>2, <3>3, <4>1, <4>2
    <3>5. CASE ~Drop(s, Cmd.id)
      <4>1. freed'[m] = freed[m]
        <5>1. freed'[m] = freed[m] + One(m \in (IF Drop(sock[k], Cmd.id) THEN {Cmd.m} ELSE {})) /\ freed[m] \in Nat
          BY <2>1, FreedIs
        <5>2. m \notin (IF Drop(sock[k], Cmd.id) THEN {Cmd.m} ELSE {})
          BY <2>s, <3>5
        <5> QED  BY <5>1, <5>2 DEF One
      <4> DEFINE S == MsgBuf(m)
      <4>2. InSlot(t, m) = InSlot(s, m) + One(Cmd.m = m)
        <5>1. /\ InSlot(s, m) = Count(s.dw, S) + Count(s.high, S) + Count(s.low, S)
              /\ Count(s.dw, S) \in Nat /\ Count(s.high, S) \in Nat /\ Count(s.low, S) \in Nat
          BY InSlotIs
        <5>2. /\ InSlot(t, m) = Count(t.dw, S) + Count(t.high, S) + Count(t.low, S)
              /\ Count(t.dw, S) \in Nat /\ Count(t.high, S) \in Nat /\ Count(t.low, S) \in Nat
          BY InSlotIs
        <5>3. x \in S <=> Cmd.m = m
          BY <2>x DEF MsgBuf
        <5>4. Count(<<>>, S) = 0 /\ Count(<<x>>, S) = One(Cmd.m = m)
          BY <5>3, CountEmpty, CountOne DEF One
        <5>5. /\ Count(Append(s.high, x), S) = Count(s.high, S) + One(Cmd.m = m)
              /\ Count(Append(s.low, x), S) = Count(s.low, S) + One(Cmd.m = m)
          <6>1. s.high \in Seq(Buf) /\ s.low \in Seq(Buf)
            BY QueuedType
          <6> HIDE DEF S
          <6>2. Count(Append(s.high, x), S) = Count(s.high, S) + (IF x \in S THEN 1 ELSE 0)
            BY <6>1, CountAppend
          <6>3. Count(Append(s.low, x), S) = Count(s.low, S) + (IF x \in S THEN 1 ELSE 0)
            BY <6>1, CountAppend
          <6> QED  BY <5>3, <6>2, <6>3 DEF One
        <5> HIDE DEF S
        <5>6. CASE s.high = <<>> /\ s.low = <<>> /\ t.high = <<x>> /\ t.low = <<>>
          BY <2>3, <3>3, <5>1, <5>2, <5>4, <5>6
        <5>7. CASE t.high = s.high /\ t.low = Append(s.low, x)
          BY <2>3, <3>3, <5>1, <5>2, <5>5, <5>7
        <5>8. CASE t.high = Append(s.high, x) /\ t.low = s.low
          BY <2>3, <3>3, <5>1, <5>2, <5>5, <5>8
        <5> QED  BY <2>3, <3>5, <5>6, <5>7, <5>8
      <4> QED  BY <2>1, <3>1, <3>2, <3>3, <4>1, <4>2
    <3> QED  BY <2>3, <3>4, <3>5
  <2> QED  BY <1>T, <2>1, <2>2, <2>3, <2>4, BalanceThread
<1>9. ASSUME NEW e \in ev, ReportConnect(e) PROVE PlacesInv'
  <2>1. /\ UNCHANGED workerVars /\ UNCHANGED <<pipe, nmsg>> /\ e.slot \in Slot
        /\ \/ /\ sock' = [sock EXCEPT ![e.slot].type = "CONNECTED", ![e.slot].write = ~NomoreSendingData(sock[e.slot])]
              /\ UNCHANGED freed
           \/ FreeLists(e.slot, "events")
    BY <1>e, <1>9 DEF ReportConnect, Event, bounds
  <2>2. OneSlot(e.slot) /\ SlotBalanced(e.slot)
    <3>1. CASE FreeLists(e.slot, "events")
      BY <1>T, <1>f, <2>1, <3>1, FreeListsBalanced
    <3>2. CASE /\ sock' = [sock EXCEPT ![e.slot].type = "CONNECTED", ![e.slot].write = ~NomoreSendingData(sock[e.slot])]
               /\ UNCHANGED freed
      <4>1. PICK b \in BOOLEAN : b = ~NomoreSendingData(sock[e.slot])
        OBVIOUS
      <4>2. sock' = [sock EXCEPT ![e.slot].type = "CONNECTED", ![e.slot].write = b]
        BY <3>2, <4>1
      <4>3. OneSlot(e.slot) /\ SameLists(sock[e.slot], sock'[e.slot])
        BY <2>1, <4>2, ConnectDoes
      <4> QED  BY <1>u, <2>1, <3>2, <4>3
    <3> QED  BY <2>1, <3>1, <3>2
  <2> QED  BY <1>T, <2>1, <2>2, ThreadPlaces
<1>10. ASSUME NEW e \in ev, ReportAccept(e) PROVE PlacesInv'
  <2>1. /\ UNCHANGED workerVars /\ UNCHANGED <<pipe, nmsg, freed>>
        /\ \/ UNCHANGED sock
           \/ \E id \in alloc_id + 1 .. alloc_id + Slots :
                /\ id <= MaxId
                /\ sock' = [sock EXCEPT ![Hash(id)] =
                  [@ EXCEPT !.type = "PACCEPT", !.id = id, !.protocol = "TCP", !.tag = id, !.sending = 0, !.wb = 0]]
    BY <1>10 DEF ReportAccept, Event
  <2>2. CASE UNCHANGED sock
    <3>1. OneSlot(c) /\ SlotBalanced(c)
      BY <1>u, <2>1, <2>2
    <3> QED  BY <1>T, <2>1, <3>1, ThreadPlaces
  <2>3. ASSUME NEW id \in alloc_id + 1 .. alloc_id + Slots, id <= MaxId,
               sock' = [sock EXCEPT ![Hash(id)] =
                  [@ EXCEPT !.type = "PACCEPT", !.id = id, !.protocol = "TCP", !.tag = id, !.sending = 0, !.wb = 0]]
        PROVE  PlacesInv'
    <3>1. id \in 0 .. MaxId /\ id \in Nat
      BY <1>t, <2>3
    <3>2. PICK h \in Slot : h = Hash(id)
      BY <3>1, HashRange
    <3>3. OneSlot(h) /\ SameLists(sock[h], sock'[h])
      BY <2>3, <3>1, <3>2, AcceptDoes
    <3>4. SlotBalanced(h)
      BY <1>u, <2>1, <3>3
    <3> QED  BY <1>T, <2>1, <3>3, <3>4, ThreadPlaces
  <2> QED  BY <2>1, <2>2, <2>3
<1>11. ASSUME NEW e \in ev, ReadEvent(e) PROVE PlacesInv'
  <2>1. /\ UNCHANGED workerVars /\ UNCHANGED <<pipe, nmsg>> /\ e.slot \in Slot
        /\ UNCHANGED <<sock, freed>> \/ FreeLists(e.slot, "events")
    BY <1>e, <1>11 DEF ReadEvent, Event, bounds
  <2>2. OneSlot(e.slot) /\ SlotBalanced(e.slot)
    <3>1. CASE FreeLists(e.slot, "events")
      BY <1>T, <1>f, <2>1, <3>1, FreeListsBalanced
    <3>2. CASE UNCHANGED <<sock, freed>>
      BY <1>u, <2>1, <3>2
    <3> QED  BY <2>1, <3>1, <3>2
  <2> QED  BY <1>T, <2>1, <2>2, ThreadPlaces
<1>12. ASSUME NEW e \in ev, NEW n \in 0 .. MaxMsg * Size, NEW err \in BOOLEAN, WriteEvent(e, n, err) PROVE PlacesInv'
  <2>1. /\ UNCHANGED workerVars /\ UNCHANGED <<pipe, nmsg>> /\ e.slot \in Slot /\ n \in Nat
        /\ UNCHANGED <<sock, freed>> \/ SendBuffer(e.slot, n, err, "events", "events")
    BY <1>e, <1>12 DEF WriteEvent, Event, bounds
  <2>2. OneSlot(e.slot) /\ SlotBalanced(e.slot)
    <3>1. CASE SendBuffer(e.slot, n, err, "events", "events")
      BY <1>T, <2>1, <3>1, SendBufferBalanced
    <3>2. CASE UNCHANGED <<sock, freed>>
      BY <1>u, <2>1, <3>2
    <3> QED  BY <2>1, <3>1, <3>2
  <2> QED  BY <1>T, <2>1, <2>2, ThreadPlaces
<1> QED  BY <1>1, <1>2, <1>3, <1>4, <1>5, <1>6, <1>7, <1>9, <1>10, <1>11, <1>12 DEF SocketThread

(* No message is sent yet. *)
LEMMA PlacesInit == Init => PlacesInv
<1> SUFFICES ASSUME Init PROVE PlacesInv
  OBVIOUS
<1>1. /\ \A k \in Slot : sock[k].high = <<>> /\ sock[k].low = <<>> /\ sock[k].dw = <<>>
      /\ pipe = <<>> /\ nmsg = 0 /\ at = [w \in Worker |-> "idle"] /\ job = [w \in Worker |-> NoReq]
      /\ freed = [m \in Msg |-> 0]
  BY DEF Init, Slot
<1>2. NoReq.m = 0
  BY DEF NoReq, Req
<1>3. ASSUME NEW m \in Msg PROVE freed[m] + InJobs(m) + InPipe(m) + InSlots(sock, m) = One(m <= nmsg)
  <2>0. m # 0 /\ ~(m <= 0)
    BY SocketAssumption DEF Msg
  <2>1. freed[m] = 0
    BY <1>1
  <2>2. InJobs(m) = 0
    <3>1. JobsOf(job, m) = {}
      BY <1>1, <1>2, <2>0 DEF JobsOf
    <3> QED  BY <3>1, FS_EmptySet DEF InJobs
  <2>3. InPipe(m) = 0
    BY <1>1, CountEmpty DEF InPipe
  <2>4. InSlots(sock, m) = 0
    <3>1. \A k \in DOMAIN sock : Queued(sock[k]) = <<>>
      <4>1. DOMAIN sock = Slot
        BY TypeInit DEF TypeOK
      <4>2. <<>> \o <<>> \o <<>> = <<>>
        OBVIOUS
      <4> QED  BY <1>1, <4>1, <4>2 DEF Queued
    <3>2. SlotPlaces(sock, m) = {}
      BY <3>1 DEF SlotPlaces
    <3> QED  BY <3>2, FS_EmptySet DEF InSlots
  <2> QED  BY <1>1, <2>0, <2>1, <2>2, <2>3, <2>4 DEF One
<1> QED  BY <1>1, <1>3 DEF PlacesInv

-----------------------------------------------------------------------------
(* The requests to send to a socket, and the workers that write one *)
SendReq(x) == {r \in Requests : Sends(r, x)}
Flying(a, j, x) == a = "pipe" /\ Sends(j, x)
Flyers(f, g, x) == {w \in Worker : Flying(f[w], g[w], x)}

(* The requests in flight to an id: those of the pipe and of the workers. *)
LEMMA FlightIs ==
    ASSUME TypeOK, NEW x
    PROVE  /\ InFlight(x) = Count(pipe, SendReq(x)) + Cardinality(Flyers(at, job, x))
           /\ Count(pipe, SendReq(x)) \in Nat /\ Cardinality(Flyers(at, job, x)) \in Nat
           /\ InFlight(x) \in Nat
<1>1. pipe \in Seq(Requests)
  BY DEF TypeOK
<1>2. {i \in DOMAIN pipe : Sends(pipe[i], x)} = Where(pipe, SendReq(x))
  <2>1. \A i \in DOMAIN pipe : pipe[i] \in Requests
    BY <1>1
  <2> QED  BY <2>1 DEF Where, SendReq
<1>3. Count(pipe, SendReq(x)) \in Nat
  BY <1>1, CountType
<1>4. Cardinality(Flyers(at, job, x)) \in Nat
  <2>1. Flyers(at, job, x) \in SUBSET Worker /\ IsFiniteSet(Worker)
    BY SocketAssumption DEF Flyers
  <2> QED  BY <2>1, FS_Subset, FS_CardinalityType
<1>5. InFlight(x) = Cardinality(Where(pipe, SendReq(x))) + Cardinality(Flyers(at, job, x))
  BY <1>2 DEF InFlight, Flyers, Flying
<1> QED  BY <1>3, <1>4, <1>5 DEF Count

(* All workers but w are where they were. *)
Others(f, g, f1, g1, w) == \A v \in Worker : v # w => f1[v] = f[v] /\ g1[v] = g[v]

(* How many workers have counted a request they have not put into the      *)
(* pipe.                                                                   *)
LEMMA FlyersCount ==
    ASSUME NEW f, NEW g, NEW f1, NEW g1, NEW w \in Worker, Others(f, g, f1, g1, w), NEW x
    PROVE  /\ Cardinality(Flyers(f, g, x)) \in Nat /\ Cardinality(Flyers(f1, g1, x)) \in Nat
           /\ Cardinality(Flyers(f1, g1, x)) + One(Flying(f[w], g[w], x))
                = Cardinality(Flyers(f, g, x)) + One(Flying(f1[w], g1[w], x))
<1> DEFINE S == Flyers(f, g, x)
           T == Flyers(f1, g1, x)
           R == S \ {w}
<1>1. IsFiniteSet(S) /\ IsFiniteSet(T) /\ Cardinality(S) \in Nat /\ Cardinality(T) \in Nat
  <2>1. S \in SUBSET Worker /\ T \in SUBSET Worker /\ IsFiniteSet(Worker)
    BY SocketAssumption DEF Flyers
  <2> HIDE DEF S, T
  <2> QED  BY <2>1, FS_Subset, FS_CardinalityType
<1>2. R = T \ {w} /\ (w \in S <=> Flying(f[w], g[w], x)) /\ (w \in T <=> Flying(f1[w], g1[w], x))
  BY DEF Flyers, Others
<1> HIDE DEF S, T, R
<1>4. Cardinality(R) = IF w \in S THEN Cardinality(S) - 1 ELSE Cardinality(S)
  BY <1>1, FS_RemoveElement DEF R
<1>5. Cardinality(R) = IF w \in T THEN Cardinality(T) - 1 ELSE Cardinality(T)
  BY <1>1, <1>2, FS_RemoveElement
<1>6. Cardinality(T) + One(Flying(f[w], g[w], x)) = Cardinality(S) + One(Flying(f1[w], g1[w], x))
  BY <1>1, <1>2, <1>4, <1>5 DEF One
<1> QED  BY <1>1, <1>6 DEF S, T

(* What a step of a worker adds to the requests in flight. *)
LEMMA FlightWorker ==
    ASSUME TypeOK, TypeOK', NEW w \in Worker, NEW a, NEW j, Goes(w, a, j), NEW x
    PROVE  /\ InFlight(x) \in Nat /\ InFlight(x)' \in Nat
           /\ Count(pipe, SendReq(x)) \in Nat /\ Count(pipe', SendReq(x)) \in Nat
           /\ InFlight(x)' + One(Flying(at[w], job[w], x)) + Count(pipe, SendReq(x))
                = InFlight(x) + One(Flying(a, j, x)) + Count(pipe', SendReq(x))
<1>1. /\ InFlight(x) = Count(pipe, SendReq(x)) + Cardinality(Flyers(at, job, x))
      /\ Count(pipe, SendReq(x)) \in Nat /\ Cardinality(Flyers(at, job, x)) \in Nat /\ InFlight(x) \in Nat
  BY FlightIs
<1>2. /\ InFlight(x)' = Count(pipe', SendReq(x)) + Cardinality(Flyers(at', job', x))
      /\ Count(pipe', SendReq(x)) \in Nat /\ Cardinality(Flyers(at', job', x)) \in Nat /\ InFlight(x)' \in Nat
  <2>1. pipe' \in Seq(Requests)
    BY DEF TypeOK
  <2>2. {i \in DOMAIN pipe' : Sends(pipe'[i], x)} = Where(pipe', SendReq(x))
    <3>1. \A i \in DOMAIN pipe' : pipe'[i] \in Requests
      BY <2>1
    <3> QED  BY <3>1 DEF Where, SendReq
  <2>3. Count(pipe', SendReq(x)) \in Nat
    BY <2>1, CountType
  <2>4. Cardinality(Flyers(at', job', x)) \in Nat
    <3>1. Flyers(at', job', x) \in SUBSET Worker /\ IsFiniteSet(Worker)
      BY SocketAssumption DEF Flyers
    <3> QED  BY <3>1, FS_Subset, FS_CardinalityType
  <2>5. InFlight(x)' = Cardinality(Where(pipe', SendReq(x))) + Cardinality(Flyers(at', job', x))
    BY <2>2 DEF InFlight, Flyers, Flying
  <2> QED  BY <2>3, <2>4, <2>5 DEF Count
<1>3. Cardinality(Flyers(at', job', x)) + One(Flying(at[w], job[w], x))
         = Cardinality(Flyers(at, job, x)) + One(Flying(a, j, x))
  <2>1. PICK f : f = at'
    OBVIOUS
  <2>2. PICK g : g = job'
    OBVIOUS
  <2>3. PICK f0 : f0 = at
    OBVIOUS
  <2>4. PICK g0 : g0 = job
    OBVIOUS
  <2>5. Others(f0, g0, f, g, w)
    BY <2>1, <2>2, <2>3, <2>4 DEF Goes, Others
  <2>6. Cardinality(Flyers(f, g, x)) + One(Flying(f0[w], g0[w], x))
           = Cardinality(Flyers(f0, g0, x)) + One(Flying(f[w], g[w], x))
    BY <2>5, FlyersCount
  <2>7. f[w] = a /\ g[w] = j
    BY <2>1, <2>2 DEF Goes
  <2> QED  BY <2>1, <2>2, <2>3, <2>4, <2>6, <2>7
<1>4. One(Flying(at[w], job[w], x)) \in Nat /\ One(Flying(a, j, x)) \in Nat
  BY DEF One
<1> DEFINE p == Count(pipe, SendReq(x))
           q == Count(pipe', SendReq(x))
           c == Cardinality(Flyers(at, job, x))
           d == Cardinality(Flyers(at', job', x))
           n == One(Flying(at[w], job[w], x))
           o == One(Flying(a, j, x))
<1>5. p \in Nat /\ q \in Nat /\ c \in Nat /\ d \in Nat /\ n \in Nat /\ o \in Nat /\ d + n = c + o
  BY <1>1, <1>2, <1>3, <1>4
<1>6. (q + d) + n + p = (p + c) + o + q
  <2> HIDE DEF p, q, c, d, n, o
  <2> QED  BY <1>5
<1> QED  BY <1>1, <1>2, <1>6

(* What a step of the socket thread takes from them. *)
LEMMA FlightThread ==
    ASSUME TypeOK, TypeOK', UNCHANGED workerVars, NEW x
    PROVE  /\ InFlight(x) \in Nat /\ InFlight(x)' \in Nat
           /\ Count(pipe, SendReq(x)) \in Nat /\ Count(pipe', SendReq(x)) \in Nat
           /\ InFlight(x)' + Count(pipe, SendReq(x)) = InFlight(x) + Count(pipe', SendReq(x))
<1>0. at' = at /\ job' = job
  BY DEF workerVars
<1>1. /\ InFlight(x) = Count(pipe, SendReq(x)) + Cardinality(Flyers(at, job, x))
      /\ Count(pipe, SendReq(x)) \in Nat /\ Cardinality(Flyers(at, job, x)) \in Nat /\ InFlight(x) \in Nat
  BY FlightIs
<1>2. /\ InFlight(x)' = Count(pipe', SendReq(x)) + Cardinality(Flyers(at, job, x))
      /\ Count(pipe', SendReq(x)) \in Nat
  <2>1. pipe' \in Seq(Requests)
    BY DEF TypeOK
  <2>2. {i \in DOMAIN pipe' : Sends(pipe'[i], x)} = Where(pipe', SendReq(x))
    <3>1. \A i \in DOMAIN pipe' : pipe'[i] \in Requests
      BY <2>1
    <3> QED  BY <3>1 DEF Where, SendReq
  <2>3. Count(pipe', SendReq(x)) \in Nat
    BY <2>1, CountType
  <2>5. InFlight(x)' = Cardinality(Where(pipe', SendReq(x))) + Cardinality(Flyers(at, job, x))
    BY <1>0, <2>2 DEF InFlight, Flyers, Flying
  <2> QED  BY <2>3, <2>5 DEF Count
<1> QED  BY <1>1, <1>2

FlightOf(p, a, j, x) == Cardinality({i \in DOMAIN p : Sends(p[i], x)}) + Cardinality(Flyers(a, j, x))

(* The count of a slot is that of the socket it was last given to. *)
CountedInv ==
    \A k \in Slot : sock[k].protocol = "TCP" =>
        Hash(sock[k].id) = k /\ sock[k].sending = FlightOf(pipe, at, job, sock[k].id)

(* Nobody sends to a socket before it is reported to be open. *)
SendersInv ==
    /\ \A w \in Worker : job[w].cmd \in Sending => job[w].id \in opened
    /\ \A i \in DOMAIN pipe : pipe[i].cmd \in Sending => pipe[i].id \in opened

(* The requests in flight, in this state. *)
LEMMA FlightNow == \A x : InFlight(x) = FlightOf(pipe, at, job, x)
BY DEF InFlight, FlightOf, Flyers, Flying

(* The requests in flight, in the next state. *)
LEMMA FlightNext == \A x : InFlight(x)' = FlightOf(pipe', at', job', x)
BY DEF InFlight, FlightOf, Flyers, Flying

(* The count of a socket, read through its id. *)
LEMMA CountedHolds == TypeOK /\ NamesInv /\ CountedInv => SendingExact
<1> SUFFICES ASSUME TypeOK, NamesInv, CountedInv, NEW k \in DOMAIN sock, sock[k].type \notin {"INVALID", "RESERVE"}
             PROVE  sock[k].sending = InFlight(sock[k].id)
  BY DEF SendingExact
<1>1. k \in Slot /\ sock[k] \in Socket
  BY DEF TypeOK
<1>2. sock[k].type \in Open
  BY <1>1 DEF Socket, Open
<1>3. sock[k].protocol = "TCP"
  BY <1>1, <1>2 DEF NamesInv, Named
<1> QED  BY <1>1, <1>3, FlightNow DEF CountedInv

(* The counts, after a step that writes one slot. *)
LEMMA CountedOne ==
    ASSUME TypeOK, TypeOK', CountedInv, NEW k \in Slot, OneSlot(k),
           \A x \in 0 .. MaxId : Hash(x) # k => InFlight(x)' = InFlight(x),
           sock'[k].protocol = "TCP" =>
               Hash(sock'[k].id) = k /\ \A x : x = sock'[k].id => sock'[k].sending = InFlight(x)'
    PROVE  CountedInv'
<1> SUFFICES ASSUME NEW j \in Slot, sock'[j].protocol = "TCP"
             PROVE  Hash(sock'[j].id) = j /\ sock'[j].sending = FlightOf(pipe', at', job', sock'[j].id)
  BY DEF CountedInv
<1>1. PICK x : x = sock'[j].id
  OBVIOUS
<1>2. CASE j = k
  BY <1>1, <1>2, FlightNext
<1>3. CASE j # k
  <2>1. sock'[j] = sock[j]
    BY <1>3 DEF OneSlot
  <2>2. Hash(x) = j /\ sock[j].sending = FlightOf(pipe, at, job, x)
    BY <1>1, <2>1 DEF CountedInv
  <2>3. x \in 0 .. MaxId
    BY <1>1 DEF TypeOK, Socket
  <2>4. InFlight(x)' = InFlight(x)
    BY <1>3, <2>2, <2>3
  <2> QED  BY <1>1, <2>1, <2>2, <2>4, FlightNow, FlightNext
<1> QED  BY <1>2, <1>3

(* No count changes, but for that of a socket that nobody sends to. *)
LEMMA CountedSame ==
    ASSUME TypeOK, TypeOK', CountedInv, NEW k \in Slot, OneSlot(k), \A x : InFlight(x)' = InFlight(x),
           \/ SameName(sock[k], sock'[k])
           \/ sock'[k].protocol # "TCP"
           \/ Hash(sock'[k].id) = k /\ sock'[k].sending = 0 /\ \A x : x = sock'[k].id => InFlight(x) = 0
    PROVE  CountedInv'
<1>1. CASE SameName(sock[k], sock'[k])
  <2>1. sock'[k].protocol = "TCP" => Hash(sock'[k].id) = k /\ \A x : x = sock'[k].id => sock'[k].sending = InFlight(x)'
    <3> SUFFICES ASSUME sock'[k].protocol = "TCP", NEW x, x = sock'[k].id
                 PROVE Hash(sock'[k].id) = k /\ sock'[k].sending = InFlight(x)'
      OBVIOUS
    <3>1. Hash(sock[k].id) = k /\ sock[k].sending = FlightOf(pipe, at, job, x) /\ sock'[k].id = sock[k].id
          /\ sock'[k].sending = sock[k].sending
      BY <1>1 DEF CountedInv, SameName
    <3> QED  BY <3>1, FlightNow
  <2> QED  BY <2>1, CountedOne
<1>2. CASE ~SameName(sock[k], sock'[k])
  <2>1. sock'[k].protocol = "TCP" => Hash(sock'[k].id) = k /\ \A x : x = sock'[k].id => sock'[k].sending = InFlight(x)'
    BY <1>2
  <2> QED  BY <2>1, CountedOne
<1> QED  BY <1>1, <1>2

(* Nothing is in flight to a socket that nobody sends to. *)
LEMMA FlightZero ==
    ASSUME SendersInv, NEW x, x \notin opened
    PROVE  InFlight(x) = 0
<1>1. {i \in DOMAIN pipe : Sends(pipe[i], x)} = {} /\ {w \in Worker : at[w] = "pipe" /\ Sends(job[w], x)} = {}
  BY DEF SendersInv, Sends, Sending
<1> QED  BY <1>1, FS_EmptySet DEF InFlight

(* A worker sends only to a socket that was reported to be open. *)
LEMMA SendersWorker ==
    ASSUME TypeOK, SendersInv, opened' = opened, NEW w \in Worker, NEW a, NEW j, Goes(w, a, j),
           j.cmd \in Sending => j.id \in opened, pipe' = pipe \/ pipe' = Append(pipe, job[w])
    PROVE  SendersInv'
<1>1. \A v \in Worker : job'[v].cmd \in Sending => job'[v].id \in opened'
  BY DEF SendersInv, Goes
<1>2. \A i \in DOMAIN pipe' : pipe'[i].cmd \in Sending => pipe'[i].id \in opened'
  <2>1. CASE pipe' = pipe
    BY <2>1 DEF SendersInv
  <2>2. CASE pipe' = Append(pipe, job[w])
    <3>1. pipe \in Seq(Requests) /\ job[w] \in Requests
      BY DEF TypeOK
    <3>2. \A i \in DOMAIN pipe' : pipe'[i] = job[w] \/ (i \in DOMAIN pipe /\ pipe'[i] = pipe[i])
      BY <2>2, <3>1
    <3> QED  BY <3>2 DEF SendersInv
  <2> QED  BY <2>1, <2>2
<1> QED  BY <1>1, <1>2 DEF SendersInv

(* The socket thread sends nothing and forgets no open socket. *)
LEMMA SendersThread ==
    ASSUME TypeOK, SendersInv, opened \subseteq opened', UNCHANGED workerVars,
           pipe' = pipe \/ (pipe # <<>> /\ pipe' = Tail(pipe))
    PROVE  SendersInv'
<1>1. \A v \in Worker : job'[v].cmd \in Sending => job'[v].id \in opened'
  BY DEF SendersInv, workerVars
<1>2. \A i \in DOMAIN pipe' : pipe'[i].cmd \in Sending => pipe'[i].id \in opened'
  <2>1. CASE pipe' = pipe
    BY <2>1 DEF SendersInv
  <2>2. CASE pipe # <<>> /\ pipe' = Tail(pipe)
    <3>1. \A i \in DOMAIN pipe' : i + 1 \in DOMAIN pipe /\ pipe'[i] = pipe[i + 1]
      BY <2>2, TailIs DEF TypeOK
    <3> QED  BY <3>1 DEF SendersInv
  <2> QED  BY <2>1, <2>2
<1> QED  BY <1>1, <1>2 DEF SendersInv

(* A request in flight more. *)
LEMMA AddFlight ==
    ASSUME TypeOK, NEW r \in Requests, pipe' = Append(pipe, r), NEW x
    PROVE  Count(pipe', SendReq(x)) = Count(pipe, SendReq(x)) + One(Sends(r, x))
<1>1. pipe \in Seq(Requests)
  BY DEF TypeOK
<1>2. Count(Append(pipe, r), SendReq(x)) = Count(pipe, SendReq(x)) + (IF r \in SendReq(x) THEN 1 ELSE 0)
  BY <1>1, CountAppend
<1>3. r \in SendReq(x) <=> Sends(r, x)
  BY DEF SendReq
<1> QED  BY <1>2, <1>3 DEF One

(* A request in flight less. *)
LEMMA TakeFlight ==
    ASSUME TypeOK, pipe # <<>>, pipe' = Tail(pipe), NEW x
    PROVE  Count(pipe, SendReq(x)) = Count(pipe', SendReq(x)) + One(Sends(Cmd, x))
<1>1. pipe \in Seq(Requests)
  BY DEF TypeOK
<1>2. Count(pipe, SendReq(x)) = Count(Tail(pipe), SendReq(x)) + (IF Head(pipe) \in SendReq(x) THEN 1 ELSE 0)
  BY <1>1, CountTail
<1>3. Cmd \in SendReq(x) <=> Sends(Cmd, x)
  BY CmdType DEF SendReq
<1> QED  BY <1>2, <1>3 DEF One, Cmd

(* A request that is put into the pipe was in flight before. *)
LEMMA FlightKept ==
    ASSUME TypeOK, TypeOK', NEW w \in Worker, NEW a, NEW j, Goes(w, a, j), pipe' = pipe,
           a # "pipe" \/ j.cmd \notin Sending, at[w] # "pipe" \/ job[w].cmd \notin Sending
    PROVE  \A x : InFlight(x)' = InFlight(x)
<1> SUFFICES ASSUME NEW x PROVE InFlight(x)' = InFlight(x)
  OBVIOUS
<1>1. /\ InFlight(x) \in Nat /\ InFlight(x)' \in Nat /\ Count(pipe, SendReq(x)) \in Nat
      /\ InFlight(x)' + One(Flying(at[w], job[w], x)) + Count(pipe, SendReq(x))
                = InFlight(x) + One(Flying(a, j, x)) + Count(pipe', SendReq(x))
  BY FlightWorker
<1>2. One(Flying(at[w], job[w], x)) = 0 /\ One(Flying(a, j, x)) = 0
  BY DEF One, Flying, Sends, Sending
<1> QED  BY <1>1, <1>2

(* A step of a worker that sends nothing keeps what is in flight. *)
LEMMA FlightRests ==
    ASSUME TypeOK, TypeOK', UNCHANGED workerVars,
           pipe' = pipe \/ (pipe # <<>> /\ pipe' = Tail(pipe) /\ Cmd.cmd \notin Sending)
    PROVE  \A x : InFlight(x)' = InFlight(x)
<1> SUFFICES ASSUME NEW x PROVE InFlight(x)' = InFlight(x)
  OBVIOUS
<1>1. /\ InFlight(x) \in Nat /\ InFlight(x)' \in Nat /\ Count(pipe, SendReq(x)) \in Nat /\ Count(pipe', SendReq(x)) \in Nat
      /\ InFlight(x)' + Count(pipe, SendReq(x)) = InFlight(x) + Count(pipe', SendReq(x))
  BY FlightThread
<1>2. Count(pipe', SendReq(x)) = Count(pipe, SendReq(x))
  <2>1. CASE pipe' = pipe
    BY <2>1
  <2>2. CASE pipe # <<>> /\ pipe' = Tail(pipe) /\ Cmd.cmd \notin Sending
    <3>1. Count(pipe, SendReq(x)) = Count(pipe', SendReq(x)) + One(Sends(Cmd, x))
      BY <2>2, TakeFlight
    <3>2. One(Sends(Cmd, x)) = 0
      BY <2>2 DEF One, Sends, Sending
    <3> QED  BY <1>1, <3>1, <3>2
  <2> QED  BY <2>1, <2>2
<1> QED  BY <1>1, <1>2

(* Every step of a worker keeps the counts exact. *)
LEMMA CountedWorker ==
    ASSUME ~Early, TypeOK, OwnersInv, PlacesInv, CountedInv, SendersInv, NEW w \in Worker, Request(w) \/ WorkerStep(w)
    PROVE  CountedInv' /\ SendersInv'
<1>o. JobsInv /\ NamesInv
  BY DEF OwnersInv
<1>t. TypeOK' /\ sock \in [Slot -> Socket] /\ pipe \in Seq(Requests)
  <2>1. TypeOK'
    BY WorkerTypes
  <2> QED  BY <2>1 DEF TypeOK
<1>j. /\ job[w] \in Requests /\ job[w].id \in Nat /\ job[w].id \in 0 .. MaxId /\ Hash(job[w].id) \in Slot
      /\ at[w] = "idle" => job[w] = NoReq
      /\ at[w] \in {"try", "locked"} => job[w].m \in Msg
      /\ job[w].cmd \in Sending <=> job[w].m # 0
      /\ job[w].cmd \in Sending => job[w].id \in opened
  BY JobTypes DEF PlacesInv, SendersInv
<1>r. \A cmd, id, m : Req(cmd, id, m).cmd = cmd /\ Req(cmd, id, m).id = id /\ Req(cmd, id, m).m = m
  BY DEF Req
<1>0. NoReq.cmd \notin Sending
  BY DEF NoReq, Req, Sending
<1>k. PICK k \in Slot : k = Hash(job[w].id)
  BY <1>j
<1>u. UNCHANGED sock => OneSlot(k) /\ SameName(sock[k], sock'[k])
  BY <1>t DEF OneSlot, SameName
<1>1. ASSUME NEW cmd \in Kinds, Reserve(w, cmd) PROVE CountedInv' /\ SendersInv'
  <2>1. PICK id \in Id :
               /\ alloc_id < id /\ alloc_id' = id /\ sock[Hash(id)].type = "INVALID" /\ Hash(id) \in Slot
               /\ Keeps(Hash(id)) /\ sock'[Hash(id)].type = "RESERVE" /\ sock'[Hash(id)].lock = sock[Hash(id)].lock
               /\ at[w] = "idle" /\ Goes(w, "reserve", Req(cmd, id, 0)) /\ cmd \in Opening
               /\ UNCHANGED <<pipe, threadVars, nmsg, nctl, from, told, freed, wire, marks, failed>>
    BY <1>1, ReserveEffect
  <2>2. PICK h \in Slot : h = Hash(id)
    BY <2>1
  <2>3. OneSlot(h) /\ SameName(sock[h], sock'[h]) /\ opened' = opened /\ pipe' = pipe
    BY <2>1, <2>2 DEF Keeps, told
  <2>4. Req(cmd, id, 0).cmd \notin Sending
    BY <1>r, <2>1 DEF Opening, Sending
  <2>5. \A x : InFlight(x)' = InFlight(x)
    BY <1>t, <2>1, <2>3, FlightKept
  <2> QED  BY <1>t, <2>1, <2>3, <2>4, <2>5, CountedSame, SendersWorker
<1>2. CASE ReserveSet(w)
  <2>1. /\ at[w] = "reserve" /\ Goes(w, "pipe", job[w]) /\ OneSlot(k) /\ sock'[k].protocol = "UNKNOWN"
        /\ pipe' = pipe /\ opened' = opened
    BY <1>2, <1>k, ReserveSetEffect DEF told
  <2>2. job[w].cmd \notin Sending
    BY <1>o, <1>j, <2>1 DEF JobsInv
  <2>3. \A x : InFlight(x)' = InFlight(x)
    BY <1>t, <2>1, <2>2, FlightKept
  <2> QED  BY <1>t, <2>1, <2>2, <2>3, CountedSame, SendersWorker
<1>3. CASE SendRequest(w)
  <2>1. at[w] = "pipe" /\ Goes(w, "idle", NoReq) /\ pipe' = Append(pipe, job[w]) /\ UNCHANGED sock /\ opened' = opened
    BY <1>3, SendRequestEffect
  <2>2. OneSlot(k) /\ SameName(sock[k], sock'[k])
    BY <1>u, <2>1
  <2>3. ASSUME NEW x PROVE InFlight(x)' = InFlight(x)
    <3>1. /\ InFlight(x) \in Nat /\ InFlight(x)' \in Nat /\ Count(pipe, SendReq(x)) \in Nat
          /\ InFlight(x)' + One(Flying(at[w], job[w], x)) + Count(pipe, SendReq(x))
                = InFlight(x) + One(Flying("idle", NoReq, x)) + Count(pipe', SendReq(x))
      BY <1>t, <2>1, FlightWorker
    <3>2. Count(pipe', SendReq(x)) = Count(pipe, SendReq(x)) + One(Sends(job[w], x))
      BY <1>j, <2>1, AddFlight
    <3>3. One(Flying("idle", NoReq, x)) = 0 /\ One(Flying(at[w], job[w], x)) = One(Sends(job[w], x))
      BY <2>1 DEF One, Flying
    <3>4. One(Sends(job[w], x)) \in Nat
      BY DEF One
    <3> QED  BY <3>1, <3>2, <3>3, <3>4
  <2>4. SendersInv'
    BY <1>0, <2>1, SendersWorker
  <2>5. CountedInv'
    BY <1>t, <2>2, <2>3, CountedSame
  <2> QED  BY <2>4, <2>5
<1>4. ASSUME NEW id \in Id, NEW cmd \in {"K", "Kill", "S"}, Control(w, cmd, id) PROVE CountedInv' /\ SendersInv'
  <2>1. pipe' = Append(pipe, Req(cmd, id, 0)) /\ UNCHANGED workerVars /\ UNCHANGED sock /\ opened' = opened
    BY <1>4 DEF Control, told
  <2>2. OneSlot(k) /\ SameName(sock[k], sock'[k])
    BY <1>u, <2>1
  <2>3. Req(cmd, id, 0) \in Requests
    <3>1. id \in 0 .. MaxId
      BY SocketAssumption DEF Id
    <3>2. cmd \in {"", "S", "clear", "events"} \cup Opening \cup Closing
      BY DEF Closing
    <3> QED  BY <3>1, <3>2, ReqType, Zenon
  <2>4. PICK r \in Requests : r = Req(cmd, id, 0)
    BY <2>3
  <2>5. r.cmd \notin Sending
    BY <1>r, <2>4 DEF Sending
  <2>6. ASSUME NEW x PROVE InFlight(x)' = InFlight(x)
    <3>1. /\ InFlight(x) \in Nat /\ InFlight(x)' \in Nat /\ Count(pipe, SendReq(x)) \in Nat
          /\ InFlight(x)' + Count(pipe, SendReq(x)) = InFlight(x) + Count(pipe', SendReq(x))
      BY <1>t, <2>1, FlightThread
    <3>2. Count(pipe', SendReq(x)) = Count(pipe, SendReq(x)) + One(Sends(r, x))
      BY <2>1, <2>4, AddFlight
    <3>3. One(Sends(r, x)) = 0
      BY <2>5 DEF One, Sends, Sending
    <3> QED  BY <3>1, <3>2, <3>3
  <2>7. CountedInv'
    BY <1>t, <2>2, <2>6, CountedSame
  <2>8. SendersInv'
    <3>1. \A i \in DOMAIN pipe' : pipe'[i] = r \/ (i \in DOMAIN pipe /\ pipe'[i] = pipe[i])
      BY <1>t, <2>1, <2>4
    <3> QED  BY <2>1, <2>5, <3>1 DEF SendersInv, workerVars
  <2> QED  BY <2>7, <2>8
<1>5. ASSUME NEW id \in Id, NEW cmd \in {"D", "P"}, Send(w, cmd, id) PROVE CountedInv' /\ SendersInv'
  <2>1. /\ at[w] = "idle" /\ id \in opened /\ opened' = opened
        /\ \/ Goes(w, IF cmd = "D" THEN "try" ELSE "inc", Req(cmd, id, nmsg'))
           \/ UNCHANGED workerVars
        /\ UNCHANGED <<sock, pipe>>
    BY <1>5, SendEffect DEF told
  <2>2. OneSlot(k) /\ SameName(sock[k], sock'[k])
    BY <1>u, <2>1
  <2>3. CASE Goes(w, IF cmd = "D" THEN "try" ELSE "inc", Req(cmd, id, nmsg'))
    <3>1. PICK a : a = IF cmd = "D" THEN "try" ELSE "inc"
      OBVIOUS
    <3>2. PICK j : j = Req(cmd, id, nmsg')
      OBVIOUS
    <3>3. Goes(w, a, j) /\ a # "pipe" /\ j.id \in opened
      BY <1>r, <2>1, <2>3, <3>1, <3>2
    <3>4. \A x : InFlight(x)' = InFlight(x)
      BY <1>t, <2>1, <3>3, FlightKept
    <3> QED  BY <1>t, <2>1, <2>2, <3>3, <3>4, CountedSame, SendersWorker
  <2>4. CASE UNCHANGED workerVars
    <3>1. \A x : InFlight(x)' = InFlight(x)
      BY <1>t, <2>1, <2>4, FlightRests
    <3>2. SendersInv'
      BY <2>1, <2>4, SendersThread
    <3> QED  BY <1>t, <2>2, <3>1, <3>2, CountedSame
  <2> QED  BY <2>1, <2>3, <2>4
<1>6. CASE TryDirectWrite(w) \/ DirectWrite(w)
  <2>1. /\ at[w] \in {"try", "locked"} /\ pipe' = pipe /\ opened' = opened
        /\ Goes(w, "locked", job[w]) \/ Goes(w, "inc", job[w]) \/ Goes(w, "idle", NoReq)
        /\ UNCHANGED sock \/ (OneSlot(k) /\ SameName(sock[k], sock'[k]))
    BY <1>6, <1>k, TryEffect, DirectWriteEffect DEF told, Keeps
  <2>2. OneSlot(k) /\ SameName(sock[k], sock'[k])
    BY <1>u, <2>1
  <2>3. PICK a, j : Goes(w, a, j) /\ a # "pipe" /\ (j = job[w] \/ j = NoReq)
    BY <2>1
  <2>4. \A x : InFlight(x)' = InFlight(x)
    BY <1>t, <2>1, <2>3, FlightKept
  <2>5. j.cmd \in Sending => j.id \in opened
    BY <1>j, <1>0, <2>3
  <2> QED  BY <1>t, <2>1, <2>2, <2>3, <2>4, <2>5, CountedSame, SendersWorker
<1>7. CASE IncSendingRef(w)
  <2>s. PICK s \in Socket : s = sock[k]
    BY <1>t
  <2>t. PICK t : t = sock'[k]
    OBVIOUS
  <2>1. /\ at[w] = "inc" /\ Goes(w, "pipe", job[w]) /\ OneSlot(k)
        /\ t.id = s.id /\ t.protocol = s.protocol /\ t.tag = s.tag
        /\ t.sending = IF s.protocol = "TCP" /\ s.tag = job[w].id THEN s.sending + 1 ELSE s.sending
        /\ pipe' = pipe /\ opened' = opened
    BY <1>7, <1>k, <2>s, <2>t, IncEffect DEF told
  <2>2. job[w].cmd \in Sending
    BY <1>o, <2>1 DEF JobsInv
  <2>3. ASSUME NEW x PROVE InFlight(x)' = InFlight(x) + One(job[w].id = x) /\ InFlight(x) \in Nat
    <3>1. /\ InFlight(x) \in Nat /\ InFlight(x)' \in Nat /\ Count(pipe, SendReq(x)) \in Nat
          /\ InFlight(x)' + One(Flying(at[w], job[w], x)) + Count(pipe, SendReq(x))
                = InFlight(x) + One(Flying("pipe", job[w], x)) + Count(pipe', SendReq(x))
      BY <1>t, <2>1, FlightWorker
    <3>2. One(Flying(at[w], job[w], x)) = 0 /\ One(Flying("pipe", job[w], x)) = One(job[w].id = x)
      BY <2>1, <2>2 DEF One, Flying, Sends, Sending
    <3>3. One(job[w].id = x) \in Nat
      BY DEF One
    <3> QED  BY <2>1, <3>1, <3>2, <3>3
  <2>4. \A x \in 0 .. MaxId : Hash(x) # k => InFlight(x)' = InFlight(x)
    BY <1>k, <2>3 DEF One
  <2>5. ASSUME t.protocol = "TCP", NEW x, x = t.id PROVE Hash(t.id) = k /\ t.sending = InFlight(x)'
    <3>1. Hash(s.id) = k /\ s.sending = FlightOf(pipe, at, job, s.id) /\ s.tag = s.id /\ x = s.id
      BY <1>o, <2>1, <2>5, <2>s DEF CountedInv, NamesInv, Named
    <3>2. s.sending = InFlight(x) /\ InFlight(x)' = InFlight(x) + One(job[w].id = x) /\ InFlight(x) \in Nat
      BY <2>3, <3>1, FlightNow
    <3> QED  BY <2>1, <2>5, <3>1, <3>2 DEF One
  <2>6. CountedInv'
    BY <1>t, <2>1, <2>4, <2>5, <2>t, CountedOne
  <2>7. SendersInv'
    BY <1>j, <2>1, SendersWorker
  <2> QED  BY <2>6, <2>7
<1> QED  BY <1>1, <1>2, <1>3, <1>4, <1>5, <1>6, <1>7 DEF Request, WorkerStep

(* Every step of the socket thread keeps the counts exact. *)
LEMMA CountedThread ==
    ASSUME TypeOK, OwnersInv, ArmedInv, CountedInv, SendersInv, SocketThread, Sound'
    PROVE  CountedInv' /\ SendersInv'
<1>f. failed' = {} /\ ~strayed'
  BY DEF Sound
<1>o. HoldersInv /\ NamesInv /\ ClosingInv
  BY DEF OwnersInv
<1>T. TypeOK'
  BY ThreadTypes
<1>t. Hash(closing.id) \in Slot /\ alloc_id \in 0 .. MaxId /\ sock \in [Slot -> Socket]
  BY RequestType, HashRange DEF TypeOK
<1>c. PICK c \in Slot : c = Hash(closing.id)
  BY <1>t
<1>k. PICK k : k = Hash(Cmd.id)
  OBVIOUS
<1>q. pipe # <<>> => /\ k \in Slot /\ (Cmd.cmd \in Opening => Asks(1)) /\ 1 \in DOMAIN pipe /\ Cmd = pipe[1]
                     /\ (Cmd.cmd \in Sending => Cmd.m \in Msg)
  BY <1>k, TakenIs
<1>e. \A e \in ev : e.slot \in Slot
  BY DEF TypeOK
<1>u. \A j \in Slot : UNCHANGED sock => OneSlot(j) /\ SameName(sock[j], sock'[j])
  BY <1>t DEF OneSlot, SameName
<1>a. ASSUME NEW j \in Slot, OneSlot(j), opened \subseteq opened', UNCHANGED workerVars,
             pipe' = pipe \/ (pipe # <<>> /\ pipe' = Tail(pipe) /\ Cmd.cmd \notin Sending),
             \/ SameName(sock[j], sock'[j])
             \/ Hash(sock'[j].id) = j /\ sock'[j].sending = 0 /\ sock'[j].id \notin opened
      PROVE  CountedInv' /\ SendersInv'
  <2>1. \A x : InFlight(x)' = InFlight(x)
    BY <1>T, <1>a, FlightRests
  <2>2. sock'[j].id \notin opened => \A x : x = sock'[j].id => InFlight(x) = 0
    BY FlightZero
  <2>3. SendersInv'
    BY <1>a, SendersThread
  <2> QED  BY <1>T, <1>a, <2>1, <2>2, <2>3, CountedSame
<1>1. CASE ForceClose
  <2>1. sock' = [sock EXCEPT ![c] = Closed(@)] /\ UNCHANGED workerVars /\ UNCHANGED <<pipe, opened>>
    BY <1>c, <1>1 DEF ForceClose
  <2>2. OneSlot(c) /\ SameName(sock[c], sock'[c])
    BY <2>1, ClosedDoes
  <2> QED  BY <1>a, <2>1, <2>2
<1>2. CASE ClearClosedEvent \/ CtrlDone \/ Wait \/ \E e \in ev : SkipEvent(e)
  <2>1. UNCHANGED workerVars /\ UNCHANGED <<sock, pipe, opened>>
    BY <1>2 DEF ClearClosedEvent, CtrlDone, Wait, SkipEvent, told
  <2> QED  BY <1>a, <1>u, <2>1
<1>3. CASE CloseOrHalf
  <2>1. UNCHANGED workerVars /\ UNCHANGED <<pipe, opened>>
    BY <1>3 DEF CloseOrHalf, told
  <2>2. OneSlot(c) /\ SameName(sock[c], sock'[c])
    <3>1. CASE FreeLists(c, "clear")
      BY <3>1, FreeDoes
    <3>2. CASE sock' = [sock EXCEPT ![c].type = "HALFCLOSE"]
      <4>1. "HALFCLOSE" \in Types /\ sock[c].polled \in BOOLEAN /\ sock[c].write \in BOOLEAN
        BY <1>t DEF Types, Socket
      <4> QED  BY <3>2, <4>1, TypeDoes
    <3> QED  BY <1>c, <1>3, <3>1, <3>2 DEF CloseOrHalf
  <2> QED  BY <1>a, <2>1, <2>2
<1>4. CASE OpenSocket
  <2>1. /\ pipe # <<>> /\ Cmd.cmd \in Opening /\ pipe' = Tail(pipe) /\ OneSlot(k)
        /\ \/ sock'[k].id = Cmd.id /\ sock'[k].sending = 0
           \/ SameName(sock[k], sock'[k])
        /\ UNCHANGED workerVars /\ opened \subseteq opened'
    BY <1>k, <1>4, <1>f, OpenEffect DEF NewSlot
  <2>2. k \in Slot /\ Cmd.cmd \notin Sending /\ Cmd.id \notin opened
    BY <1>k, <1>o, <1>q, <2>1 DEF HoldersInv, Reserved, Opening, Sending
  <2> QED  BY <1>a, <1>k, <2>1, <2>2
<1>5. CASE StartSocket
  <2>1. /\ pipe # <<>> /\ pipe' = Tail(pipe) /\ Cmd.cmd \notin Sending /\ UNCHANGED workerVars /\ opened \subseteq opened'
    BY <1>5 DEF StartSocket, Command, Sending
  <2>2. k \in Slot
    BY <1>q, <2>1
  <2>3. \/ UNCHANGED sock
        \/ FreeLists(k, "clear")
        \/ \E type \in {"CONNECTED", "LISTEN"} : sock' = [sock EXCEPT ![k].polled = TRUE, ![k].type = type]
    BY <1>k, <1>5 DEF StartSocket
  <2>4. OneSlot(k) /\ SameName(sock[k], sock'[k])
    <3>1. CASE UNCHANGED sock
      BY <1>u, <2>2, <3>1
    <3>2. CASE FreeLists(k, "clear")
      BY <2>2, <3>2, FreeDoes
    <3>3. ASSUME NEW type \in {"CONNECTED", "LISTEN"}, sock' = [sock EXCEPT ![k].polled = TRUE, ![k].type = type]
          PROVE  OneSlot(k) /\ SameName(sock[k], sock'[k])
      <4>1. type \in Types /\ sock[k].write \in BOOLEAN
        BY <1>t, <2>2 DEF Types, Socket
      <4> QED  BY <2>2, <3>3, <4>1, TypeDoes
    <3> QED  BY <2>3, <3>1, <3>2, <3>3
  <2> QED  BY <1>a, <2>1, <2>2, <2>4
<1>6. CASE CloseSocket
  <2>1. /\ pipe # <<>> /\ pipe' = Tail(pipe) /\ Cmd.cmd \notin Sending /\ UNCHANGED workerVars /\ UNCHANGED opened
    BY <1>6 DEF CloseSocket, Command, Sending
  <2>2. k \in Slot
    BY <1>q, <2>1
  <2>3. \/ UNCHANGED sock
        \/ \E n \in 0 .. MaxMsg * Size, err \in BOOLEAN : SendBuffer(k, n, err, "clear", "close")
    BY <1>k, <1>6 DEF CloseSocket
  <2>4. OneSlot(k) /\ SameName(sock[k], sock'[k])
    <3>1. CASE UNCHANGED sock
      BY <1>u, <2>2, <3>1
    <3>2. ASSUME NEW n \in 0 .. MaxMsg * Size, NEW err \in BOOLEAN, SendBuffer(k, n, err, "clear", "close")
          PROVE  OneSlot(k) /\ SameName(sock[k], sock'[k])
      <4>1. n \in Nat
        OBVIOUS
      <4> QED  BY <2>2, <3>2, <4>1, SendBufferDoes
    <3> QED  BY <2>3, <3>1, <3>2
  <2> QED  BY <1>a, <2>1, <2>2, <2>4
<1>7. CASE SendSocket
  <2>1. pipe # <<>> /\ pipe' = Tail(pipe) /\ Cmd.cmd \in Sending /\ UNCHANGED workerVars /\ UNCHANGED opened
    BY <1>7 DEF SendSocket, Command, told, Sending
  <2>2. k \in Slot /\ Cmd.m \in Msg
    BY <1>q, <2>1
  <2>s. PICK s : s = sock[k]
    OBVIOUS
  <2>t. PICK t : t = sock'[k]
    OBVIOUS
  <2>3. /\ OneSlot(k) /\ t.id = s.id /\ t.protocol = s.protocol
        /\ t.sending = IF s.id = Cmd.id /\ s.protocol = "TCP" THEN s.sending - 1 ELSE s.sending
    BY <1>k, <1>7, <2>2, <2>s, <2>t, SendSocketDoes
  <2>4. ASSUME NEW x PROVE InFlight(x) = InFlight(x)' + One(Cmd.id = x) /\ InFlight(x)' \in Nat
    <3>1. /\ InFlight(x) \in Nat /\ InFlight(x)' \in Nat /\ Count(pipe, SendReq(x)) \in Nat /\ Count(pipe', SendReq(x)) \in Nat
          /\ InFlight(x)' + Count(pipe, SendReq(x)) = InFlight(x) + Count(pipe', SendReq(x))
      BY <1>T, <2>1, FlightThread
    <3>2. Count(pipe, SendReq(x)) = Count(pipe', SendReq(x)) + One(Sends(Cmd, x))
      BY <2>1, TakeFlight
    <3>3. One(Sends(Cmd, x)) = One(Cmd.id = x) /\ One(Cmd.id = x) \in Nat
      BY <2>1 DEF One, Sends, Sending
    <3> QED  BY <3>1, <3>2, <3>3
  <2>5. \A x \in 0 .. MaxId : Hash(x) # k => InFlight(x)' = InFlight(x)
    BY <1>k, <2>4 DEF One
  <2>6. ASSUME t.protocol = "TCP", NEW x, x = t.id PROVE Hash(t.id) = k /\ t.sending = InFlight(x)'
    <3>1. Hash(s.id) = k /\ s.sending = FlightOf(pipe, at, job, s.id) /\ x = s.id
      BY <2>2, <2>3, <2>6, <2>s DEF CountedInv
    <3>2. s.sending = InFlight(x) /\ InFlight(x) = InFlight(x)' + One(Cmd.id = x) /\ InFlight(x)' \in Nat
      BY <2>4, <3>1, FlightNow
    <3> QED  BY <2>3, <2>6, <3>1, <3>2 DEF One
  <2>7. CountedInv'
    BY <1>T, <2>2, <2>3, <2>5, <2>6, <2>t, CountedOne
  <2>8. SendersInv'
    BY <2>1, SendersThread
  <2> QED  BY <2>7, <2>8
<1>9. ASSUME NEW e \in ev, ReportConnect(e) PROVE CountedInv' /\ SendersInv'
  <2>1. /\ UNCHANGED workerVars /\ UNCHANGED pipe /\ e.slot \in Slot /\ opened \subseteq opened'
        /\ \/ sock' = [sock EXCEPT ![e.slot].type = "CONNECTED", ![e.slot].write = ~NomoreSendingData(sock[e.slot])]
           \/ FreeLists(e.slot, "events")
    BY <1>e, <1>9 DEF ReportConnect, Event
  <2>2. OneSlot(e.slot) /\ SameName(sock[e.slot], sock'[e.slot])
    <3>1. CASE FreeLists(e.slot, "events")
      BY <2>1, <3>1, FreeDoes
    <3>2. CASE sock' = [sock EXCEPT ![e.slot].type = "CONNECTED", ![e.slot].write = ~NomoreSendingData(sock[e.slot])]
      <4>1. PICK b \in BOOLEAN : b = ~NomoreSendingData(sock[e.slot])
        OBVIOUS
      <4>2. "CONNECTED" \in Types /\ sock' = [sock EXCEPT ![e.slot].type = "CONNECTED", ![e.slot].write = b]
            /\ sock[e.slot].polled \in BOOLEAN
        BY <1>t, <2>1, <3>2, <4>1 DEF Types, Socket
      <4> QED  BY <2>1, <4>2, TypeDoes
    <3> QED  BY <2>1, <3>1, <3>2
  <2> QED  BY <1>a, <2>1, <2>2
<1>10. ASSUME NEW e \in ev, ReportAccept(e) PROVE CountedInv' /\ SendersInv'
  <2>1. /\ UNCHANGED workerVars /\ UNCHANGED <<pipe, opened>>
        /\ \/ UNCHANGED sock
           \/ \E id \in alloc_id + 1 .. alloc_id + Slots :
                /\ id <= MaxId
                /\ sock' = [sock EXCEPT ![Hash(id)] =
                  [@ EXCEPT !.type = "PACCEPT", !.id = id, !.protocol = "TCP", !.tag = id, !.sending = 0, !.wb = 0]]
    BY <1>10 DEF ReportAccept, Event
  <2>2. CASE UNCHANGED sock
    BY <1>a, <1>u, <1>c, <2>1, <2>2
  <2>3. ASSUME NEW id \in alloc_id + 1 .. alloc_id + Slots, id <= MaxId,
               sock' = [sock EXCEPT ![Hash(id)] =
                  [@ EXCEPT !.type = "PACCEPT", !.id = id, !.protocol = "TCP", !.tag = id, !.sending = 0, !.wb = 0]]
        PROVE  CountedInv' /\ SendersInv'
    <3>1. id \in 0 .. MaxId /\ id \in Nat /\ ~(id <= alloc_id)
      BY <1>t, <2>3
    <3>2. PICK h \in Slot : h = Hash(id)
      BY <3>1, HashRange
    <3>3. OneSlot(h) /\ sock'[h].id = id /\ sock'[h].sending = 0
      BY <2>3, <3>1, <3>2, AcceptDoes, ZenonT(30)
    <3>4. id \notin opened
      BY <1>o, <3>1 DEF NamesInv
    <3> QED  BY <1>a, <2>1, <3>2, <3>3, <3>4
  <2> QED  BY <2>1, <2>2, <2>3
<1>11. ASSUME NEW e \in ev, ReadEvent(e) PROVE CountedInv' /\ SendersInv'
  <2>1. /\ UNCHANGED workerVars /\ UNCHANGED <<pipe, opened>> /\ e.slot \in Slot
        /\ UNCHANGED sock \/ FreeLists(e.slot, "events")
    BY <1>e, <1>11 DEF ReadEvent, Event, told
  <2>2. OneSlot(e.slot) /\ SameName(sock[e.slot], sock'[e.slot])
    BY <1>u, <2>1, FreeDoes
  <2> QED  BY <1>a, <2>1, <2>2
<1>12. ASSUME NEW e \in ev, NEW n \in 0 .. MaxMsg * Size, NEW err \in BOOLEAN, WriteEvent(e, n, err)
       PROVE CountedInv' /\ SendersInv'
  <2>1. /\ UNCHANGED workerVars /\ UNCHANGED <<pipe, opened>> /\ e.slot \in Slot /\ n \in Nat
        /\ UNCHANGED sock \/ SendBuffer(e.slot, n, err, "events", "events")
    BY <1>e, <1>12 DEF WriteEvent, Event
  <2>2. OneSlot(e.slot) /\ SameName(sock[e.slot], sock'[e.slot])
    <3>1. CASE SendBuffer(e.slot, n, err, "events", "events")
      BY <2>1, <3>1, SendBufferDoes
    <3>2. CASE UNCHANGED sock
      BY <1>u, <2>1, <3>2
    <3> QED  BY <2>1, <3>1, <3>2
  <2> QED  BY <1>a, <2>1, <2>2
<1> QED  BY <1>1, <1>2, <1>3, <1>4, <1>5, <1>6, <1>7, <1>9, <1>10, <1>11, <1>12 DEF SocketThread

(* No socket is open and nothing is in flight. *)
LEMMA CountedInit == Init => CountedInv /\ SendersInv
<1> SUFFICES ASSUME Init PROVE CountedInv /\ SendersInv
  OBVIOUS
<1>1. \A k \in Slot : sock[k].protocol = "UNKNOWN"
  BY DEF Init, Slot
<1>2. \A w \in Worker : job[w].cmd = ""
  BY DEF Init, NoReq, Req
<1>3. pipe = <<>>
  BY DEF Init
<1>4. CountedInv
  BY <1>1 DEF CountedInv
<1>5. \A w \in Worker : job[w].cmd \notin Sending
  BY <1>2 DEF Sending
<1>6. DOMAIN pipe = {}
  BY <1>3
<1>7. SendersInv
  BY <1>5, <1>6 DEF SendersInv
<1> QED  BY <1>4, <1>7

(* What is kept of buffers, besides *)
BuffersInv == SocketInv /\ (Sound => PlacesInv /\ (~Early => CountedInv /\ SendersInv))

(* Every step keeps the buffers and the counts. *)
LEMMA BuffersNext == BuffersInv /\ [Next]_vars => BuffersInv'
<1> SUFFICES ASSUME BuffersInv, [Next]_vars PROVE BuffersInv'
  OBVIOUS
<1>1. SocketInv /\ SocketInv' /\ TypeOK /\ TypeOK' /\ strayed \in BOOLEAN
  <2>1. SocketInv /\ SocketInv'
    BY SocketInvNext DEF BuffersInv
  <2> QED  BY <2>1 DEF SocketInv, TypeOK
<1>2. ASSUME Sound' PROVE PlacesInv' /\ (~Early => CountedInv' /\ SendersInv')
  <2>1. OwnersInv /\ ArmedInv /\ PlacesInv /\ (~Early => CountedInv /\ SendersInv)
    BY <1>1, <1>2, SoundBefore DEF BuffersInv, SocketInv
  <2>2. CASE UNCHANGED vars
    <3>1. UNCHANGED <<sock, pipe, at, job, freed, nmsg, opened>>
      BY <2>2 DEF vars, workerVars, bounds, told
    <3>2. PlacesInv'
      BY <2>1, <3>1 DEF PlacesInv, InJobs, JobsOf, InPipe
    <3>3. ~Early => CountedInv' /\ SendersInv'
      BY <2>1, <3>1 DEF CountedInv, SendersInv
    <3> QED  BY <3>2, <3>3
  <2>3. ASSUME NEW w \in Worker, Request(w) \/ WorkerStep(w)
        PROVE  PlacesInv' /\ (~Early => CountedInv' /\ SendersInv')
    <3>1. PlacesInv'
      BY <1>1, <2>1, <2>3, PlacesWorker
    <3>2. ASSUME ~Early PROVE CountedInv' /\ SendersInv'
      BY <1>1, <2>1, <2>3, <3>2, CountedWorker
    <3> QED  BY <3>1, <3>2
  <2>4. CASE SocketThread
    <3>1. PlacesInv'
      BY <1>1, <1>2, <2>1, <2>4, PlacesThread
    <3>2. ASSUME ~Early PROVE CountedInv' /\ SendersInv'
      BY <1>1, <1>2, <2>1, <2>4, <3>2, CountedThread
    <3> QED  BY <3>1, <3>2
  <2> QED  BY <2>2, <2>3, <2>4 DEF Next
<1> QED  BY <1>1, <1>2 DEF BuffersInv

(* The buffers and the counts hold in every state. *)
LEMMA BuffersInvariant == Spec => []BuffersInv
<1>1. Init => SocketInv
  BY TypeInit, OwnersInit, ArmedInit DEF SocketInv
<1>2. Init => BuffersInv
  BY <1>1, PlacesInit, CountedInit DEF BuffersInv
<1> QED  BY <1>2, BuffersNext, PTL DEF Spec

(***************************************************************************)
(* The buffer of a message is never lost and never freed twice: it is with *)
(* one worker, in the pipe, or in one list of one socket until it is       *)
(* freed, whoever closes the socket and whatever the write took of it.     *)
(* This holds for services that use an id early, too.                      *)
(***************************************************************************)
THEOREM BuffersFreedOnce == Spec => []FreedOnce
<1>1. BuffersInv => FreedOnce
  BY PlacesHold DEF BuffersInv, SocketInv, FreedOnce
<1> QED  BY <1>1, BuffersInvariant, PTL

(***************************************************************************)
(* Buffers are freed once, and s->sending counts the requests that are on  *)
(* their way to the socket that has the slot, none of those to an earlier  *)
(* one: when services send after SOCKET_OPEN, as socket.lua does.          *)
(***************************************************************************)
THEOREM BuffersExact == ASSUME ~Early PROVE Spec => []BuffersCounted
<1>1. BuffersInv => BuffersCounted
  <2> SUFFICES ASSUME BuffersInv PROVE FreedOnce /\ SendingExact
    BY DEF BuffersCounted
  <2>1. FreedOnce
    BY PlacesHold DEF BuffersInv, SocketInv, FreedOnce
  <2>2. SendingExact
    <3>1. Sound => TypeOK /\ NamesInv /\ CountedInv
      BY DEF BuffersInv, SocketInv, OwnersInv
    <3> QED  BY <3>1, CountedHolds DEF SendingExact
  <2> QED  BY <2>1, <2>2
<1> QED  BY <1>1, BuffersInvariant, PTL
===============================================================================
