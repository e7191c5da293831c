----------------------------- MODULE StreamProofs -----------------------------
(***************************************************************************)
(* Proofs about what peers of SocketServer read, for every number of       *)
(* slots, of workers and of messages, and for every bound, on top of the   *)
(* invariant of SocketProofs: first what streams of units are and what     *)
(* each change of a write list does to them, then that each step keeps     *)
(* them.                                                                   *)
(***************************************************************************)
EXTENDS SocketProofs

(* Sequences put together in two groupings are one. *)
Grouped(a, b, c) == (a \o b) \o c = a \o (b \o c)
Regrouped(a, b, c, d) == (a \o (b \o c)) \o d = (a \o b) \o (c \o d)

(* Three sequences of units are put together in any grouping, *)
LEMMA Group == \A a, b, c \in Seq(Unit) : Grouped(a, b, c)
<1> SUFFICES ASSUME NEW a \in Seq(Unit), NEW b \in Seq(Unit), NEW c \in Seq(Unit)
             PROVE  (a \o b) \o c = a \o (b \o c)
  BY Zenon DEF Grouped
<1> QED  BY ConcatAssociative

(* and four of them. *)
LEMMA Regroup == \A a, b, c, d \in Seq(Unit) : Regrouped(a, b, c, d)
<1> SUFFICES ASSUME NEW a \in Seq(Unit), NEW b \in Seq(Unit), NEW c \in Seq(Unit), NEW d \in Seq(Unit)
             PROVE  (a \o (b \o c)) \o d = (a \o b) \o (c \o d)
  BY Zenon DEF Regrouped
<1>1. (a \o b) \o c = a \o (b \o c)
  BY Group, Zenon DEF Grouped
<1>2. ((a \o b) \o c) \o d = (a \o b) \o (c \o d)
  <2>1. a \o b \in Seq(Unit)
    BY ConcatProperties, Zenon
  <2> QED  BY <2>1, Group, Zenon DEF Grouped
<1> QED  BY <1>1, <1>2, Zenon

(* The front of two sequences *)
LEMMA FrontIs ==
    ASSUME NEW T, NEW a \in Seq(T), NEW b \in Seq(T)
    PROVE  SubSeq(a \o b, 1, Len(a)) = a /\ a \o b \in Seq(T) /\ Len(a \o b) = Len(a) + Len(b)
<1>1. a \o b \in Seq(T) /\ Len(a \o b) = Len(a) + Len(b) /\ Len(a) \in Nat /\ Len(b) \in Nat
      /\ \A i \in 1 .. Len(a) : (a \o b)[i] = a[i]
  BY ConcatProperties
<1> DEFINE c == a \o b
<1> HIDE DEF c
<1>2. c \in Seq(T) /\ Len(a) <= Len(c) /\ \A i \in 1 .. Len(a) : c[i] = a[i]
  BY <1>1 DEF c
<1>3. SubSeq(c, 1, Len(a)) \in Seq(T) /\ Len(SubSeq(c, 1, Len(a))) = Len(a)
      /\ \A i \in 1 .. Len(a) : SubSeq(c, 1, Len(a))[i] = c[i]
  BY <1>1, <1>2
<1> DEFINE d == SubSeq(c, 1, Len(a))
<1> HIDE DEF d
<1>4. d \in Seq(T) /\ Len(d) = Len(a) /\ \A i \in 1 .. Len(d) : d[i] = a[i]
  BY <1>2, <1>3 DEF d
<1>5. d = a
  BY <1>4, SeqEqual
<1> QED  BY <1>1, <1>5 DEF c, d

(* The units of one buffer *)
LEMMA UnitsSingle ==
    ASSUME NEW x \in Buf
    PROVE  /\ Units(<<x>>) = PartOf(x, Size - x.off) /\ PartOf(x, Size - x.off) \in Seq(Unit)
           /\ Len(PartOf(x, Size - x.off)) = Size - x.off
<1>1. <<>> \in Seq(Buf) /\ Append(<<>>, x) = <<x>> /\ Size - x.off \in 0 .. Size - x.off
  BY SocketAssumption DEF Buf
<1> DEFINE all == PartOf(x, Size - x.off)
<1>2. all \in Seq(Unit) /\ Len(all) = Size - x.off
  BY <1>1, PartType
<1>3. Units(Append(<<>>, x)) = Units(<<>>) \o all
  BY <1>1, UnitsAppend
<1> HIDE DEF all
<1>4. <<>> \o all = all
  BY <1>2
<1> QED  BY <1>1, <1>2, <1>3, <1>4, UnitsEmpty DEF all

(* A buffer of which d units more were sent *)
LEMMA PartSplits ==
    ASSUME NEW x \in Buf, NEW d \in Nat, d < Size - x.off, NEW y \in Buf, y.m = x.m, y.off = x.off + d
    PROVE  /\ PartOf(x, Size - x.off) = PartOf(x, d) \o PartOf(y, Size - y.off)
           /\ PartOf(x, d) \in Seq(Unit) /\ Len(PartOf(x, d)) = d
<1>1. /\ x.off \in Nat /\ Size \in Nat /\ Size - x.off \in Nat /\ Size - y.off \in Nat
      /\ d \in 0 .. Size - x.off /\ Size - x.off = d + (Size - y.off)
  BY SocketAssumption DEF Buf
<1> DEFINE a == PartOf(x, d)
           b == PartOf(y, Size - y.off)
           c == PartOf(x, Size - x.off)
<1>2. a \in Seq(Unit) /\ Len(a) = d
  BY <1>1, PartType
<1>3. b \in Seq(Unit) /\ Len(b) = Size - y.off /\ c \in Seq(Unit) /\ Len(c) = Size - x.off
  BY UnitsSingle
<1>4. \A i \in 1 .. d : a[i] = c[i]
  BY <1>1 DEF PartOf
<1>5. \A i \in 1 .. Size - y.off : b[i] = c[d + i]
  <2> SUFFICES ASSUME NEW i \in 1 .. Size - y.off PROVE b[i] = c[d + i]
    OBVIOUS
  <2>1. d + i \in 1 .. Size - x.off /\ y.off + i = x.off + (d + i)
    BY <1>1
  <2> QED  BY <2>1 DEF PartOf
<1> HIDE DEF a, b, c
<1> DEFINE e == a \o b
<1>6. /\ e \in Seq(Unit) /\ Len(e) = Len(a) + Len(b)
      /\ \A i \in 1 .. Len(a) + Len(b) : e[i] = IF i <= Len(a) THEN a[i] ELSE b[i - Len(a)]
  BY <1>2, <1>3, ConcatProperties
<1> HIDE DEF e
<1>7. \A i \in 1 .. Len(c) : e[i] = c[i]
  <2> SUFFICES ASSUME NEW i \in 1 .. Len(c) PROVE e[i] = c[i]
    OBVIOUS
  <2>0. i \in Nat /\ d \in Nat /\ i \in 1 .. Len(a) + Len(b)
    BY <1>1, <1>2, <1>3
  <2>1. CASE i <= d
    <3>1. i \in 1 .. d
      BY <2>0, <2>1
    <3> QED  BY <1>2, <1>4, <1>6, <2>0, <2>1, <3>1
  <2>2. CASE i > d
    <3>1. i - d \in 1 .. Size - y.off /\ d + (i - d) = i /\ ~(i <= d)
      BY <1>1, <1>3, <2>0, <2>2
    <3>2. b[i - d] = c[d + (i - d)]
      BY <1>5, <3>1
    <3> QED  BY <1>2, <1>6, <2>0, <3>1, <3>2
  <2> QED  BY <2>0, <2>1, <2>2
<1>8. a \o b = c
  <2>1. Len(e) = Len(c)
    BY <1>1, <1>2, <1>3, <1>6
  <2>2. e = c
    BY <1>3, <1>6, <1>7, <2>1, SeqEqual
  <2> QED  BY <2>2 DEF e
<1> QED  BY <1>2, <1>8 DEF a, b, c

(* A list is what comes before one of its buffers, that one, and the rest. *)
LEMMA ListSplits ==
    ASSUME NEW b \in Seq(Buf), NEW k \in 0 .. Len(b) - 1
    PROVE  LET p == SubSeq(b, 1, k)
               q == SubSeq(b, k + 2, Len(b))
           IN  /\ p \in Seq(Buf) /\ Len(p) = k /\ q \in Seq(Buf) /\ Len(q) = Len(b) - k - 1 /\ b[k + 1] \in Buf
               /\ \A i \in 1 .. Len(b) - k - 1 : q[i] = b[k + 1 + i]
               /\ b = Append(p, b[k + 1]) \o q
<1> DEFINE p == SubSeq(b, 1, k)
           q == SubSeq(b, k + 2, Len(b))
           x == b[k + 1]
           n == Len(b)
<1>1. n \in Nat /\ k \in Nat /\ k + 1 \in 1 .. n /\ x \in Buf
  BY ElementOfSeq
<1>2. p \in Seq(Buf) /\ Len(p) = k /\ \A i \in 1 .. k : p[i] = b[i]
  BY <1>1
<1>3. q \in Seq(Buf) /\ Len(q) = n - k - 1 /\ \A i \in 1 .. n - k - 1 : q[i] = b[k + 1 + i]
  BY <1>1
<1> HIDE DEF p, q, x, n
<1>4. /\ Append(p, x) \in Seq(Buf) /\ Len(Append(p, x)) = k + 1 /\ Append(p, x)[k + 1] = x
      /\ \A i \in 1 .. k : Append(p, x)[i] = p[i]
  BY <1>1, <1>2
<1> DEFINE a == Append(p, x)
<1> HIDE DEF a
<1> DEFINE e == a \o q
<1>5. /\ e \in Seq(Buf) /\ Len(e) = Len(a) + Len(q)
      /\ \A i \in 1 .. Len(a) + Len(q) : e[i] = IF i <= Len(a) THEN a[i] ELSE q[i - Len(a)]
  BY <1>3, <1>4, ConcatProperties DEF a
<1> HIDE DEF e
<1>6. \A i \in 1 .. n : e[i] = b[i]
  <2> SUFFICES ASSUME NEW i \in 1 .. n PROVE e[i] = b[i]
    OBVIOUS
  <2>0. i \in Nat /\ k \in Nat /\ Len(a) = k + 1 /\ i \in 1 .. Len(a) + Len(q)
    BY <1>1, <1>3, <1>4 DEF a
  <2>1. CASE i <= k
    <3>1. i \in 1 .. k /\ i <= Len(a)
      BY <2>0, <2>1
    <3>2. a[i] = b[i]
      BY <1>2, <1>4, <3>1 DEF a
    <3> QED  BY <1>5, <2>0, <3>1, <3>2
  <2>2. CASE i = k + 1
    <3>1. a[i] = b[i]
      BY <1>4, <2>2 DEF a, x
    <3>2. i <= Len(a)
      BY <2>0, <2>2
    <3> QED  BY <1>5, <2>0, <3>1, <3>2
  <2>3. CASE i > k + 1
    <3>1. i - (k + 1) \in 1 .. n - k - 1 /\ k + 1 + (i - (k + 1)) = i /\ ~(i <= k + 1)
      BY <1>1, <2>0, <2>3
    <3>2. q[i - (k + 1)] = b[k + 1 + (i - (k + 1))]
      BY <1>3, <3>1
    <3> QED  BY <1>5, <2>0, <3>1, <3>2
  <2> QED  BY <2>0, <2>1, <2>2, <2>3
<1>7. a \o q = b
  <2>1. Len(e) = Len(b) /\ b \in Seq(Buf)
    BY <1>1, <1>3, <1>4, <1>5 DEF a, n
  <2>2. e = b
    BY <1>5, <1>6, <2>1, SeqEqual DEF n
  <2> QED  BY <2>2 DEF e
<1> QED  BY <1>1, <1>2, <1>3, <1>7 DEF a, p, q, x, n


(* Rest is what comes behind the first n units. *)
LEMMA RestUnits ==
    ASSUME NEW b \in Seq(Buf), NEW n \in Nat, n <= Left(b)
    PROVE  Units(b) = SubSeq(Units(b), 1, n) \o Units(Rest(b, n)) /\ Rest(b, n) \in Seq(Buf)
<1>1. PICK k \in 0 .. Len(b) :
         /\ Ends(b, n, k)
         /\ Rest(b, n) \in Seq(Buf) /\ Len(Rest(b, n)) = Len(b) - k
         /\ \A i \in 1 .. Len(b) - k : Rest(b, n)[i].m = b[k + i].m
         /\ \A i \in 2 .. Len(b) - k : Rest(b, n)[i] = b[k + i]
         /\ k < Len(b) => Rest(b, n)[1].off = b[k + 1].off + (n - Total(b, k))
  BY RestIs
<1> DEFINE r == Rest(b, n)
           N == Len(b)
<1>2. N \in Nat /\ k \in Nat /\ Units(b) \in Seq(Unit) /\ Len(Units(b)) = Left(b)
  BY LeftType DEF Left
<1>3. CASE k = N
  <2>1. n = Left(b)
    <3>1. Total(b, k) <= n /\ Total(b, N) = Left(b) /\ Left(b) \in Nat
      BY <1>1, Totals, LeftType DEF Ends
    <3> QED  BY <1>3, <3>1
  <2>2. r = <<>>
    BY <1>1, <1>2, <1>3, EmptySeq
  <2> DEFINE u == Units(b)
  <2>3. u \in Seq(Unit) /\ u \o <<>> = u /\ n = Len(u)
    BY <1>2, <2>1, ConcatEmptySeq
  <2> HIDE DEF u
  <2>4. SubSeq(u, 1, n) = u
    <3>1. <<>> \in Seq(Unit)
      OBVIOUS
    <3> QED  BY <2>3, <3>1, FrontIs
  <2> QED  BY <1>1, <2>2, <2>3, <2>4, UnitsEmpty DEF u
<1>4. CASE k # N
  <2> DEFINE p == SubSeq(b, 1, k)
             q == SubSeq(b, k + 2, N)
             x == b[k + 1]
             y == r[1]
             d == n - Total(b, k)
  <2>1. k \in 0 .. N - 1
    BY <1>2, <1>4
  <2>2. /\ p \in Seq(Buf) /\ q \in Seq(Buf) /\ Len(q) = N - k - 1 /\ x \in Buf
        /\ \A i \in 1 .. N - k - 1 : q[i] = b[k + 1 + i]
        /\ b = Append(p, x) \o q
    BY <2>1, ListSplits
  <2>3. Left(p) = Total(b, k) /\ Left(p) \in Nat /\ Left(p) <= n /\ n < Left(p) + (Size - x.off)
    <3>1. Total(b, k) = Left(p) /\ Left(p) \in Nat
      BY <2>2, LeftType DEF Total
    <3>2. Total(b, k) <= n /\ n < Total(b, k) + (Size - b[k + 1].off)
      BY <1>1, <1>2, <2>1 DEF Ends
    <3> QED  BY <3>1, <3>2
  <2>4. y \in Buf /\ y.m = x.m /\ y.off = x.off + d /\ r \in Seq(Buf) /\ Len(r) = N - k /\ r # <<>>
    <3>1. 1 \in 1 .. N - k /\ k < N /\ N - k # 0
      BY <1>2, <2>1
    <3>2. r \in Seq(Buf) /\ Len(r) = N - k /\ r[1].m = b[k + 1].m /\ r[1].off = b[k + 1].off + (n - Total(b, k))
      BY <1>1, <3>1
    <3> HIDE DEF r
    <3>3. r[1] \in Buf /\ r # <<>>
      BY <3>1, <3>2, ElementOfSeq, EmptySeq
    <3> QED  BY <3>2, <3>3
  <2>5. r = <<y>> \o q
    <3> HIDE DEF y, q, r, N
    <3>1. <<y>> \in Seq(Buf) /\ Len(<<y>>) = 1 /\ <<y>>[1] = y
      BY <2>4
    <3> DEFINE e == <<y>> \o q
               h == <<y>>
    <3> HIDE DEF h
    <3>2. /\ e \in Seq(Buf) /\ Len(e) = Len(h) + Len(q)
          /\ \A i \in 1 .. Len(h) + Len(q) : e[i] = IF i <= Len(h) THEN h[i] ELSE q[i - Len(h)]
      BY <2>2, <3>1, ConcatProperties DEF h
    <3> HIDE DEF e
    <3>3. ASSUME NEW i \in 1 .. Len(r) PROVE r[i] = e[i]
      <4>0. i \in Nat /\ Len(h) = 1 /\ h[1] = y /\ i \in 1 .. Len(h) + Len(q)
        BY <1>2, <2>1, <2>2, <2>4, <3>1, <3>3 DEF h
      <4>1. CASE i = 1
        BY <3>2, <4>0, <4>1 DEF y
      <4>2. CASE i # 1
        <5>1. i \in 2 .. N - k /\ i - 1 \in 1 .. N - k - 1 /\ k + 1 + (i - 1) = k + i /\ ~(i <= 1)
          BY <1>2, <2>1, <2>4, <3>3, <4>0, <4>2
        <5>2. r[i] = b[k + i]
          BY <1>1, <5>1 DEF r, N
        <5>3. q[i - 1] = b[k + i]
          BY <2>2, <5>1
        <5> QED  BY <3>2, <4>0, <5>1, <5>2, <5>3
      <4> QED  BY <4>1, <4>2
    <3>4. Len(e) = Len(r)
      BY <1>2, <2>2, <2>4, <3>1, <3>2 DEF h
    <3>5. r = e
      BY <2>4, <3>2, <3>3, <3>4, SeqEqual
    <3> QED  BY <3>5 DEF e
  <2>6. d \in Nat /\ d < Size - x.off
    <3> HIDE DEF x, p, q, r
    <3>1. Size - x.off \in Nat
      BY <2>2, SocketAssumption DEF Buf
    <3>2. n - Left(p) \in Nat /\ n - Left(p) < Size - x.off
      BY <2>3, <3>1
    <3> QED  BY <2>3, <3>2
  <2> DEFINE a == PartOf(x, d)
             c == PartOf(y, Size - y.off)
             up == Units(p)
             uq == Units(q)
  <2> HIDE DEF p, q, x, y, d, r, N
  <2>7. PartOf(x, Size - x.off) = a \o c /\ a \in Seq(Unit) /\ Len(a) = d
    BY <2>2, <2>4, <2>6, PartSplits
  <2>8. c \in Seq(Unit) /\ Units(<<y>>) = c /\ <<y>> \in Seq(Buf)
    BY <2>4, UnitsSingle
  <2>9. up \in Seq(Unit) /\ Len(up) = Left(p) /\ uq \in Seq(Unit)
    BY <2>2, LeftType DEF Left
  <2>10. Units(r) = c \o uq
    BY <2>2, <2>5, <2>8, UnitsConcat
  <2>11. Units(b) = (up \o (a \o c)) \o uq
    <3>1. Units(Append(p, x)) = up \o (a \o c) /\ Append(p, x) \in Seq(Buf)
      BY <2>2, <2>7, UnitsAppend, AppendProperties
    <3> QED  BY <2>2, <3>1, UnitsConcat
  <2> HIDE DEF a, c, up, uq
  <2>12. (up \o (a \o c)) \o uq = (up \o a) \o (c \o uq)
    <3>1. up \in Seq(Unit) /\ a \in Seq(Unit) /\ c \in Seq(Unit) /\ uq \in Seq(Unit)
      BY <2>7, <2>8, <2>9
    <3>2. Regrouped(up, a, c, uq)
      BY <3>1, Regroup
    <3> QED  BY <3>2, Zenon DEF Regrouped
  <2> DEFINE f == up \o a
             g == c \o uq
  <2>13. f \in Seq(Unit) /\ Len(f) = n /\ g \in Seq(Unit)
    <3>1. f \in Seq(Unit) /\ Len(f) = Len(up) + Len(a) /\ g \in Seq(Unit)
      BY <2>7, <2>8, <2>9, ConcatProperties
    <3>2. Left(p) + d = n
      BY <2>3 DEF d
    <3> QED  BY <2>7, <2>9, <3>1, <3>2
  <2>14. Units(b) = f \o g /\ Units(r) = g
    BY <2>10, <2>11, <2>12
  <2> HIDE DEF f, g
  <2>15. SubSeq(f \o g, 1, n) = f
    BY <2>13, FrontIs
  <2>16. Units(b) = SubSeq(Units(b), 1, n) \o Units(r)
    BY <2>14, <2>15
  <2> QED  BY <2>4, <2>16 DEF r
<1> QED  BY <1>3, <1>4

(* The first unit that a list has left *)
LEMMA FirstUnit ==
    ASSUME NEW b \in Seq(Buf), b # <<>>
    PROVE  Units(b) \in Seq(Unit) /\ Len(Units(b)) > 0 /\ Units(b)[1] = [m |-> b[1].m, u |-> b[1].off + 1]
<1>1. 0 \in 0 .. Len(b) - 1 /\ Len(b) \in Nat
  BY EmptySeq
<1> DEFINE p == SubSeq(b, 1, 0)
           q == SubSeq(b, 2, Len(b))
           x == b[1]
<1>2. p \in Seq(Buf) /\ Len(p) = 0 /\ q \in Seq(Buf) /\ x \in Buf /\ b = Append(p, x) \o q
  BY <1>1, ListSplits
<1>3. Append(p, x) = <<x>>
  <2> HIDE DEF p, q, x
  <2>1. p = <<>>
    BY <1>2, EmptySeq
  <2> QED  BY <2>1
<1> HIDE DEF p, q, x
<1> DEFINE c == PartOf(x, Size - x.off)
           u == Units(q)
<1>4. Units(<<x>>) = c /\ c \in Seq(Unit) /\ Len(c) = Size - x.off /\ u \in Seq(Unit) /\ <<x>> \in Seq(Buf)
  BY <1>2, UnitsSingle, LeftType
<1>5. Size - x.off \in Nat \ {0}
  BY <1>2, SocketAssumption DEF Buf
<1>6. c[1] = [m |-> x.m, u |-> x.off + 1]
  <2>1. 1 \in 1 .. Size - x.off
    BY <1>5
  <2> QED  BY <2>1 DEF PartOf
<1>7. Units(b) = c \o u
  BY <1>2, <1>3, <1>4, UnitsConcat
<1> HIDE DEF c, u
<1>8. c \o u \in Seq(Unit) /\ Len(c \o u) > 0 /\ (c \o u)[1] = c[1]
  <2>1. /\ c \o u \in Seq(Unit) /\ Len(c \o u) = Len(c) + Len(u)
        /\ \A i \in 1 .. Len(c) + Len(u) : (c \o u)[i] = IF i <= Len(c) THEN c[i] ELSE u[i - Len(c)]
    BY <1>4, ConcatProperties
  <2>2. Len(c) \in Nat \ {0} /\ Len(u) \in Nat
    BY <1>4, <1>5
  <2>3. 1 \in 1 .. Len(c) + Len(u) /\ 1 <= Len(c)
    BY <2>2
  <2> QED  BY <2>1, <2>2, <2>3
<1> QED  BY <1>6, <1>7, <1>8 DEF x


-----------------------------------------------------------------------------
(* Streams of units: what they consist of, in which order, and where a    *)
(* message begins and ends                                                *)
MsgsOf(q) == {q[i].m : i \in DOMAIN q}
Precedes(x, y, f) == f[x] = f[y] => x <= y
Ordered(q, f) == \A i, j \in DOMAIN q : i < j => Precedes(q[i].m, q[j].m, f)
Before(xs, ys, f) == \A x \in xs, y \in ys : Precedes(x, y, f)
Starts(q) == q = <<>> \/ q[1].u = 1
Done(q) == q = <<>> \/ q[Len(q)].u = Size

(* c is a and then b. *)
Joins(a, b, c) ==
    /\ c \in Seq(Unit) /\ DOMAIN c = 1 .. Len(a) + Len(b) /\ Len(c) = Len(a) + Len(b)
    /\ Len(a) \in Nat /\ Len(b) \in Nat /\ DOMAIN a = 1 .. Len(a) /\ DOMAIN b = 1 .. Len(b)
    /\ \A i \in 1 .. Len(a) : c[i] = a[i] /\ a[i] \in Unit
    /\ \A i \in 1 .. Len(b) : c[Len(a) + i] = b[i] /\ b[i] \in Unit

(* Two streams, one behind the other. *)
LEMMA JoinIs == \A a, b \in Seq(Unit) : Joins(a, b, a \o b)
<1> SUFFICES ASSUME NEW a \in Seq(Unit), NEW b \in Seq(Unit) PROVE Joins(a, b, a \o b)
  OBVIOUS
<1> DEFINE c == a \o b
<1>1. /\ c \in Seq(Unit) /\ Len(c) = Len(a) + Len(b)
      /\ \A i \in 1 .. Len(a) + Len(b) : c[i] = IF i <= Len(a) THEN a[i] ELSE b[i - Len(a)]
  BY ConcatProperties
<1> HIDE DEF c
<1>2. Len(a) \in Nat /\ Len(b) \in Nat /\ DOMAIN a = 1 .. Len(a) /\ DOMAIN b = 1 .. Len(b)
      /\ (\A i \in 1 .. Len(a) : a[i] \in Unit) /\ (\A i \in 1 .. Len(b) : b[i] \in Unit)
  BY ElementOfSeq, LenProperties
<1>3. DOMAIN c = 1 .. Len(a) + Len(b)
  BY <1>1
<1>4. \A i \in 1 .. Len(a) : c[i] = a[i]
  BY <1>1, <1>2
<1>5. ASSUME NEW i \in 1 .. Len(b) PROVE c[Len(a) + i] = b[i]
  <2>1. Len(a) + i \in 1 .. Len(a) + Len(b) /\ ~(Len(a) + i <= Len(a)) /\ (Len(a) + i) - Len(a) = i
    BY <1>2
  <2> QED  BY <1>1, <2>1
<1>6. Joins(a, b, c)
  BY <1>1, <1>2, <1>3, <1>4, <1>5 DEF Joins
<1> QED  BY <1>6 DEF c

(* An index of two streams together is one of the first or of the second. *)
LEMMA JoinAt ==
    ASSUME NEW a, NEW b, NEW c, Joins(a, b, c), NEW i \in DOMAIN c
    PROVE  \/ i \in DOMAIN a /\ c[i] = a[i]
           \/ i - Len(a) \in DOMAIN b /\ c[i] = b[i - Len(a)] /\ i > Len(a)
<1>1. i \in 1 .. Len(a) + Len(b) /\ Len(a) \in Nat /\ Len(b) \in Nat /\ DOMAIN a = 1 .. Len(a) /\ DOMAIN b = 1 .. Len(b)
  BY DEF Joins
<1>2. CASE i <= Len(a)
  <2>1. i \in 1 .. Len(a)
    BY <1>1, <1>2
  <2> QED  BY <1>1, <2>1 DEF Joins
<1>3. CASE ~(i <= Len(a))
  <2>1. i - Len(a) \in 1 .. Len(b) /\ Len(a) + (i - Len(a)) = i /\ i > Len(a)
    BY <1>1, <1>3
  <2>2. c[Len(a) + (i - Len(a))] = b[i - Len(a)]
    BY <2>1 DEF Joins
  <2> QED  BY <1>1, <2>1, <2>2
<1> QED  BY <1>2, <1>3

(* The messages of two streams *)
LEMMA MsgsJoin == \A a, b, c : Joins(a, b, c) => MsgsOf(c) = MsgsOf(a) \cup MsgsOf(b)
<1> SUFFICES ASSUME NEW a, NEW b, NEW c, Joins(a, b, c) PROVE MsgsOf(c) = MsgsOf(a) \cup MsgsOf(b)
  OBVIOUS
<1>1. MsgsOf(c) \subseteq MsgsOf(a) \cup MsgsOf(b)
  BY JoinAt DEF MsgsOf
<1>2. MsgsOf(a) \subseteq MsgsOf(c)
  <2> SUFFICES ASSUME NEW i \in DOMAIN a PROVE \E j \in DOMAIN c : c[j].m = a[i].m
    BY DEF MsgsOf
  <2>1. i \in DOMAIN c /\ c[i] = a[i]
    BY DEF Joins
  <2> QED  BY <2>1
<1>3. MsgsOf(b) \subseteq MsgsOf(c)
  <2> SUFFICES ASSUME NEW i \in DOMAIN b PROVE \E j \in DOMAIN c : c[j].m = b[i].m
    BY DEF MsgsOf
  <2>1. Len(a) + i \in DOMAIN c /\ c[Len(a) + i] = b[i]
    BY DEF Joins
  <2> QED  BY <2>1
<1> QED  BY <1>1, <1>2, <1>3

(* The order of two streams *)
LEMMA OrderJoin ==
    \A a, b, c, f : Joins(a, b, c) =>
        (Ordered(c, f) <=> Ordered(a, f) /\ Ordered(b, f) /\ Before(MsgsOf(a), MsgsOf(b), f))
<1> SUFFICES ASSUME NEW a, NEW b, NEW c, NEW f, Joins(a, b, c)
             PROVE  Ordered(c, f) <=> Ordered(a, f) /\ Ordered(b, f) /\ Before(MsgsOf(a), MsgsOf(b), f)
  OBVIOUS
<1>0. Len(a) \in Nat /\ Len(b) \in Nat /\ DOMAIN a = 1 .. Len(a) /\ DOMAIN b = 1 .. Len(b)
  BY DEF Joins
<1>1. ASSUME Ordered(c, f) PROVE Ordered(a, f) /\ Ordered(b, f) /\ Before(MsgsOf(a), MsgsOf(b), f)
  <2>1. Ordered(a, f)
    <3> SUFFICES ASSUME NEW i \in DOMAIN a, NEW j \in DOMAIN a, i < j PROVE Precedes(a[i].m, a[j].m, f)
      BY DEF Ordered
    <3>1. i \in DOMAIN c /\ j \in DOMAIN c /\ c[i] = a[i] /\ c[j] = a[j]
      BY DEF Joins
    <3> QED  BY <1>1, <3>1 DEF Ordered
  <2>2. Ordered(b, f)
    <3> SUFFICES ASSUME NEW i \in DOMAIN b, NEW j \in DOMAIN b, i < j PROVE Precedes(b[i].m, b[j].m, f)
      BY DEF Ordered
    <3>1. /\ Len(a) + i \in DOMAIN c /\ Len(a) + j \in DOMAIN c /\ Len(a) + i < Len(a) + j
          /\ c[Len(a) + i] = b[i] /\ c[Len(a) + j] = b[j]
      BY DEF Joins
    <3> QED  BY <1>1, <3>1 DEF Ordered
  <2>3. Before(MsgsOf(a), MsgsOf(b), f)
    <3> SUFFICES ASSUME NEW i \in DOMAIN a, NEW j \in DOMAIN b PROVE Precedes(a[i].m, b[j].m, f)
      BY DEF Before, MsgsOf
    <3>1. /\ i \in DOMAIN c /\ Len(a) + j \in DOMAIN c /\ i < Len(a) + j
          /\ c[i] = a[i] /\ c[Len(a) + j] = b[j]
      BY DEF Joins
    <3> QED  BY <1>1, <3>1 DEF Ordered
  <2> QED  BY <2>1, <2>2, <2>3
<1>2. ASSUME Ordered(a, f), Ordered(b, f), Before(MsgsOf(a), MsgsOf(b), f) PROVE Ordered(c, f)
  <2> SUFFICES ASSUME NEW i \in DOMAIN c, NEW j \in DOMAIN c, i < j PROVE Precedes(c[i].m, c[j].m, f)
    BY DEF Ordered
  <2>0. i \in Nat /\ j \in Nat
    BY DEF Joins
  <2>1. \/ i \in DOMAIN a /\ c[i] = a[i]
        \/ i - Len(a) \in DOMAIN b /\ c[i] = b[i - Len(a)] /\ i > Len(a)
    BY JoinAt
  <2>2. \/ j \in DOMAIN a /\ c[j] = a[j]
        \/ j - Len(a) \in DOMAIN b /\ c[j] = b[j - Len(a)] /\ j > Len(a)
    BY JoinAt
  <2>3. CASE i \in DOMAIN a /\ c[i] = a[i] /\ j \in DOMAIN a /\ c[j] = a[j]
    BY <1>2, <2>3 DEF Ordered
  <2>4. CASE i \in DOMAIN a /\ c[i] = a[i] /\ j - Len(a) \in DOMAIN b /\ c[j] = b[j - Len(a)]
    <3>1. a[i].m \in MsgsOf(a) /\ b[j - Len(a)].m \in MsgsOf(b)
      BY <2>4 DEF MsgsOf
    <3> QED  BY <1>2, <2>4, <3>1 DEF Before
  <2>5. CASE i - Len(a) \in DOMAIN b /\ c[i] = b[i - Len(a)] /\ j - Len(a) \in DOMAIN b /\ c[j] = b[j - Len(a)]
    <3>1. i - Len(a) < j - Len(a)
      BY <1>0, <2>0
    <3> QED  BY <1>2, <2>5, <3>1 DEF Ordered
  <2>6. CASE i > Len(a) /\ j \in DOMAIN a
    BY <1>0, <2>0, <2>6
  <2> QED  BY <2>1, <2>2, <2>3, <2>4, <2>5, <2>6
<1> QED  BY <1>1, <1>2


Clean(q) == Whole(q) /\ Done(q)

(* What a stream of whole messages is, unit by unit *)
LEMMA WholeAt ==
    \A q : Whole(q) <=>
        \A i \in DOMAIN q : /\ i = 1 \/ q[i - 1].u = Size => q[i].u = 1
                            /\ i # 1 /\ q[i - 1].u # Size => q[i] = [m |-> q[i - 1].m, u |-> q[i - 1].u + 1]
BY DEF Whole

(* What is before a unit is in the same stream. *)
LEMMA JoinBefore ==
    ASSUME NEW a, NEW b, NEW c, Joins(a, b, c), NEW i \in DOMAIN b, i # 1
    PROVE  /\ i - 1 \in DOMAIN b /\ Len(a) + i \in DOMAIN c /\ Len(a) + i # 1
           /\ c[Len(a) + i] = b[i] /\ c[(Len(a) + i) - 1] = b[i - 1]
<1>1. i - 1 \in 1 .. Len(b) /\ (Len(a) + i) - 1 = Len(a) + (i - 1) /\ Len(a) + i \in 1 .. Len(a) + Len(b) /\ Len(a) + i # 1
  BY DEF Joins
<1> QED  BY <1>1 DEF Joins

(* The front of whole messages is made of whole messages, but for its end. *)
LEMMA WholeFront == \A a, b, c : Joins(a, b, c) /\ Whole(c) => Whole(a)
<1> SUFFICES ASSUME NEW a, NEW b, NEW c, Joins(a, b, c), Whole(c), NEW i \in DOMAIN a
             PROVE  /\ i = 1 \/ a[i - 1].u = Size => a[i].u = 1
                    /\ i # 1 /\ a[i - 1].u # Size => a[i] = [m |-> a[i - 1].m, u |-> a[i - 1].u + 1]
  BY WholeAt
<1>1. i \in DOMAIN c /\ c[i] = a[i] /\ (i # 1 => i - 1 \in 1 .. Len(a))
  BY DEF Joins
<1>2. i # 1 => c[i - 1] = a[i - 1]
  BY <1>1 DEF Joins
<1>3. /\ i = 1 \/ c[i - 1].u = Size => c[i].u = 1
      /\ i # 1 /\ c[i - 1].u # Size => c[i] = [m |-> c[i - 1].m, u |-> c[i - 1].u + 1]
  BY <1>1, WholeAt
<1> QED  BY <1>1, <1>2, <1>3

(* Behind a message that is done another one begins. *)
LEMMA WholeJoin == \A a, b, c : Joins(a, b, c) /\ Clean(a) /\ Whole(b) => Whole(c)
<1> SUFFICES ASSUME NEW a, NEW b, NEW c, Joins(a, b, c), Whole(a), Done(a), Whole(b), NEW i \in DOMAIN c
             PROVE  /\ i = 1 \/ c[i - 1].u = Size => c[i].u = 1
                    /\ i # 1 /\ c[i - 1].u # Size => c[i] = [m |-> c[i - 1].m, u |-> c[i - 1].u + 1]
  BY WholeAt DEF Clean
<1>0. Len(a) \in Nat /\ DOMAIN a = 1 .. Len(a) /\ DOMAIN b = 1 .. Len(b) /\ i \in Nat
  BY DEF Joins
<1>1. \/ i \in DOMAIN a /\ c[i] = a[i]
      \/ i - Len(a) \in DOMAIN b /\ c[i] = b[i - Len(a)] /\ i > Len(a)
  BY JoinAt
<1>2. CASE i \in DOMAIN a /\ c[i] = a[i]
  <2>1. i # 1 => c[i - 1] = a[i - 1]
    <3>1. i # 1 => i - 1 \in 1 .. Len(a)
      BY <1>0, <1>2
    <3> QED  BY <3>1 DEF Joins
  <2>2. /\ i = 1 \/ a[i - 1].u = Size => a[i].u = 1
        /\ i # 1 /\ a[i - 1].u # Size => a[i] = [m |-> a[i - 1].m, u |-> a[i - 1].u + 1]
    BY <1>2, WholeAt
  <2> QED  BY <1>2, <2>1, <2>2
<1>3. CASE i - Len(a) \in DOMAIN b /\ c[i] = b[i - Len(a)] /\ i > Len(a)
  <2> DEFINE j == i - Len(a)
  <2>0. j \in DOMAIN b /\ c[i] = b[j] /\ Len(a) + j = i /\ j \in Nat
    BY <1>0, <1>3
  <2>1. /\ j = 1 \/ b[j - 1].u = Size => b[j].u = 1
        /\ j # 1 /\ b[j - 1].u # Size => b[j] = [m |-> b[j - 1].m, u |-> b[j - 1].u + 1]
    BY <2>0, WholeAt
  <2> HIDE DEF j
  <2>2. CASE j # 1
    <3>1. i # 1 /\ c[i - 1] = b[j - 1]
      BY <2>0, <2>2, JoinBefore
    <3> QED  BY <2>0, <2>1, <2>2, <3>1
  <2>3. CASE j = 1
    <3>1. c[i].u = 1
      BY <2>0, <2>1, <2>3
    <3>2. i # 1 => c[i - 1].u = Size
      <4> SUFFICES ASSUME i # 1 PROVE c[i - 1].u = Size
        OBVIOUS
      <4>1. i - 1 = Len(a) /\ Len(a) \in 1 .. Len(a)
        BY <1>0, <2>0, <2>3
      <4>2. c[Len(a)] = a[Len(a)] /\ a # <<>>
        BY <4>1 DEF Joins
      <4> QED  BY <4>1, <4>2 DEF Done
    <3> QED  BY <3>1, <3>2
  <2> QED  BY <2>2, <2>3
<1> QED  BY <1>1, <1>2, <1>3

(* Where a message begins the one before is done. *)
LEMMA WholeSplit ==
    \A a, b, c : Joins(a, b, c) /\ Whole(c) /\ a \in Seq(Unit) /\ b # <<>> /\ b \in Seq(Unit) /\ Starts(b) => Clean(a) /\ Whole(b)
<1> SUFFICES ASSUME NEW a \in Seq(Unit), NEW b \in Seq(Unit), NEW c, Joins(a, b, c), Whole(c), b # <<>>, b[1].u = 1
             PROVE  Done(a) /\ Whole(b)
  BY WholeFront DEF Starts, Clean
<1>0. Len(a) \in Nat /\ DOMAIN a = 1 .. Len(a) /\ DOMAIN b = 1 .. Len(b) /\ Len(b) \in Nat \ {0} /\ Size \in Nat
  BY SocketAssumption, EmptySeq DEF Joins
<1>1. Done(a)
  <2> SUFFICES ASSUME a # <<>>, a[Len(a)].u # Size PROVE FALSE
    BY DEF Done
  <2>1. Len(a) \in 1 .. Len(a) /\ 1 \in 1 .. Len(b) /\ (Len(a) + 1) - 1 = Len(a) /\ Len(a) + 1 # 1
        /\ Len(a) + 1 \in 1 .. Len(a) + Len(b)
    BY <1>0, EmptySeq
  <2>2. c[Len(a)] = a[Len(a)] /\ a[Len(a)] \in Unit /\ c[Len(a) + 1] = b[1] /\ Len(a) + 1 \in DOMAIN c
    BY <2>1 DEF Joins
  <2>3. c[Len(a) + 1] = [m |-> c[Len(a)].m, u |-> c[Len(a)].u + 1]
    BY <2>1, <2>2, WholeAt
  <2>4. a[Len(a)].u \in Nat \ {0}
    BY <1>0, <2>2 DEF Unit
  <2>5. b[1].u = a[Len(a)].u + 1
    BY <2>2, <2>3
  <2> QED  BY <2>4, <2>5
<1>2. ASSUME NEW i \in DOMAIN b
      PROVE  /\ i = 1 \/ b[i - 1].u = Size => b[i].u = 1
             /\ i # 1 /\ b[i - 1].u # Size => b[i] = [m |-> b[i - 1].m, u |-> b[i - 1].u + 1]
  <2>1. CASE i = 1
    BY <2>1
  <2>2. CASE i # 1
    <3>1. Len(a) + i \in DOMAIN c /\ Len(a) + i # 1 /\ c[Len(a) + i] = b[i] /\ c[(Len(a) + i) - 1] = b[i - 1]
      BY <2>2, JoinBefore
    <3> DEFINE j == Len(a) + i
    <3> HIDE DEF j
    <3>2. j \in DOMAIN c /\ j # 1 /\ c[j] = b[i] /\ c[j - 1] = b[i - 1]
      BY <3>1 DEF j
    <3>3. /\ j = 1 \/ c[j - 1].u = Size => c[j].u = 1
          /\ j # 1 /\ c[j - 1].u # Size => c[j] = [m |-> c[j - 1].m, u |-> c[j - 1].u + 1]
      BY <3>2, WholeAt
    <3> QED  BY <2>2, <3>2, <3>3
  <2> QED  BY <2>1, <2>2
<1>3. Whole(b)
  BY <1>2, WholeAt
<1> QED  BY <1>1, <1>3

(* The end of two streams is that of the second, unless it is empty. *)
LEMMA DoneJoin ==
    \A a, b \in Seq(Unit) : \A c : Joins(a, b, c) /\ b # <<>> => (Done(c) <=> Done(b))
<1> SUFFICES ASSUME NEW a \in Seq(Unit), NEW b \in Seq(Unit), NEW c, Joins(a, b, c), b # <<>>
             PROVE  Done(c) <=> Done(b)
  OBVIOUS
<1>1. Len(b) \in Nat \ {0}
  BY EmptySeq
<1>2. Len(b) \in 1 .. Len(b) /\ Len(c) = Len(a) + Len(b) /\ Len(c) \in Nat \ {0} /\ c \in Seq(Unit)
  BY <1>1 DEF Joins
<1>3. c # <<>> /\ c[Len(c)] = b[Len(b)]
  BY <1>2, EmptySeq DEF Joins
<1> QED  BY <1>3 DEF Done

(* Whole messages behind whole messages *)
LEMMA CleanJoin == \A a, b \in Seq(Unit) : Clean(a) /\ Clean(b) => Clean(a \o b)
<1> SUFFICES ASSUME NEW a \in Seq(Unit), NEW b \in Seq(Unit), Clean(a), Clean(b) PROVE Clean(a \o b)
  OBVIOUS
<1>0. PICK c : c = a \o b
  OBVIOUS
<1>1. Joins(a, b, c)
  BY <1>0, JoinIs
<1>2. Whole(c)
  BY <1>1, WholeJoin DEF Clean
<1>3. CASE b = <<>>
  <2>1. c = a
    BY <1>0, <1>3, ConcatEmptySeq
  <2> QED  BY <1>0, <2>1
<1>4. CASE b # <<>>
  BY <1>0, <1>1, <1>2, <1>4, DoneJoin DEF Clean
<1> QED  BY <1>3, <1>4

(* Whole messages are cut between two of them. *)
LEMMA CleanSplit == \A a, b \in Seq(Unit) : Clean(a \o b) /\ Starts(b) => Clean(a) /\ Clean(b)
<1> SUFFICES ASSUME NEW a \in Seq(Unit), NEW b \in Seq(Unit), Clean(a \o b), Starts(b) PROVE Clean(a) /\ Clean(b)
  OBVIOUS
<1>0. PICK c : c = a \o b
  OBVIOUS
<1>1. Joins(a, b, c) /\ Clean(c)
  BY <1>0, JoinIs
<1>3. CASE b = <<>>
  <2>1. c = a
    BY <1>0, <1>3, ConcatEmptySeq
  <2>2. Clean(<<>>)
    BY DEF Clean, Whole, Done
  <2> QED  BY <1>1, <1>3, <2>1, <2>2
<1>4. CASE b # <<>>
  BY <1>1, <1>4, DoneJoin, WholeSplit DEF Clean
<1> QED  BY <1>3, <1>4

(* A message is whole. *)
Message(m) == PartOf([m |-> m, off |-> 0], Size)

(* Alone it is a stream that ends with a whole message. *)
LEMMA MessageIs == \A m \in Msg : /\ Message(m) \in Seq(Unit) /\ MsgsOf(Message(m)) = {m} /\ Clean(Message(m))
                                  /\ \A f : Ordered(Message(m), f)
<1> SUFFICES ASSUME NEW m \in Msg
             PROVE  /\ Message(m) \in Seq(Unit) /\ MsgsOf(Message(m)) = {m} /\ Clean(Message(m))
                    /\ \A f : Ordered(Message(m), f)
  OBVIOUS
<1> DEFINE q == Message(m)
<1>0. Size \in Nat \ {0} /\ m \in Nat
  BY SocketAssumption DEF Msg
<1>1. /\ q \in Seq(Unit) /\ Len(q) = Size /\ DOMAIN q = 1 .. Size
      /\ \A i \in 1 .. Size : q[i] = [m |-> m, u |-> i]
  <2> DEFINE x == [m |-> m, off |-> 0]
  <2>1. x \in Buf /\ Size \in 0 .. Size - x.off
    BY <1>0 DEF Buf
  <2>2. PartOf(x, Size) \in Seq(Unit) /\ Len(PartOf(x, Size)) = Size
    BY <2>1, PartType
  <2>3. \A i \in 1 .. Size : PartOf(x, Size)[i] = [m |-> m, u |-> i] /\ DOMAIN PartOf(x, Size) = 1 .. Size
    BY <1>0 DEF PartOf
  <2> QED  BY <1>0, <2>2, <2>3 DEF Message
<1> HIDE DEF q
<1>2. MsgsOf(q) = {m}
  <2>1. 1 \in DOMAIN q /\ \A i \in DOMAIN q : q[i].m = m
    BY <1>0, <1>1
  <2> QED  BY <2>1 DEF MsgsOf
<1>3. Clean(q)
  <2>1. Done(q)
    <3>1. Size \in 1 .. Size
      BY <1>0
    <3> QED  BY <1>1, <3>1 DEF Done
  <2>2. ASSUME NEW i \in DOMAIN q
        PROVE  /\ i = 1 \/ q[i - 1].u = Size => q[i].u = 1
               /\ i # 1 /\ q[i - 1].u # Size => q[i] = [m |-> q[i - 1].m, u |-> q[i - 1].u + 1]
    <3>1. i \in 1 .. Size /\ (i # 1 => i - 1 \in 1 .. Size /\ i - 1 # Size)
      BY <1>0, <1>1
    <3>2. q[i] = [m |-> m, u |-> i] /\ (i # 1 => q[i - 1] = [m |-> m, u |-> i - 1])
      BY <1>1, <3>1
    <3>3. CASE i = 1
      BY <3>2, <3>3
    <3>4. CASE i # 1
      <4>1. q[i - 1].m = m /\ q[i - 1].u = i - 1 /\ (i - 1) + 1 = i
        BY <3>1, <3>2, <3>4
      <4> QED  BY <3>1, <3>2, <3>4, <4>1
    <3> QED  BY <3>3, <3>4
  <2> QED  BY <2>1, <2>2, WholeAt DEF Clean
<1>4. \A f : Ordered(q, f)
  <2>1. \A i \in DOMAIN q : q[i].m = m
    BY <1>1
  <2> QED  BY <1>0, <2>1 DEF Ordered, Precedes
<1> QED  BY <1>1, <1>2, <1>3, <1>4 DEF q


(* The messages that were sent to a socket *)
Mine(ms, id, f, n) == \A x \in ms : x \in 1 .. n /\ f[x].id = id

(* A stream that a peer may see: whole messages that were sent to its      *)
(* socket, in their order; and one that another message may follow         *)
Kept(q, id, f, n, c) == Mine(MsgsOf(q), id, f, n) /\ Ordered(q, f) /\ (id \in c \/ Whole(q))
Ended(q, id, f, n, c) == Mine(MsgsOf(q), id, f, n) /\ Ordered(q, f) /\ (id \in c \/ Clean(q))

(* What may be written next may be left for later. *)
LEMMA EndedKept == \A q, id, f, n, c : Ended(q, id, f, n, c) => Kept(q, id, f, n, c)
BY DEF Ended, Kept, Clean

(* The front of a stream *)
LEMMA KeptFront == \A id, f, n, c : \A a, b \in Seq(Unit) : Kept(a \o b, id, f, n, c) => Kept(a, id, f, n, c)
<1> SUFFICES ASSUME NEW id, NEW f, NEW n, NEW c, NEW a \in Seq(Unit), NEW b \in Seq(Unit), Kept(a \o b, id, f, n, c)
             PROVE  Kept(a, id, f, n, c)
  OBVIOUS
<1>0. PICK q : q = a \o b
  OBVIOUS
<1>1. Joins(a, b, q) /\ Kept(q, id, f, n, c)
  BY <1>0, JoinIs
<1>2. MsgsOf(a) \subseteq MsgsOf(q) /\ Ordered(a, f)
  <2>1. Ordered(q, f)
    BY <1>1, Zenon DEF Kept
  <2>2. Ordered(a, f)
    BY <1>1, <2>1, OrderJoin, Zenon
  <2>3. MsgsOf(q) = MsgsOf(a) \cup MsgsOf(b)
    BY <1>1, MsgsJoin, Zenon
  <2> HIDE <1>1
  <2>4. MsgsOf(a) \subseteq MsgsOf(q)
    BY <2>3
  <2> QED  BY <2>2, <2>4
<1>3. id \in c \/ Whole(a)
  BY <1>1, WholeFront DEF Kept
<1> QED  BY <1>1, <1>2, <1>3 DEF Kept, Mine

(* The front of a stream, up to the begin of a message *)
LEMMA EndedFront ==
    \A id, f, n, c : \A a, b \in Seq(Unit) :
        Ended(a \o b, id, f, n, c) /\ (id \in c \/ Starts(b)) => Ended(a, id, f, n, c)
<1> SUFFICES ASSUME NEW id, NEW f, NEW n, NEW c, NEW a \in Seq(Unit), NEW b \in Seq(Unit), Ended(a \o b, id, f, n, c),
                    id \in c \/ Starts(b)
             PROVE  Ended(a, id, f, n, c)
  OBVIOUS
<1>0. PICK q : q = a \o b
  OBVIOUS
<1>1. Joins(a, b, q) /\ Ended(q, id, f, n, c)
  BY <1>0, JoinIs
<1>2. MsgsOf(a) \subseteq MsgsOf(q) /\ Ordered(a, f)
  <2>1. Ordered(q, f)
    BY <1>1, Zenon DEF Ended
  <2>2. Ordered(a, f)
    BY <1>1, <2>1, OrderJoin, Zenon
  <2>3. MsgsOf(q) = MsgsOf(a) \cup MsgsOf(b)
    BY <1>1, MsgsJoin, Zenon
  <2> HIDE <1>1
  <2>4. MsgsOf(a) \subseteq MsgsOf(q)
    BY <2>3
  <2> QED  BY <2>2, <2>4
<1>3. id \in c \/ Clean(a)
  BY <1>0, <1>1, CleanSplit DEF Ended
<1> QED  BY <1>1, <1>2, <1>3 DEF Ended, Mine

(* Two streams, one after the other, and with a message between them *)
Two(a, b) == a \o b
With(a, m, b) == (a \o Message(m)) \o b

(* A message that is put between two others *)
WithFits(a, b, m, id, f, n, c) ==
    /\ Ended(Two(a, b), id, f, n, c) /\ Starts(b) /\ Mine({m}, id, f, n)
    /\ Before(MsgsOf(a), {m}, f) /\ Before({m}, MsgsOf(b), f)
WithDone(a, b, m, id, f, n, c) ==
    /\ With(a, m, b) \in Seq(Unit) /\ Ended(With(a, m, b), id, f, n, c)
    /\ MsgsOf(With(a, m, b)) = MsgsOf(Two(a, b)) \cup {m}

(* It is whole there, and the others stay whole and in order. *)
LEMMA EndedWith ==
    \A a, b \in Seq(Unit), m \in Msg : \A id, f, n, c : WithFits(a, b, m, id, f, n, c) => WithDone(a, b, m, id, f, n, c)
<1> SUFFICES ASSUME NEW a \in Seq(Unit), NEW b \in Seq(Unit), NEW m \in Msg, NEW id, NEW f, NEW n, NEW c,
                    WithFits(a, b, m, id, f, n, c)
             PROVE  WithDone(a, b, m, id, f, n, c)
  OBVIOUS
<1>0. /\ Ended(Two(a, b), id, f, n, c) /\ Starts(b) /\ Mine({m}, id, f, n)
      /\ Before(MsgsOf(a), {m}, f) /\ Before({m}, MsgsOf(b), f)
  BY DEF WithFits
<1>1. PICK x \in Seq(Unit) : x = Message(m) /\ MsgsOf(x) = {m} /\ Clean(x) /\ Ordered(x, f)
  BY MessageIs
<1>2. PICK p \in Seq(Unit) : p = a \o x /\ Joins(a, x, p)
  BY JoinIs, ConcatProperties
<1>3. PICK q \in Seq(Unit) : q = p \o b /\ Joins(p, b, q)
  BY JoinIs, ConcatProperties
<1>4. PICK o \in Seq(Unit) : o = a \o b /\ Joins(a, b, o) /\ Ended(o, id, f, n, c)
  BY <1>0, JoinIs, ConcatProperties DEF Two
<1>5. MsgsOf(p) = MsgsOf(a) \cup {m} /\ MsgsOf(q) = MsgsOf(p) \cup MsgsOf(b) /\ MsgsOf(o) = MsgsOf(a) \cup MsgsOf(b)
  BY <1>1, <1>2, <1>3, <1>4, MsgsJoin
<1>6. Ordered(q, f)
  <2>1. Ordered(a, f) /\ Ordered(b, f) /\ Before(MsgsOf(a), MsgsOf(b), f)
    BY <1>4, OrderJoin DEF Ended
  <2>2. Ordered(p, f)
    BY <1>0, <1>1, <1>2, <2>1, OrderJoin
  <2>3. Before(MsgsOf(p), MsgsOf(b), f)
    BY <1>0, <1>5, <2>1 DEF Before
  <2> QED  BY <1>3, <2>1, <2>2, <2>3, OrderJoin
<1>7. ASSUME id \notin c PROVE Clean(q)
  <2>1. Clean(a) /\ Clean(b)
    BY <1>0, <1>4, <1>7, CleanSplit DEF Ended
  <2>2. Clean(p)
    BY <1>1, <1>2, <2>1, CleanJoin
  <2> QED  BY <1>3, <2>1, <2>2, CleanJoin
<1>8. Mine(MsgsOf(q), id, f, n)
  BY <1>0, <1>4, <1>5 DEF Ended, Mine
<1>9. q = With(a, m, b) /\ MsgsOf(q) = MsgsOf(Two(a, b)) \cup {m}
  BY <1>1, <1>2, <1>3, <1>4, <1>5 DEF Two, With
<1> QED  BY <1>6, <1>7, <1>8, <1>9 DEF Ended, WithDone

(* More messages are sent, and more sockets are cut off. *)
LEMMA KeptGrows ==
    ASSUME NEW q, NEW id, NEW f, NEW g, NEW n \in Nat, NEW k \in Nat, NEW c, NEW d,
           n <= k, \A m \in 1 .. n : g[m] = f[m], c \subseteq d
    PROVE  /\ Kept(q, id, f, n, c) => Kept(q, id, g, k, d)
           /\ Ended(q, id, f, n, c) => Ended(q, id, g, k, d)
<1>1. Mine(MsgsOf(q), id, f, n) => Mine(MsgsOf(q), id, g, k)
  BY DEF Mine
<1>2. Mine(MsgsOf(q), id, f, n) /\ Ordered(q, f) => Ordered(q, g)
  <2> SUFFICES ASSUME Mine(MsgsOf(q), id, f, n), Ordered(q, f) PROVE Ordered(q, g)
    OBVIOUS
  <2>1. \A i \in DOMAIN q : q[i].m \in 1 .. n
    BY DEF Mine, MsgsOf
  <2> QED  BY <2>1 DEF Ordered, Precedes
<1> QED  BY <1>1, <1>2 DEF Kept, Ended

(* Nothing is whole, and ordered. *)
LEMMA EndedEmpty == \A id, f, n, c : Ended(<<>>, id, f, n, c) /\ MsgsOf(<<>>) = {}
BY DEF Ended, Mine, MsgsOf, Ordered, Clean, Whole, Done

-----------------------------------------------------------------------------
(* The units of a list are those of its messages. *)
LEMMA UnitsOf == \A b \in Seq(Buf) : MsgsOf(Units(b)) \subseteq Msgs(b)
<1> DEFINE Good(n) == \A b \in Seq(Buf) : Len(b) = n => MsgsOf(Units(b)) \subseteq Msgs(b)
           S == {n \in Nat : Good(n)}
<1>1. 0 \in S
  <2> SUFFICES ASSUME NEW b \in Seq(Buf), Len(b) = 0 PROVE MsgsOf(Units(b)) = {}
    OBVIOUS
  <2>1. b = <<>>
    BY EmptySeq
  <2> QED  BY <2>1, UnitsEmpty, EndedEmpty
<1>2. ASSUME NEW n \in Nat, n \in S PROVE n + 1 \in S
  <2> SUFFICES ASSUME NEW b \in Seq(Buf), Len(b) = n + 1 PROVE MsgsOf(Units(b)) \subseteq Msgs(b)
    OBVIOUS
  <2>1. PICK p : p = SubSeq(b, 1, n)
    OBVIOUS
  <2>2. p \in Seq(Buf) /\ Len(p) = n /\ \A i \in 1 .. n : p[i] = b[i]
    BY <2>1
  <2>3. PICK x \in Buf : x = b[n + 1]
    OBVIOUS
  <2>4. b = Append(p, x)
    <3>1. PICK a : a = Append(p, x)
      OBVIOUS
    <3>2. a \in Seq(Buf) /\ Len(a) = n + 1 /\ a[n + 1] = x /\ \A i \in 1 .. n : a[i] = p[i]
      BY <2>2, <3>1
    <3>3. \A i \in 1 .. n + 1 : i = n + 1 \/ i \in 1 .. n
      OBVIOUS
    <3>4. \A i \in 1 .. Len(b) : b[i] = a[i]
      BY <2>2, <2>3, <3>2, <3>3
    <3>5. b = a
      BY <3>2, <3>4, SeqEqual
    <3> QED  BY <3>1, <3>5
  <2>5. PICK u, v \in Seq(Unit) : u = Units(p) /\ v = PartOf(x, Size - x.off) /\ Units(b) = u \o v
    BY <2>2, <2>4, UnitsAppend, UnitsSingle
  <2>6. MsgsOf(Units(b)) = MsgsOf(u) \cup MsgsOf(v)
    BY <2>5, JoinIs, MsgsJoin
  <2>7. MsgsOf(u) \subseteq Msgs(b)
    <3>1. MsgsOf(u) \subseteq Msgs(p)
      BY <1>2, <2>2, <2>5
    <3>2. Msgs(p) \subseteq Msgs(b)
      BY <2>2 DEF Msgs
    <3> QED  BY <3>1, <3>2
  <2>8. MsgsOf(v) \subseteq Msgs(b)
    <3>1. \A i \in DOMAIN v : v[i].m = x.m
      BY <2>5 DEF PartOf
    <3>2. x.m \in Msgs(b)
      <4>1. n + 1 \in DOMAIN b
        OBVIOUS
      <4> QED  BY <2>3, <4>1 DEF Msgs
    <3> QED  BY <3>1, <3>2 DEF MsgsOf
  <2> QED  BY <2>6, <2>7, <2>8
<1> HIDE DEF S
<1>3. Nat \subseteq S
  BY <1>1, <1>2, SetInduction
<1> QED  BY <1>3 DEF S

(* The buffers of a list of low priority: none of them is partly sent. *)
Lows(b, f) == \A i \in DOMAIN b : b[i].off = 0 /\ f[b[i].m].cmd = "P"

(* A list begins with a message unless a part of that was sent. *)
LEMMA StartsIs == \A b \in Seq(Buf) : Units(b) \in Seq(Unit) /\ (b = <<>> \/ b[1].off = 0 <=> Starts(Units(b)))
<1> SUFFICES ASSUME NEW b \in Seq(Buf) PROVE Units(b) \in Seq(Unit) /\ (b = <<>> \/ b[1].off = 0 <=> Starts(Units(b)))
  OBVIOUS
<1>1. CASE b = <<>>
  BY <1>1, UnitsEmpty, LeftType DEF Starts
<1>2. CASE b # <<>>
  <2>1. Units(b) \in Seq(Unit) /\ Len(Units(b)) > 0 /\ Units(b)[1] = [m |-> b[1].m, u |-> b[1].off + 1]
    BY <1>2, FirstUnit
  <2>2. 1 \in 1 .. Len(b)
    BY <1>2, EmptySeq
  <2>3. b[1].off \in Nat
    <3>1. b[1] \in Buf
      BY <2>2, ElementOfSeq
    <3> QED  BY <3>1, SocketAssumption DEF Buf
  <2>4. PICK u \in Seq(Unit) : u = Units(b)
    BY <2>1
  <2>5. u # <<>> /\ u[1].u = b[1].off + 1
    BY <2>1, <2>4, EmptySeq
  <2>6. Starts(u) <=> b[1].off = 0
    BY <2>3, <2>5 DEF Starts
  <2> QED  BY <1>2, <2>1, <2>4, <2>6
<1> QED  BY <1>1, <1>2


(* What is left of a list of low priority *)
LEMMA LowsRest ==
    ASSUME NEW l \in Seq(Buf), NEW f, Lows(l, f), NEW n \in Nat
    PROVE  /\ Rest(l, n) \in Seq(Buf)
           /\ \A i \in DOMAIN Rest(l, n) : f[Rest(l, n)[i].m].cmd = "P" /\ (i # 1 => Rest(l, n)[i].off = 0)
<1>1. PICK k \in 0 .. Len(l) :
         /\ Ends(l, n, k)
         /\ Rest(l, n) \in Seq(Buf) /\ Len(Rest(l, n)) = Len(l) - k
         /\ \A i \in 1 .. Len(l) - k : Rest(l, n)[i].m = l[k + i].m
         /\ \A i \in 2 .. Len(l) - k : Rest(l, n)[i] = l[k + i]
         /\ k < Len(l) => Rest(l, n)[1].off = l[k + 1].off + (n - Total(l, k))
  BY RestIs
<1> DEFINE r == Rest(l, n)
<1> HIDE DEF r
<1>2. ASSUME NEW i \in DOMAIN r PROVE f[r[i].m].cmd = "P" /\ (i # 1 => r[i].off = 0)
  <2>1. i \in 1 .. Len(l) - k /\ k + i \in DOMAIN l
    BY <1>1 DEF r
  <2>2. f[l[k + i].m].cmd = "P" /\ l[k + i].off = 0
    BY <2>1 DEF Lows
  <2>3. r[i].m = l[k + i].m
    BY <1>1, <2>1 DEF r
  <2>4. i # 1 => r[i] = l[k + i]
    <3>1. i # 1 => i \in 2 .. Len(l) - k
      BY <2>1
    <3> QED  BY <1>1, <3>1 DEF r
  <2> QED  BY <2>2, <2>3, <2>4
<1> QED  BY <1>1, <1>2 DEF r

(* What was sent of two lists, before what is left of them *)
SentAs(h, l, n, th, tl) ==
    /\ SubSeq(Units(h \o l), 1, n) \in Seq(Unit)
    /\ Units(h \o l) = SubSeq(Units(h \o l), 1, n) \o Units(th \o tl)

(* Of lists that are written in turn, what is sent and what is left *)
SentOf(h, l, f, n, nh, low, raise, th, tl) ==
    /\ Lows(l, f) /\ n <= Left(h) + Left(l)
    /\ nh = (IF n < Left(h) THEN n ELSE Left(h)) /\ low = Rest(l, n - nh)
    /\ raise <=> low # <<>> /\ Head(low).off > 0
    /\ th = (IF raise THEN <<Head(low)>> ELSE Rest(h, nh))
    /\ tl = (IF raise THEN Tail(low) ELSE low)

(* Nothing is skipped and nothing is sent twice, a raised buffer included. *)
LEMMA SentUnits ==
    \A h, l \in Seq(Buf), n \in Nat, raise \in BOOLEAN : \A f, nh, low, th, tl :
        SentOf(h, l, f, n, nh, low, raise, th, tl)
            => th \in Seq(Buf) /\ tl \in Seq(Buf) /\ Lows(tl, f) /\ SentAs(h, l, n, th, tl)
<1> SUFFICES ASSUME NEW h \in Seq(Buf), NEW l \in Seq(Buf), NEW n \in Nat, NEW raise \in BOOLEAN,
                    NEW f, NEW nh, NEW low, NEW th, NEW tl, SentOf(h, l, f, n, nh, low, raise, th, tl)
             PROVE  th \in Seq(Buf) /\ tl \in Seq(Buf) /\ Lows(tl, f) /\ SentAs(h, l, n, th, tl)
  OBVIOUS
<1> USE DEF SentOf
<1>1. Left(h) \in Nat /\ Left(l) \in Nat /\ nh \in Nat /\ n - nh \in Nat /\ nh <= Left(h) /\ n - nh <= Left(l)
  BY LeftType
<1>2. PICK k \in Nat : k = n - nh /\ k <= Left(l)
  BY <1>1
<1>3. PICK uh, ul \in Seq(Unit) : uh = Units(h) /\ ul = Units(l) /\ Len(uh) = Left(h) /\ Len(ul) = Left(l)
  <2>1. Units(h) \in Seq(Unit) /\ Units(l) \in Seq(Unit)
    BY LeftType, Zenon
  <2>2. Len(Units(h)) = Left(h) /\ Len(Units(l)) = Left(l)
    BY Zenon DEF Left
  <2> QED  BY <2>1, <2>2, Zenon
<1>4. low = Rest(l, k) /\ low \in Seq(Buf) /\ \A i \in DOMAIN low : f[low[i].m].cmd = "P" /\ (i # 1 => low[i].off = 0)
  BY <1>2, LowsRest, ZenonT(30)
<1>5. PICK b, rl \in Seq(Unit) : b = SubSeq(ul, 1, k) /\ rl = Units(low) /\ ul = b \o rl /\ Len(b) = k
  <2>1. Units(l) = SubSeq(Units(l), 1, k) \o Units(Rest(l, k))
    BY <1>2, RestUnits
  <2>2. SubSeq(Units(l), 1, k) \in Seq(Unit) /\ Len(SubSeq(Units(l), 1, k)) = k
    BY <1>2, SubUnits
  <2>3. Units(low) \in Seq(Unit)
    BY <1>4, LeftType
  <2> QED  BY <1>3, <1>4, <2>1, <2>2, <2>3
<1>6. PICK r : r = Rest(h, nh)
  OBVIOUS
<1>7. PICK a, rh \in Seq(Unit) : a = SubSeq(uh, 1, nh) /\ rh = Units(r) /\ uh = a \o rh /\ Len(a) = nh /\ r \in Seq(Buf)
  <2>1. Units(h) = SubSeq(Units(h), 1, nh) \o Units(Rest(h, nh)) /\ Rest(h, nh) \in Seq(Buf)
    BY <1>1, RestUnits
  <2>2. SubSeq(Units(h), 1, nh) \in Seq(Unit) /\ Len(SubSeq(Units(h), 1, nh)) = nh
    BY <1>1, SubUnits
  <2>3. Units(r) \in Seq(Unit)
    BY <1>6, <2>1, LeftType
  <2> QED  BY <1>3, <1>6, <2>1, <2>2, <2>3
<1>8. Units(h \o l) = uh \o ul
  BY <1>3, UnitsConcat
<1>9. Lows(tl, f) /\ tl \in Seq(Buf) /\ (raise => <<Head(low)>> \in Seq(Buf))
  <2>1. CASE raise
    <3>1. low # <<>>
      BY <2>1
    <3>2. /\ Tail(low) \in Seq(Buf) /\ 1 \in DOMAIN low /\ Head(low) = low[1]
          /\ \A i \in DOMAIN Tail(low) : i + 1 \in DOMAIN low /\ Tail(low)[i] = low[i + 1] /\ i \in Nat
      BY <1>4, <3>1, TailIs
    <3>3. \A i \in DOMAIN Tail(low) : i + 1 # 1 /\ i \in 1 .. Len(Tail(low))
      BY <3>2
    <3>4. Lows(Tail(low), f)
      BY <1>4, <3>2, <3>3 DEF Lows
    <3>5. low[1] \in Buf
      BY <1>4, <3>2
    <3> QED  BY <2>1, <3>2, <3>4, <3>5
  <2>2. CASE ~raise
    <3>1. ASSUME NEW i \in DOMAIN low PROVE low[i].off = 0
      <4>1. CASE i = 1
        <5>1. low # <<>> /\ Head(low) = low[1] /\ low[1] \in Buf
          BY <1>4, <3>1, <4>1
        <5>2. low[1].off \in Nat
          BY <5>1, SocketAssumption DEF Buf
        <5> QED  BY <2>2, <4>1, <5>1, <5>2
      <4> QED  BY <1>4, <4>1
    <3> QED  BY <1>4, <2>2, <3>1 DEF Lows
  <2> QED  BY <2>1, <2>2
<1>10. CASE n < Left(h)
  <2>1. nh = n /\ k = 0
    BY <1>1, <1>2, <1>10
  <2>2. b = <<>>
    BY <1>5, <2>1, EmptySeq
  <2>3. ul = rl
    BY <1>5, <2>2, ConcatEmptySeq
  <2>4. ~raise
    <3>1. l = <<>> \/ l[1].off = 0
      <4>1. l # <<>> => 1 \in DOMAIN l
        BY EmptySeq
      <4> QED  BY <4>1 DEF Lows
    <3>2. Starts(rl)
      BY <1>3, <2>3, <3>1, StartsIs
    <3>3. low = <<>> \/ low[1].off = 0
      BY <1>4, <1>5, <3>2, StartsIs
    <3>4. low # <<>> => Head(low) = low[1]
      BY <1>4
    <3> QED  BY <3>3, <3>4
  <2>5. th = r /\ tl = low
    BY <1>6, <2>4
  <2>6. Units(th \o tl) = rh \o rl
    BY <1>4, <1>5, <1>7, <2>5, UnitsConcat
  <2>7. uh \o ul = a \o (rh \o rl) /\ rh \o rl \in Seq(Unit)
    <3>1. (a \o rh) \o rl = a \o (rh \o rl)
      <4>1. Grouped(a, rh, rl)
        BY Group
      <4> QED  BY <4>1, Zenon DEF Grouped
    <3> QED  BY <1>7, <2>3, <3>1, ConcatProperties
  <2>8. SubSeq(uh \o ul, 1, n) = a
    <3>1. PICK g \in Seq(Unit) : g = rh \o rl
      BY <2>7
    <3>2. SubSeq(a \o g, 1, Len(a)) = a
      BY FrontIs
    <3> QED  BY <1>7, <2>1, <2>7, <3>1, <3>2
  <2> QED  BY <1>7, <1>8, <1>9, <2>5, <2>6, <2>7, <2>8 DEF SentAs
<1>11. CASE ~(n < Left(h))
  <2>1. nh = Left(h) /\ n = Left(h) + k
    BY <1>1, <1>2, <1>11
  <2>2. r = <<>> /\ a = uh
    <3>1. Len(uh) = Len(a) + Len(rh) /\ Len(rh) \in Nat
      <4>1. uh = a \o rh /\ Len(a \o rh) = Len(a) + Len(rh)
        BY <1>7, ConcatProperties, Zenon
      <4>2. Len(rh) \in Nat
        BY <1>7
      <4> QED  BY <4>1, <4>2, Zenon
    <3>2. Left(r) = 0
      BY <1>1, <1>3, <1>7, <2>1, <3>1, SMTT(30) DEF Left
    <3>3. r = <<>>
      BY <1>7, <3>2, LeftType
    <3>4. rh = <<>>
      BY <1>7, <3>3, UnitsEmpty
    <3> QED  BY <1>7, <3>3, <3>4, ConcatEmptySeq, ZenonT(30)
  <2>3. th \o tl = low /\ th \in Seq(Buf)
    <3>1. CASE raise
      <4>1. low # <<>>
        BY <3>1
      <4>2. <<Head(low)>> \o Tail(low) = low
        BY <1>4, <4>1
      <4> QED  BY <1>9, <3>1, <4>2
    <3>2. CASE ~raise
      <4>1. th = <<>> /\ tl = low
        BY <1>6, <2>2, <3>2
      <4>2. <<>> \o low = low /\ <<>> \in Seq(Buf)
        BY <1>4, ConcatEmptySeq
      <4> QED  BY <4>1, <4>2
    <3> QED  BY <3>1, <3>2
  <2>4. PICK g \in Seq(Unit) : g = uh \o b /\ Len(g) = n
    <3>1. uh \o b \in Seq(Unit) /\ Len(uh \o b) = Len(uh) + Len(b)
      BY ConcatProperties
    <3> QED  BY <1>3, <1>5, <2>1, <3>1
  <2>5. uh \o ul = g \o rl
    <3>1. (uh \o b) \o rl = uh \o (b \o rl)
      <4>1. Grouped(uh, b, rl)
        BY <1>3, <1>5, Group, Zenon
      <4> QED  BY <4>1, Zenon DEF Grouped
    <3> QED  BY <1>5, <2>4, <3>1, Zenon
  <2>6. SubSeq(g \o rl, 1, n) = g
    BY <2>4, FrontIs
  <2> QED  BY <1>5, <1>8, <1>9, <2>3, <2>4, <2>5, <2>6, ZenonT(30) DEF SentAs
<1> QED  BY <1>10, <1>11


(* What the peer of a socket has been sent, and what is queued for it *)
Stream(w, s) == ((w \o Units(s.dw)) \o Units(s.high)) \o Units(s.low)

(* Its parts *)
LEMMA StreamIs ==
    \A w \in Seq(Unit), s \in Socket :
        /\ s.dw \in Seq(Buf) /\ s.high \in Seq(Buf) /\ s.low \in Seq(Buf)
        /\ Units(s.dw) \in Seq(Unit) /\ Units(s.high) \in Seq(Unit) /\ Units(s.low) \in Seq(Unit)
        /\ w \o Units(s.dw) \in Seq(Unit) /\ (w \o Units(s.dw)) \o Units(s.high) \in Seq(Unit) /\ Stream(w, s) \in Seq(Unit)
<1> SUFFICES ASSUME NEW w \in Seq(Unit), NEW s \in Socket
             PROVE  /\ s.dw \in Seq(Buf) /\ s.high \in Seq(Buf) /\ s.low \in Seq(Buf)
                    /\ Units(s.dw) \in Seq(Unit) /\ Units(s.high) \in Seq(Unit) /\ Units(s.low) \in Seq(Unit)
                    /\ w \o Units(s.dw) \in Seq(Unit) /\ (w \o Units(s.dw)) \o Units(s.high) \in Seq(Unit)
                    /\ Stream(w, s) \in Seq(Unit)
  OBVIOUS
<1>1. s.dw \in Seq(Buf) /\ s.high \in Seq(Buf) /\ s.low \in Seq(Buf)
  BY DEF Socket
<1>2. PICK d, h, l \in Seq(Unit) : d = Units(s.dw) /\ h = Units(s.high) /\ l = Units(s.low)
  BY <1>1, LeftType
<1>3. w \o d \in Seq(Unit)
  BY ConcatProperties
<1>4. (w \o d) \o h \in Seq(Unit)
  BY <1>3, ConcatProperties
<1>5. ((w \o d) \o h) \o l \in Seq(Unit)
  BY <1>4, ConcatProperties
<1> QED  BY <1>1, <1>2, <1>3, <1>4, <1>5 DEF Stream

(* The lists of a socket are freed. *)
FreedOf(w, s, t, id, f, n, c) ==
    /\ t.dw = s.dw /\ t.high = <<>> /\ t.low = <<>> /\ Lows(s.low, f)
    /\ id \in c \/ s.high = <<>> \/ ~(Head(s.high).off > 0)
    /\ Ended(Stream(w, s), id, f, n, c)

(* What peers were sent stays a stream, which ends where it was cut. *)
LEMMA FreedStream ==
    \A w \in Seq(Unit), s \in Socket, t \in Socket : \A id, f, n, c :
        FreedOf(w, s, t, id, f, n, c)
            => Ended(Stream(w, t), id, f, n, c) /\ MsgsOf(Stream(w, t)) \subseteq MsgsOf(Stream(w, s))
<1> SUFFICES ASSUME NEW w \in Seq(Unit), NEW s \in Socket, NEW t \in Socket, NEW id, NEW f, NEW n, NEW c,
                    FreedOf(w, s, t, id, f, n, c)
             PROVE  Ended(Stream(w, t), id, f, n, c) /\ MsgsOf(Stream(w, t)) \subseteq MsgsOf(Stream(w, s))
  OBVIOUS
<1> USE DEF FreedOf
<1>0. s.high \in Seq(Buf) /\ s.low \in Seq(Buf)
  BY DEF Socket
<1>1. PICK a, h, l \in Seq(Unit) : a = w \o Units(s.dw) /\ h = Units(s.high) /\ l = Units(s.low)
  BY StreamIs
<1>2. PICK b \in Seq(Unit) : b = h \o l /\ Joins(h, l, b)
  BY JoinIs, ConcatProperties
<1>3. Stream(w, s) = a \o b
  <2>1. Grouped(a, h, l)
    BY Group
  <2> QED  BY <1>1, <1>2, <2>1 DEF Grouped, Stream
<1>4. Stream(w, t) = a
  <2>1. a \o <<>> = a
    BY ConcatEmptySeq
  <2> QED  BY <1>1, <2>1, UnitsEmpty DEF Stream
<1>5. id \in c \/ Starts(b)
  <2> SUFFICES ASSUME id \notin c PROVE Starts(b)
    OBVIOUS
  <2>1. Starts(h)
    <3>1. s.high # <<>> => s.high[1].off = 0
      <4> SUFFICES ASSUME s.high # <<>> PROVE s.high[1].off = 0
        OBVIOUS
      <4>1. s.high[1] \in Buf /\ Head(s.high) = s.high[1]
        BY <1>0
      <4>2. s.high[1].off \in Nat
        BY <4>1, SocketAssumption DEF Buf
      <4> QED  BY <4>1, <4>2
    <3> QED  BY <1>0, <1>1, <3>1, StartsIs
  <2>2. Starts(l)
    <3>1. s.low # <<>> => 1 \in DOMAIN s.low
      BY <1>0, EmptySeq
    <3>2. s.low # <<>> => s.low[1].off = 0
      BY <3>1 DEF Lows
    <3> QED  BY <1>0, <1>1, <3>2, StartsIs
  <2>3. CASE h = <<>>
    BY <1>2, <2>2, <2>3, ConcatEmptySeq
  <2>4. CASE h # <<>>
    <3>1. 1 \in 1 .. Len(h)
      BY <2>4, EmptySeq
    <3>2. b[1] = h[1]
      BY <1>2, <3>1 DEF Joins
    <3> QED  BY <2>1, <2>4, <3>2 DEF Starts
  <2> QED  BY <2>3, <2>4
<1>6. Ended(a, id, f, n, c)
  BY <1>3, <1>5, EndedFront
<1>7. MsgsOf(a) \subseteq MsgsOf(a \o b)
  <2>1. PICK q : q = a \o b
    OBVIOUS
  <2> QED  BY <2>1, JoinIs, MsgsJoin
<1> QED  BY <1>3, <1>4, <1>6, <1>7

(* A part of what is queued is written: the peer sees no difference. *)
SentFrom(w, s, r, e, n, v, f) ==
    /\ Lows(s.low, f) /\ r = WithDirectWrite(s) /\ e = Sent(r, n) /\ n <= Left(r.high) + Left(r.low)
    /\ v = w \o SubSeq(Units(r.high \o r.low), 1, n)
SentTo(w, s, e, v, f) ==
    v \in Seq(Unit) /\ Stream(v, e) = Stream(w, s) /\ Lows(e.low, f) /\ e.dw = <<>> /\ \E b \in Seq(Unit) : Stream(w, s) = v \o b

(* What was written and what is left are the stream there was. *)
LEMMA SentStream ==
    \A w \in Seq(Unit), s \in Socket, r \in Socket, e \in Socket, n \in Nat : \A v, f :
        SentFrom(w, s, r, e, n, v, f) => SentTo(w, s, e, v, f)
<1> SUFFICES ASSUME NEW w \in Seq(Unit), NEW s \in Socket, NEW r \in Socket, NEW e \in Socket, NEW n \in Nat,
                    NEW v, NEW f, SentFrom(w, s, r, e, n, v, f)
             PROVE  SentTo(w, s, e, v, f)
  OBVIOUS
<1>h. /\ Lows(s.low, f) /\ r = WithDirectWrite(s) /\ e = Sent(r, n) /\ n <= Left(r.high) + Left(r.low)
      /\ v = w \o SubSeq(Units(r.high \o r.low), 1, n)
  BY DEF SentFrom
<1>d. e.dw = <<>>
  <2>1. r.dw = <<>>
    BY <1>h, WithDirectWriteIs
  <2> QED  BY <1>h, <2>1, SentIs
<1>1. /\ r.high = s.dw \o s.high /\ r.low = s.low /\ r.dw = <<>>
      /\ s.dw \in Seq(Buf) /\ s.high \in Seq(Buf) /\ s.low \in Seq(Buf) /\ r.high \in Seq(Buf) /\ r.low \in Seq(Buf)
  BY <1>h, WithDirectWriteIs DEF Socket
<1>2. PICK nh : nh = FromHigh(r, n)
  OBVIOUS
<1>3. PICK low : low = Rest(r.low, n - nh)
  OBVIOUS
<1>4. PICK raise \in BOOLEAN : raise = Raises(r, n)
  BY DEF Raises
<1>5. PICK th, tl : th = e.high /\ tl = e.low
  OBVIOUS
<1>6. /\ th = IF raise THEN <<Head(low)>> ELSE Rest(r.high, nh)
      /\ tl = IF raise THEN Tail(low) ELSE low
  BY <1>h, <1>2, <1>3, <1>4, <1>5, SentIs
<1>7. raise <=> low # <<>> /\ Head(low).off > 0
  BY <1>2, <1>3, <1>4 DEF Raises
<1>8. /\ th \in Seq(Buf) /\ tl \in Seq(Buf) /\ Lows(tl, f)
      /\ SubSeq(Units(r.high \o r.low), 1, n) \in Seq(Unit)
      /\ Units(r.high \o r.low) = SubSeq(Units(r.high \o r.low), 1, n) \o Units(th \o tl)
  <2>1. nh = IF n < Left(r.high) THEN n ELSE Left(r.high)
    BY <1>2 DEF FromHigh
  <2>2. PICK h, l \in Seq(Buf) : h = r.high /\ l = r.low
    BY <1>1
  <2>3. Lows(l, f)
    BY <1>h, <1>1, <2>2
  <2>4. low = Rest(l, n - nh) /\ th = (IF raise THEN <<Head(low)>> ELSE Rest(h, nh)) /\ n <= Left(h) + Left(l)
        /\ nh = (IF n < Left(h) THEN n ELSE Left(h))
    BY <1>h, <1>3, <1>6, <2>1, <2>2
  <2>5. SentOf(h, l, f, n, nh, low, raise, th, tl)
    BY <1>6, <1>7, <2>3, <2>4 DEF SentOf
  <2>6. th \in Seq(Buf) /\ tl \in Seq(Buf) /\ Lows(tl, f) /\ SentAs(h, l, n, th, tl)
    BY <2>5, SentUnits
  <2> QED  BY <2>2, <2>6 DEF SentAs
<1>9. PICK d, h, l, x, y, z \in Seq(Unit) :
         /\ d = Units(s.dw) /\ h = Units(s.high) /\ l = Units(s.low)
         /\ x = SubSeq(Units(r.high \o r.low), 1, n) /\ y = Units(th) /\ z = Units(tl)
  BY <1>1, <1>8, LeftType
<1>10. PICK a, g, b, p \in Seq(Unit) : a = d \o h /\ g = a \o l /\ b = y \o z /\ p = w \o d
  BY ConcatProperties
<1>11. g = x \o b
  <2>1. Units(r.high) = a
    BY <1>1, <1>9, <1>10, UnitsConcat
  <2>2. Units(r.high \o r.low) = g
    BY <1>1, <1>9, <1>10, <2>1, UnitsConcat
  <2>3. Units(th \o tl) = b
    BY <1>8, <1>9, <1>10, UnitsConcat
  <2> QED  BY <1>8, <1>9, <2>2, <2>3
<1>12. v \in Seq(Unit) /\ v = w \o x
  BY <1>h, <1>9, ConcatProperties
<1>13. Stream(w, s) = w \o g
  <2>1. Grouped(w, d, h) /\ Grouped(w, a, l)
    BY Group
  <2>2. p \o h = w \o a /\ (w \o a) \o l = w \o g
    BY <1>10, <2>1, Zenon DEF Grouped
  <2> QED  BY <1>9, <1>10, <2>2 DEF Stream
<1>14. w \o g = v \o b
  <2>1. Grouped(w, x, b)
    BY Group
  <2> QED  BY <1>11, <1>12, <2>1 DEF Grouped
<1>15. Stream(v, e) = v \o b
  <2>1. Stream(v, e) = ((v \o <<>>) \o y) \o z
    BY <1>d, <1>5, <1>9, UnitsEmpty DEF Stream
  <2>2. v \o <<>> = v
    BY <1>12, ConcatEmptySeq
  <2>3. Grouped(v, y, z)
    BY <1>12, Group
  <2> QED  BY <1>10, <2>1, <2>2, <2>3 DEF Grouped
<1> QED  BY <1>d, <1>5, <1>8, <1>12, <1>13, <1>14, <1>15 DEF SentTo

(* A buffer that nothing was sent of is a message. *)
LEMMA NewUnits ==
    \A b \in Seq(Buf), m \in Msg : /\ [m |-> m, off |-> 0] \in Buf
                                   /\ Units(Append(b, [m |-> m, off |-> 0])) = Units(b) \o Message(m)
<1> SUFFICES ASSUME NEW b \in Seq(Buf), NEW m \in Msg
             PROVE  /\ [m |-> m, off |-> 0] \in Buf
                    /\ Units(Append(b, [m |-> m, off |-> 0])) = Units(b) \o Message(m)
  OBVIOUS
<1>1. PICK x : x = [m |-> m, off |-> 0]
  OBVIOUS
<1>2. x \in Buf /\ Size - x.off = Size
  BY <1>1, SocketAssumption DEF Buf
<1>3. Units(Append(b, x)) = Units(b) \o PartOf(x, Size - x.off)
  BY <1>2, UnitsAppend
<1> QED  BY <1>1, <1>2, <1>3 DEF Message

(* A message behind all others *)
MoreFits(q, m, id, f, n, c) == Ended(q, id, f, n, c) /\ Mine({m}, id, f, n) /\ Before(MsgsOf(q), {m}, f)
MoreDone(q, m, id, f, n, c) ==
    /\ Two(q, Message(m)) \in Seq(Unit) /\ Ended(Two(q, Message(m)), id, f, n, c)
    /\ MsgsOf(Two(q, Message(m))) = MsgsOf(q) \cup {m}

(* It is the last one of the stream. *)
LEMMA EndedMore ==
    \A q \in Seq(Unit), m \in Msg : \A id, f, n, c : MoreFits(q, m, id, f, n, c) => MoreDone(q, m, id, f, n, c)
<1> SUFFICES ASSUME NEW q \in Seq(Unit), NEW m \in Msg, NEW id, NEW f, NEW n, NEW c, MoreFits(q, m, id, f, n, c)
             PROVE  MoreDone(q, m, id, f, n, c)
  OBVIOUS
<1>0. <<>> \in Seq(Unit)
  OBVIOUS
<1>1. PICK e \in Seq(Unit) : e = <<>>
  BY <1>0
<1>2. Starts(e) /\ Before({m}, MsgsOf(e), f) /\ q \o e = q
  BY <1>1, EndedEmpty, ConcatEmptySeq DEF Starts, Before
<1>3. Message(m) \in Seq(Unit)
  BY MessageIs
<1>4. PICK p \in Seq(Unit) : p = q \o Message(m)
  BY <1>3, ConcatProperties
<1>5. p \o e = p
  BY <1>1, ConcatEmptySeq
<1>6. Two(q, e) = q /\ With(q, m, e) = p /\ Two(q, Message(m)) = p
  BY <1>2, <1>4, <1>5 DEF Two, With
<1>7. WithFits(q, e, m, id, f, n, c)
  BY <1>2, <1>6 DEF WithFits, MoreFits
<1>8. WithDone(q, e, m, id, f, n, c)
  BY <1>7, EndedWith
<1> QED  BY <1>6, <1>8 DEF WithDone, MoreDone

(* A message is appended to the high list, *)
MoreTo(w, s, t, m, id, f, n, c) ==
    Ended(Stream(w, t), id, f, n, c) /\ MsgsOf(Stream(w, t)) = MsgsOf(Stream(w, s)) \cup {m} /\ Lows(t.low, f)

(* when it is not of low priority or nothing of low priority waits, *)
HighOf(w, s, t, m, id, f, n, c) ==
    /\ t.dw = s.dw /\ t.high = Append(s.high, [m |-> m, off |-> 0]) /\ t.low = s.low
    /\ Lows(s.low, f) /\ MoreFits(Stream(w, s), m, id, f, n, c) /\ (s.low = <<>> \/ f[m].cmd # "P")

(* and goes before the messages of low priority, none of which was begun; *)
LEMMA HighStream ==
    \A w \in Seq(Unit), s \in Socket, t \in Socket, m \in Msg : \A id, f, n, c :
        HighOf(w, s, t, m, id, f, n, c) => MoreTo(w, s, t, m, id, f, n, c)
<1> SUFFICES ASSUME NEW w \in Seq(Unit), NEW s \in Socket, NEW t \in Socket, NEW m \in Msg,
                    NEW id, NEW f, NEW n, NEW c, HighOf(w, s, t, m, id, f, n, c)
             PROVE  MoreTo(w, s, t, m, id, f, n, c)
  OBVIOUS
<1> USE DEF HighOf, MoreFits
<1>1. PICK p, h, l, a \in Seq(Unit) : p = w \o Units(s.dw) /\ h = Units(s.high) /\ l = Units(s.low) /\ a = p \o h
  BY StreamIs
<1>2. Stream(w, s) = a \o l
  BY <1>1 DEF Stream
<1>3. Message(m) \in Seq(Unit)
  BY MessageIs
<1>4. Stream(w, t) = (a \o Message(m)) \o l
  <2>1. s.high \in Seq(Buf)
    BY DEF Socket
  <2>2. Units(t.high) = h \o Message(m)
    BY <1>1, <2>1, NewUnits
  <2>3. Grouped(p, h, Message(m))
    BY <1>3, Group
  <2>4. p \o (h \o Message(m)) = a \o Message(m)
    BY <1>1, <2>3 DEF Grouped
  <2> QED  BY <1>1, <2>2, <2>4 DEF Stream
<1>5. Starts(l)
  <2>1. s.low \in Seq(Buf)
    BY DEF Socket
  <2>2. s.low # <<>> => 1 \in DOMAIN s.low
    BY <2>1, EmptySeq
  <2>3. s.low # <<>> => s.low[1].off = 0
    BY <2>2 DEF Lows
  <2> QED  BY <1>1, <2>1, <2>3, StartsIs
<1>6. Before(MsgsOf(a), {m}, f)
  <2>1. PICK q : q = a \o l
    OBVIOUS
  <2>2. MsgsOf(a) \subseteq MsgsOf(q)
    BY <2>1, JoinIs, MsgsJoin
  <2> QED  BY <1>2, <2>1, <2>2 DEF Before
<1>7. Before({m}, MsgsOf(l), f)
  <2>1. s.low \in Seq(Buf)
    BY DEF Socket
  <2>2. CASE s.low = <<>>
    <3>1. l = <<>>
      BY <1>1, <2>2, UnitsEmpty
    <3> QED  BY <3>1, EndedEmpty DEF Before
  <2>3. CASE f[m].cmd # "P"
    <3>1. MsgsOf(l) \subseteq Msgs(s.low)
      BY <1>1, <2>1, UnitsOf
    <3>2. \A y \in Msgs(s.low) : f[y].cmd = "P"
      BY DEF Msgs, Lows
    <3> QED  BY <2>3, <3>1, <3>2 DEF Before, Precedes
  <2> QED  BY <2>2, <2>3
<1>8. Stream(w, s) = Two(a, l) /\ Stream(w, t) = With(a, m, l)
  BY <1>2, <1>4 DEF Two, With
<1>9. WithFits(a, l, m, id, f, n, c)
  BY <1>5, <1>6, <1>7, <1>8 DEF WithFits
<1>10. WithDone(a, l, m, id, f, n, c)
  BY <1>9, EndedWith
<1> QED  BY <1>8, <1>10 DEF WithDone, MoreTo

(* or, when it has low priority, to the low one; *)
LowOf(w, s, t, m, id, f, n, c) ==
    /\ t.dw = s.dw /\ t.high = s.high /\ t.low = Append(s.low, [m |-> m, off |-> 0])
    /\ Lows(s.low, f) /\ MoreFits(Stream(w, s), m, id, f, n, c) /\ f[m].cmd = "P"

(* there it goes behind all others. *)
LEMMA LowStream ==
    \A w \in Seq(Unit), s \in Socket, t \in Socket, m \in Msg : \A id, f, n, c :
        LowOf(w, s, t, m, id, f, n, c) => MoreTo(w, s, t, m, id, f, n, c)
<1> SUFFICES ASSUME NEW w \in Seq(Unit), NEW s \in Socket, NEW t \in Socket, NEW m \in Msg,
                    NEW id, NEW f, NEW n, NEW c, LowOf(w, s, t, m, id, f, n, c)
             PROVE  MoreTo(w, s, t, m, id, f, n, c)
  OBVIOUS
<1> USE DEF LowOf
<1>1. PICK a, l \in Seq(Unit) : a = (w \o Units(s.dw)) \o Units(s.high) /\ l = Units(s.low)
  BY StreamIs
<1>2. Stream(w, s) = a \o l /\ Stream(w, s) \in Seq(Unit)
  BY <1>1, StreamIs DEF Stream
<1>3. Message(m) \in Seq(Unit) /\ s.low \in Seq(Buf)
  BY MessageIs DEF Socket
<1>4. Stream(w, t) = Two(Stream(w, s), Message(m))
  <2>1. Units(t.low) = l \o Message(m)
    BY <1>1, <1>3, NewUnits
  <2>2. Grouped(a, l, Message(m))
    BY <1>3, Group
  <2>3. a \o (l \o Message(m)) = (a \o l) \o Message(m)
    BY <2>2 DEF Grouped
  <2> QED  BY <1>1, <1>2, <2>1, <2>3 DEF Stream, Two
<1>5. Lows(t.low, f)
  <2>1. PICK x \in Buf : x = [m |-> m, off |-> 0]
    BY NewUnits, <1>3
  <2>2. \A i \in DOMAIN Append(s.low, x) : (i \in DOMAIN s.low /\ Append(s.low, x)[i] = s.low[i]) \/ Append(s.low, x)[i] = x
    BY <1>3, AppendIs
  <2> QED  BY <2>1, <2>2 DEF Lows
<1>6. MoreFits(Stream(w, s), m, id, f, n, c)
  BY DEF MoreFits
<1>7. MoreDone(Stream(w, s), m, id, f, n, c)
  BY <1>2, <1>6, EndedMore
<1> QED  BY <1>4, <1>5, <1>7 DEF MoreDone, MoreTo

(* A message is written directly, and what is left of it is kept. *)
DirectOf(w, s, t, m, n, x, v, q) ==
    /\ x = [m |-> m, off |-> 0] /\ v = w \o PartOf(x, n) /\ q = w \o Message(m)
    /\ s.dw = <<>> /\ s.high = <<>> /\ s.low = <<>> /\ t.high = <<>> /\ t.low = <<>>
    /\ \/ n = Size /\ t.dw = <<>>
       \/ n < Size /\ [m |-> m, off |-> n] \in Buf /\ t.dw = <<[m |-> m, off |-> n]>>
DirectTo(w, s, t, v, q) ==
    v \in Seq(Unit) /\ Stream(w, s) = w /\ Stream(v, t) = q /\ \E b \in Seq(Unit) : q = v \o b

(* The peer reads the whole message, first the part that was written. *)
LEMMA DirectStream ==
    \A w \in Seq(Unit), s \in Socket, t \in Socket, n \in Nat, x \in Buf : \A m, v, q :
        DirectOf(w, s, t, m, n, x, v, q) => DirectTo(w, s, t, v, q)
<1> SUFFICES ASSUME NEW w \in Seq(Unit), NEW s \in Socket, NEW t \in Socket, NEW n \in Nat, NEW x \in Buf,
                    NEW m, NEW v, NEW q, DirectOf(w, s, t, m, n, x, v, q)
             PROVE  DirectTo(w, s, t, v, q)
  OBVIOUS
<1> USE DEF DirectOf
<1>0. Size \in Nat /\ x.off = 0 /\ Size - x.off = Size /\ n \in 0 .. Size - x.off
  BY SocketAssumption
<1>1. PICK p \in Seq(Unit) : p = PartOf(x, n)
  BY <1>0, PartType
<1>2. v \in Seq(Unit) /\ v = w \o p
  BY <1>1, ConcatProperties
<1>3. w \o <<>> = w /\ v \o <<>> = v /\ <<>> \in Seq(Unit)
  BY ConcatEmptySeq
<1>4. Stream(w, s) = w
  BY <1>3, UnitsEmpty DEF Stream
<1>5. CASE n = Size /\ t.dw = <<>>
  <2>1. Stream(v, t) = v
    BY <1>3, <1>5, UnitsEmpty DEF Stream
  <2>2. p = Message(m)
    BY <1>1, <1>5 DEF Message
  <2> QED  BY <1>1, <1>2, <1>3, <1>4, <2>1, <2>2 DEF DirectTo
<1>6. CASE n < Size /\ [m |-> m, off |-> n] \in Buf /\ t.dw = <<[m |-> m, off |-> n]>>
  <2>1. PICK y \in Buf : y = [m |-> m, off |-> n]
    BY <1>6
  <2>2. PICK z \in Seq(Unit) : z = PartOf(y, Size - y.off) /\ Units(<<y>>) = z
    BY UnitsSingle
  <2>3. Message(m) = p \o z
    <3>1. y.m = x.m /\ y.off = x.off + n /\ n < Size - x.off
      BY <1>0, <1>6, <2>1
    <3>2. PartOf(x, Size - x.off) = PartOf(x, n) \o PartOf(y, Size - y.off)
      BY <3>1, PartSplits
    <3> QED  BY <1>0, <1>1, <2>2, <3>2 DEF Message
  <2>4. w \o (p \o z) = v \o z
    <3>1. Grouped(w, p, z)
      BY Group
    <3> QED  BY <1>2, <3>1 DEF Grouped
  <2>5. Stream(v, t) = v \o z
    <3>1. v \o z \in Seq(Unit)
      BY <1>2, ConcatProperties
    <3>2. (v \o z) \o <<>> = v \o z
      BY <3>1, ConcatEmptySeq
    <3> QED  BY <1>6, <2>1, <2>2, <3>2, UnitsEmpty DEF Stream
  <2> QED  BY <1>1, <1>2, <1>4, <2>3, <2>4, <2>5 DEF DirectTo
<1> QED  BY <1>5, <1>6


(* No message of the pipe was sent before those of S, by the same worker   *)
(* and with the same priority.                                             *)
Ahead(S, p, f) == \A j \in DOMAIN p : p[j].m # 0 => Before(S, {p[j].m}, f)

(* What is known of the stream of an open socket, of which w is written *)
Flow(s, w, p, f, n, c) ==
    Ended(Stream(w, s), s.id, f, n, c) /\ Ahead(MsgsOf(Stream(w, s)), p, f) /\ Lows(s.low, f)

(* A worker builds the request for its last message. *)
JobOf(j, v, f, n) ==
    j.m # 0 => /\ j.m \in 1 .. n /\ f[j.m].who = v /\ f[j.m].cmd = j.cmd /\ f[j.m].id = j.id
               /\ \A x \in 1 .. n : f[x].who = v => x <= j.m

(* Requests are in the pipe in the order in which they were made. *)
PipeOf(p, f, n) ==
    /\ \A i \in DOMAIN p : p[i].m # 0 => p[i].m \in 1 .. n /\ f[p[i].m].cmd = p[i].cmd /\ f[p[i].m].id = p[i].id
    /\ \A i, j \in DOMAIN p : i < j /\ p[i].m # 0 /\ p[j].m # 0 => Precedes(p[i].m, p[j].m, f)

Unsent(f, n) == \A m \in Msg : n < m => f[m].cmd = ""

(* Requests carry messages of the workers that made them, in order. *)
SentInv == (\A v \in Worker : JobOf(job[v], v, from, nmsg)) /\ PipeOf(pipe, from, nmsg) /\ Unsent(from, nmsg)

(* An id that no socket has had yet *)
Due(id) == \/ alloc_id < id
           \/ \E v \in Worker : Held(v) /\ job[v].id = id
           \/ \E i \in DOMAIN pipe : Asks(i) /\ pipe[i].id = id

(* What peers were sent, and nothing by a socket that does not exist yet *)
WireInv == \A id \in Id : Kept(wire[id], id, from, nmsg, cut) /\ (Due(id) => wire[id] = <<>>)

(* What was sent and what will be: the inductive invariant of the streams *)
FlowInv ==
    /\ SentInv /\ WireInv
    /\ \A k \in Slot : sock[k].type \in Open => Flow(sock[k], wire[sock[k].id], pipe, from, nmsg, cut)

(* What every step does to the messages: they are never sent again, and    *)
(* what was ahead of the pipe stays so.                                    *)
Grows ==
    /\ nmsg \in Nat /\ nmsg' \in Nat /\ nmsg <= nmsg' /\ cut \subseteq cut'
    /\ \A m \in 1 .. nmsg : from'[m] = from[m]
    /\ \A m \in Msg : from[m].cmd = "P" => from'[m] = from[m]
Passes == \A S \in SUBSET (1 .. nmsg) : Ahead(S, pipe, from) => Ahead(S, pipe', from')

(* A stream that a step does not touch *)
LEMMA FlowGoes ==
    ASSUME Grows, Passes, NEW s \in Socket, NEW w, Flow(s, w, pipe, from, nmsg, cut)
    PROVE  Flow(s, w, pipe', from', nmsg', cut')
<1>1. PICK q : q = Stream(w, s)
  OBVIOUS
<1>2. Ended(q, s.id, from, nmsg, cut) /\ Ahead(MsgsOf(q), pipe, from) /\ Lows(s.low, from)
  BY <1>1 DEF Flow
<1>3. Ended(q, s.id, from', nmsg', cut')
  BY <1>2, KeptGrows DEF Grows
<1>4. MsgsOf(q) \in SUBSET (1 .. nmsg)
  BY <1>2 DEF Ended, Mine
<1>5. Ahead(MsgsOf(q), pipe', from')
  BY <1>2, <1>4 DEF Passes
<1>6. Lows(s.low, from')
  <2> SUFFICES ASSUME NEW i \in DOMAIN s.low PROVE s.low[i].off = 0 /\ from'[s.low[i].m].cmd = "P"
    BY DEF Lows
  <2>1. s.low[i] \in Buf
    BY ElementOfSeq DEF Socket
  <2>2. s.low[i].m \in Msg
    BY <2>1 DEF Buf
  <2> QED  BY <1>2, <2>2 DEF Lows, Grows
<1> QED  BY <1>1, <1>3, <1>5, <1>6 DEF Flow

(* The stream depends on the lists of a slot only. *)
LEMMA FlowLike ==
    \A s, t, w, p, f, n, c : SameLists(s, t) /\ t.id = s.id /\ Flow(s, w, p, f, n, c) => Flow(t, w, p, f, n, c)
BY DEF Flow, Stream, SameLists

(* A socket that has just been opened *)
LEMMA FlowEmpty ==
    \A s, p, f, n, c : s.dw = <<>> /\ s.high = <<>> /\ s.low = <<>> => Flow(s, <<>>, p, f, n, c)
<1> SUFFICES ASSUME NEW s, NEW p, NEW f, NEW n, NEW c, s.dw = <<>>, s.high = <<>>, s.low = <<>>
             PROVE  Flow(s, <<>>, p, f, n, c)
  OBVIOUS
<1>1. ((<<>> \o <<>>) \o <<>>) \o <<>> = <<>>
  OBVIOUS
<1>2. Stream(<<>>, s) = <<>>
  BY <1>1, UnitsEmpty DEF Stream
<1>3. Ended(<<>>, s.id, f, n, c) /\ MsgsOf(<<>>) = {}
  BY EndedEmpty
<1> QED  BY <1>2, <1>3 DEF Flow, Ahead, Before, Lows

(* The id of an open socket *)
LEMMA OpenIs ==
    ASSUME TypeOK, OwnersInv, NEW k \in Slot, sock[k].type \in Open
    PROVE  /\ sock[k].id \in Id /\ Hash(sock[k].id) = k /\ sock[k].protocol = "TCP" /\ ~Due(sock[k].id)
           /\ wire[sock[k].id] \in Seq(Unit) /\ sock[k] \in Socket
<1>1. sock[k].id \in Id /\ Hash(sock[k].id) = k /\ sock[k].protocol = "TCP" /\ sock[k].id <= alloc_id
  BY DEF OwnersInv, NamesInv, Named
<1>2. PICK id \in Id : id = sock[k].id
  BY <1>1
<1>3. ~Reserved(id)
  BY <1>1, <1>2 DEF Reserved, Open
<1>4. ~(alloc_id < id)
  <2>1. id \in Nat /\ alloc_id \in Nat
    <3>1. alloc_id \in 0 .. MaxId
      BY DEF TypeOK
    <3> QED  BY <3>1, SocketAssumption DEF Id
  <2> QED  BY <1>1, <1>2, <2>1
<1>5. ~Due(id)
  <2>1. \A v \in Worker : Held(v) => job[v].id # id
    BY <1>3 DEF OwnersInv, HoldersInv
  <2>2. \A i \in DOMAIN pipe : Asks(i) => pipe[i].id # id
    BY <1>3 DEF OwnersInv, HoldersInv
  <2> QED  BY <1>4, <2>1, <2>2 DEF Due
<1>6. wire[id] \in Seq(Unit) /\ sock[k] \in Socket
  BY DEF TypeOK
<1> QED  BY <1>1, <1>2, <1>5, <1>6

(* The streams, after a step that writes one slot and what its peer reads. *)
LEMMA FlowOne ==
    ASSUME TypeOK, OwnersInv, OwnersInv', TypeOK', FlowInv, Grows, Passes, SentInv',
           \A id \in Id : Due(id)' => Due(id),
           NEW k \in Slot, OneSlot(k),
           \A id \in Id : \/ wire'[id] = wire[id]
                          \/ sock[k].type \in Open /\ id = sock[k].id /\ Kept(wire'[id], id, from', nmsg', cut'),
           sock'[k].type \in Open => Flow(sock'[k], wire'[sock'[k].id], pipe', from', nmsg', cut')
    PROVE  FlowInv'
<1>1. ASSUME NEW id \in Id PROVE Kept(wire'[id], id, from', nmsg', cut') /\ (Due(id)' => wire'[id] = <<>>)
  <2>1. CASE wire'[id] = wire[id]
    <3>1. PICK q : q = wire[id]
      OBVIOUS
    <3>2. Kept(q, id, from, nmsg, cut)
      BY <3>1 DEF FlowInv, WireInv
    <3>3. Kept(q, id, from', nmsg', cut')
      BY <3>2, KeptGrows DEF Grows
    <3>4. Due(id)' => wire[id] = <<>>
      BY DEF FlowInv, WireInv
    <3> QED  BY <2>1, <3>1, <3>3, <3>4
  <2>2. CASE sock[k].type \in Open /\ id = sock[k].id /\ Kept(wire'[id], id, from', nmsg', cut')
    BY <2>2, OpenIs
  <2> QED  BY <2>1, <2>2
<1>2. ASSUME NEW j \in Slot, sock'[j].type \in Open
      PROVE  Flow(sock'[j], wire'[sock'[j].id], pipe', from', nmsg', cut')
  <2>1. CASE j = k
    BY <1>2, <2>1
  <2>2. CASE j # k
    <3>1. sock'[j] = sock[j] /\ sock[j].type \in Open
      BY <1>2, <2>2 DEF OneSlot
    <3>2. sock[j].id \in Id /\ Hash(sock[j].id) = j /\ sock[j] \in Socket
      BY <3>1, OpenIs
    <3>3. sock[k].type \in Open => Hash(sock[k].id) = k
      BY OpenIs
    <3>4. wire'[sock[j].id] = wire[sock[j].id]
      BY <2>2, <3>2, <3>3
    <3>5. PICK s \in Socket : s = sock[j]
      BY <3>2
    <3>6. PICK w : w = wire[s.id]
      OBVIOUS
    <3>7. Flow(s, w, pipe, from, nmsg, cut)
      BY <3>1, <3>5, <3>6 DEF FlowInv
    <3>8. Flow(s, w, pipe', from', nmsg', cut')
      BY <3>7, FlowGoes
    <3> QED  BY <3>1, <3>4, <3>5, <3>6, <3>8
  <2> QED  BY <2>1, <2>2
<1>3. WireInv'
  BY <1>1 DEF WireInv
<1> QED  BY <1>2, <1>3 DEF FlowInv

(* The streams, after a step that writes none of them. *)
LEMMA FlowStays ==
    ASSUME TypeOK, OwnersInv, OwnersInv', TypeOK', FlowInv, Grows, Passes, SentInv',
           \A id \in Id : Due(id)' => Due(id), UNCHANGED wire,
           NEW k \in Slot, OneSlot(k), SameLists(sock[k], sock'[k]),
           sock'[k].type \in Open => sock[k].type \in Open /\ sock'[k].id = sock[k].id
    PROVE  FlowInv'
<1>1. ASSUME sock'[k].type \in Open PROVE Flow(sock'[k], wire'[sock'[k].id], pipe', from', nmsg', cut')
  <2>1. sock[k].type \in Open /\ sock'[k].id = sock[k].id
    BY <1>1
  <2>2. PICK s \in Socket : s = sock[k]
    BY <2>1, OpenIs
  <2>3. PICK w : w = wire[s.id]
    OBVIOUS
  <2>4. Flow(s, w, pipe, from, nmsg, cut)
    BY <2>1, <2>2, <2>3 DEF FlowInv
  <2>5. Flow(s, w, pipe', from', nmsg', cut')
    BY <2>4, FlowGoes
  <2>6. PICK t : t = sock'[k]
    OBVIOUS
  <2>7. Flow(t, w, pipe', from', nmsg', cut')
    BY <2>1, <2>2, <2>5, <2>6, FlowLike
  <2> QED  BY <2>1, <2>2, <2>3, <2>6, <2>7
<1> QED  BY <1>1, FlowOne


(* A step that sends nothing, and takes a request from the pipe or none *)
LEMMA SentKept ==
    ASSUME TypeOK, SentInv, UNCHANGED <<from, nmsg>>, cut \subseteq cut',
           pipe' = pipe \/ (pipe # <<>> /\ pipe' = Tail(pipe)),
           \A v \in Worker : job'[v] = job[v] \/ job'[v] = NoReq
    PROVE  SentInv' /\ Grows /\ Passes
<1>1. nmsg \in Nat
  <2>1. nmsg \in 0 .. MaxMsg
    BY DEF TypeOK
  <2> QED  BY <2>1
<1>2. Grows
  <2>1. nmsg <= nmsg
    BY <1>1
  <2> QED  BY <1>1, <2>1 DEF Grows
<1>3. PICK d \in 0 .. 1 : \A i \in DOMAIN pipe' : i \in Nat /\ i + d \in DOMAIN pipe /\ pipe'[i] = pipe[i + d]
  <2>1. pipe \in Seq(Requests)
    BY DEF TypeOK
  <2>2. CASE pipe' = pipe
    <3>1. \A i \in DOMAIN pipe : i \in Nat /\ i + 0 = i
      BY <2>1
    <3> QED  BY <2>2, <3>1
  <2>3. CASE pipe # <<>> /\ pipe' = Tail(pipe)
    BY <2>1, <2>3, TailIs
  <2> QED  BY <2>2, <2>3
<1>4. Passes
  BY <1>3 DEF Passes, Ahead
<1>5. PipeOf(pipe', from', nmsg')
  <2>1. \A i, j \in DOMAIN pipe' : i < j => i + d < j + d
    BY <1>3
  <2> QED  BY <1>3, <2>1 DEF SentInv, PipeOf
<1>6. NoReq.m = 0
  BY DEF NoReq, Req
<1>7. \A v \in Worker : JobOf(job'[v], v, from', nmsg')
  BY <1>6 DEF SentInv, JobOf
<1> QED  BY <1>2, <1>4, <1>5, <1>7 DEF SentInv

(* A request is put into the pipe. *)
LEMMA SentPushed ==
    ASSUME TypeOK, SentInv, UNCHANGED <<from, nmsg, cut>>, NEW r \in Requests, pipe' = Append(pipe, r),
           r.m = 0 \/ \E v \in Worker : r = job[v],
           \A v \in Worker : job'[v] = job[v] \/ job'[v] = NoReq
    PROVE  SentInv' /\ Grows /\ Passes
<1>1. nmsg \in Nat
  <2>1. nmsg \in 0 .. MaxMsg
    BY DEF TypeOK
  <2> QED  BY <2>1
<1>2. Grows
  <2>1. nmsg <= nmsg
    BY <1>1
  <2> QED  BY <1>1, <2>1 DEF Grows
<1>3. /\ DOMAIN pipe' = 1 .. Len(pipe) + 1 /\ Len(pipe) \in Nat /\ DOMAIN pipe = 1 .. Len(pipe)
      /\ pipe'[Len(pipe) + 1] = r
      /\ \A i \in DOMAIN pipe : pipe'[i] = pipe[i]
  <2>1. pipe \in Seq(Requests)
    BY DEF TypeOK
  <2> QED  BY <2>1, AppendIs
<1>4. \A i \in DOMAIN pipe' : i \in DOMAIN pipe \/ i = Len(pipe) + 1
  BY <1>3
<1>5. r.m # 0 => /\ r.m \in 1 .. nmsg /\ from[r.m].cmd = r.cmd /\ from[r.m].id = r.id
                 /\ \A x \in 1 .. nmsg : Precedes(x, r.m, from)
  <2> SUFFICES ASSUME NEW v \in Worker, r = job[v], r.m # 0
               PROVE  /\ r.m \in 1 .. nmsg /\ from[r.m].cmd = r.cmd /\ from[r.m].id = r.id
                      /\ \A x \in 1 .. nmsg : Precedes(x, r.m, from)
    OBVIOUS
  <2>1. JobOf(r, v, from, nmsg)
    BY DEF SentInv
  <2> QED  BY <2>1 DEF JobOf, Precedes
<1>6. Passes
  <2> SUFFICES ASSUME NEW S \in SUBSET (1 .. nmsg), Ahead(S, pipe, from), NEW j \in DOMAIN pipe', pipe'[j].m # 0,
                      NEW x \in S
               PROVE  Precedes(x, pipe'[j].m, from')
    BY DEF Passes, Ahead, Before
  <2>1. CASE j \in DOMAIN pipe
    BY <1>3, <2>1 DEF Ahead, Before, Precedes
  <2>2. CASE j = Len(pipe) + 1
    BY <1>3, <1>5, <2>2 DEF Precedes
  <2> QED  BY <1>4, <2>1, <2>2
<1>7. PipeOf(pipe', from', nmsg')
  <2>1. \A i \in DOMAIN pipe' : pipe'[i].m # 0 =>
            pipe'[i].m \in 1 .. nmsg /\ from[pipe'[i].m].cmd = pipe'[i].cmd /\ from[pipe'[i].m].id = pipe'[i].id
    BY <1>3, <1>4, <1>5 DEF SentInv, PipeOf
  <2>2. ASSUME NEW i \in DOMAIN pipe', NEW j \in DOMAIN pipe', i < j, pipe'[i].m # 0, pipe'[j].m # 0
        PROVE  Precedes(pipe'[i].m, pipe'[j].m, from)
    <3>1. i \in DOMAIN pipe
      BY <1>3, <1>4, <2>2
    <3>2. CASE j \in DOMAIN pipe
      BY <1>3, <2>2, <3>1, <3>2 DEF SentInv, PipeOf
    <3>3. CASE j = Len(pipe) + 1
      BY <1>3, <1>5, <2>1, <2>2, <3>3
    <3> QED  BY <1>4, <3>2, <3>3
  <2> QED  BY <2>1, <2>2 DEF PipeOf
<1>8. NoReq.m = 0
  BY DEF NoReq, Req
<1>9. \A v \in Worker : JobOf(job'[v], v, from', nmsg')
  BY <1>8 DEF SentInv, JobOf
<1> QED  BY <1>2, <1>6, <1>7, <1>9 DEF SentInv

(* A worker sends one more message. *)
LEMMA SentMore ==
    ASSUME TypeOK, SentInv, UNCHANGED <<pipe, cut>>, NEW w \in Worker, NEW cmd \in Sending, NEW id \in Id,
           nmsg' = nmsg + 1, nmsg' \in Msg, from' = [from EXCEPT ![nmsg'] = [who |-> w, cmd |-> cmd, id |-> id]],
           \A v \in Worker : v # w => job'[v] = job[v],
           job'[w] = Req(cmd, id, nmsg') \/ job'[w] = NoReq
    PROVE  SentInv' /\ Grows /\ Passes
<1>1. nmsg \in Nat /\ nmsg + 1 \in Nat /\ nmsg <= nmsg + 1
  <2>1. nmsg \in 0 .. MaxMsg
    BY DEF TypeOK
  <2> QED  BY <2>1
<1>2. /\ from'[nmsg + 1].who = w /\ from'[nmsg + 1].cmd = cmd /\ from'[nmsg + 1].id = id
      /\ \A m \in Msg : m # nmsg + 1 => from'[m] = from[m]
  BY DEF TypeOK
<1>3. \A m \in 1 .. nmsg : m \in Msg /\ m # nmsg + 1
  BY <1>1, SocketAssumption DEF Msg
<1>4. \A m \in 1 .. nmsg : from'[m] = from[m]
  BY <1>2, <1>3
<1>5. Grows
  <2>1. from[nmsg + 1].cmd = ""
    <3>1. nmsg < nmsg + 1
      BY <1>1
    <3> QED  BY <3>1 DEF SentInv, Unsent
  <2> QED  BY <1>1, <1>2, <1>4, <2>1 DEF Grows
<1>6. \A j \in DOMAIN pipe : pipe[j].m # 0 => pipe[j].m \in 1 .. nmsg
  BY DEF SentInv, PipeOf
<1>7. \A x, y \in 1 .. nmsg : Precedes(x, y, from) => Precedes(x, y, from')
  BY <1>4 DEF Precedes
<1>8. Passes
  <2> SUFFICES ASSUME NEW S \in SUBSET (1 .. nmsg), Ahead(S, pipe, from), NEW j \in DOMAIN pipe, pipe[j].m # 0,
                      NEW x \in S
               PROVE  Precedes(x, pipe[j].m, from')
    BY DEF Passes, Ahead, Before
  <2>1. Precedes(x, pipe[j].m, from)
    BY DEF Ahead, Before
  <2> QED  BY <1>6, <1>7, <2>1
<1>9. \A y \in 1 .. nmsg : y \in 1 .. nmsg + 1
  BY <1>1
<1>10. PipeOf(pipe', from', nmsg')
  <2>1. \A i \in DOMAIN pipe : pipe[i].m # 0 =>
            /\ pipe[i].m \in 1 .. nmsg /\ pipe[i].m \in 1 .. nmsg + 1
            /\ from'[pipe[i].m].cmd = pipe[i].cmd /\ from'[pipe[i].m].id = pipe[i].id
    BY <1>4, <1>6, <1>9 DEF SentInv, PipeOf
  <2>2. \A i, j \in DOMAIN pipe : i < j /\ pipe[i].m # 0 /\ pipe[j].m # 0 => Precedes(pipe[i].m, pipe[j].m, from')
    BY <1>6, <1>7 DEF SentInv, PipeOf
  <2> QED  BY <2>1, <2>2 DEF PipeOf
<1>11. Unsent(from', nmsg')
  <2> SUFFICES ASSUME NEW m \in Msg, nmsg + 1 < m PROVE from'[m].cmd = ""
    BY DEF Unsent
  <2>1. m # nmsg + 1 /\ nmsg < m
    BY <1>1, SocketAssumption DEF Msg
  <2> QED  BY <1>2, <2>1 DEF SentInv, Unsent
<1>12. ASSUME NEW v \in Worker PROVE JobOf(job'[v], v, from', nmsg')
  <2>0. \A x \in 1 .. nmsg + 1 : x \in 1 .. nmsg \/ x = nmsg + 1
    BY <1>1
  <2>1. CASE v = w /\ job'[v] = NoReq
    <3>1. NoReq.m = 0
      BY DEF NoReq, Req
    <3> QED  BY <2>1, <3>1 DEF JobOf
  <2>2. CASE v = w /\ job'[v] = Req(cmd, id, nmsg')
    <3>1. job'[v].m = nmsg + 1 /\ job'[v].cmd = cmd /\ job'[v].id = id
      BY <2>2 DEF Req
    <3>2. nmsg + 1 \in 1 .. nmsg + 1 /\ \A x \in 1 .. nmsg + 1 : x <= nmsg + 1
      BY <1>1
    <3> QED  BY <1>2, <2>2, <3>1, <3>2 DEF JobOf
  <2>3. CASE v # w
    <3> SUFFICES ASSUME job[v].m # 0 PROVE JobOf(job[v], v, from', nmsg')
      BY <2>3 DEF JobOf
    <3>1. JobOf(job[v], v, from, nmsg)
      BY DEF SentInv
    <3>2. PICK j : j = job[v]
      OBVIOUS
    <3>3. /\ j.m \in 1 .. nmsg /\ from'[j.m].who = v /\ from'[j.m].cmd = j.cmd /\ from'[j.m].id = j.id
          /\ \A x \in 1 .. nmsg : from[x].who = v => x <= j.m
      BY <1>4, <3>1, <3>2 DEF JobOf
    <3>4. \A x \in 1 .. nmsg + 1 : from'[x].who = v => x <= j.m
      BY <1>2, <1>4, <2>0, <2>3, <3>3
    <3> QED  BY <1>9, <3>2, <3>3, <3>4 DEF JobOf
  <2> QED  BY <2>1, <2>2, <2>3
<1> QED  BY <1>5, <1>8, <1>10, <1>11, <1>12 DEF SentInv

(* No step gives an id a second time. *)
LEMMA DueKept ==
    ASSUME TypeOK, TypeOK', alloc_id <= alloc_id',
           \A v \in Worker : Held(v)' => alloc_id < job'[v].id \/ (Held(v) /\ job'[v].id = job[v].id),
           \A i \in DOMAIN pipe' : Asks(i)' =>
               \/ \E v \in Worker : Held(v) /\ job[v].id = pipe'[i].id
               \/ \E j \in DOMAIN pipe : Asks(j) /\ pipe[j].id = pipe'[i].id
    PROVE  \A id \in Id : Due(id)' => Due(id)
<1> SUFFICES ASSUME NEW id \in Id, Due(id)' PROVE Due(id)
  OBVIOUS
<1>1. CASE alloc_id' < id
  <2>1. alloc_id \in 0 .. MaxId /\ alloc_id' \in 0 .. MaxId
    BY DEF TypeOK
  <2>2. alloc_id < id
    BY <1>1, <2>1, SocketAssumption DEF Id
  <2> QED  BY <2>2 DEF Due
<1>2. CASE \E v \in Worker : Held(v)' /\ job'[v].id = id
  BY <1>2 DEF Due
<1>3. CASE \E i \in DOMAIN pipe' : Asks(i)' /\ pipe'[i].id = id
  BY <1>3 DEF Due
<1> QED  BY <1>1, <1>2, <1>3 DEF Due

(* The socket thread reserves no id, but for that of a client. *)
LEMMA DueThread ==
    ASSUME TypeOK, TypeOK', alloc_id <= alloc_id', UNCHANGED workerVars,
           pipe' = pipe \/ (pipe # <<>> /\ pipe' = Tail(pipe))
    PROVE  \A id \in Id : Due(id)' => Due(id)
<1>1. \A v \in Worker : Held(v)' => Held(v) /\ job'[v].id = job[v].id
  BY DEF Held, workerVars
<1>2. pipe \in Seq(Requests)
  BY DEF TypeOK
<1>3. \A i \in DOMAIN pipe' : \E j \in DOMAIN pipe : pipe'[i] = pipe[j]
  BY <1>2, TailIs
<1>4. \A i \in DOMAIN pipe' : Asks(i)' => \E j \in DOMAIN pipe : Asks(j) /\ pipe[j].id = pipe'[i].id
  BY <1>3 DEF Asks
<1> QED  BY <1>1, <1>4, DueKept


(* A message goes behind a stream, before the requests of the pipe. *)
LEMMA AheadMore ==
    ASSUME NEW S, NEW m, NEW p, NEW f, Ahead(S, p, f), Ahead({m}, p, f), NEW T, T = S \cup {m}
    PROVE  Ahead(T, p, f)
BY DEF Ahead, Before

(* A worker writes a message, or a part of it. *)
LEMMA DirectFlow ==
    ASSUME ~Early, TypeOK, OwnersInv, CountedInv, FlowInv, NEW w \in Worker, DirectWrite(w), at'[w] = "idle"
    PROVE  LET k == Hash(job[w].id)
               id == sock[k].id
           IN  /\ OneSlot(k) /\ sock[k].type \in Open
               /\ \A y \in Id : y # id => wire'[y] = wire[y]
               /\ Kept(wire'[id], id, from, nmsg, cut)
               /\ sock'[k].id = id /\ Flow(sock'[k], wire'[id], pipe, from, nmsg, cut)
<1>j. /\ job[w] \in Requests /\ job[w].id \in 0 .. MaxId /\ Hash(job[w].id) \in Slot
      /\ at[w] \in {"try", "locked"} => job[w].cmd = "D" /\ job[w].m \in Msg
  BY JobTypes
<1>0. PICK j \in Requests : j = job[w]
  BY <1>j
<1>1. PICK m, id : m = j.m /\ id = j.id
  OBVIOUS
<1>2. PICK k \in Slot : k = Hash(id)
  BY <1>j, <1>0, <1>1
<1>3. PICK x : x = [m |-> m, off |-> 0]
  OBVIOUS
<1>4. PICK s, t : s = sock[k] /\ t = sock'[k]
  OBVIOUS
<1>5. /\ at[w] = "locked" /\ x \in Buf /\ OneSlot(k) /\ t.type = s.type /\ SameName(s, t) /\ CanDirectWrite(s, id)
      /\ \/ SameLists(s, t) /\ wire' = [wire EXCEPT ![id] = @ \o PartOf(x, Size)]
         \/ \E n \in 0 .. Size - 1 :
               /\ t.high = s.high /\ t.low = s.low /\ t.dw = <<[m |-> m, off |-> n]>> /\ [m |-> m, off |-> n] \in Buf
               /\ wire' = [wire EXCEPT ![id] = @ \o PartOf(x, n)]
  <2>1. \/ Goes(w, "inc", job[w])
        \/ /\ CanDirectWrite(s, id)
           /\ \/ SameLists(s, t) /\ wire' = [wire EXCEPT ![id] = @ \o PartOf(x, Size)]
              \/ \E n \in 0 .. Size - 1 :
                   /\ t.high = s.high /\ t.low = s.low /\ t.dw = <<[m |-> m, off |-> n]>> /\ [m |-> m, off |-> n] \in Buf
                   /\ wire' = [wire EXCEPT ![id] = @ \o PartOf(x, n)]
    BY <1>0, <1>1, <1>2, <1>3, <1>4, DirectWriteEffect DEF Keeps
  <2>2. at[w] = "locked" /\ x \in Buf /\ OneSlot(k) /\ t.type = s.type /\ SameName(s, t)
    BY <1>0, <1>1, <1>2, <1>3, <1>4, DirectWriteEffect
  <2>3. ~Goes(w, "inc", job[w])
    BY DEF Goes
  <2> QED  BY <2>1, <2>2, <2>3
<1>6. /\ s.id = id /\ s.type = "CONNECTED" /\ s.high = <<>> /\ s.low = <<>> /\ s.dw = <<>> /\ s.sending = 0
      /\ m \in Msg /\ j.cmd = "D" /\ s \in Socket /\ t \in Socket
  <2>1. s.id = id /\ s.type = "CONNECTED" /\ s.high = <<>> /\ s.low = <<>> /\ s.dw = <<>> /\ s.sending = 0
    BY <1>5 DEF CanDirectWrite, NomoreSendingData, SendBufferEmpty
  <2>2. m \in Msg /\ j.cmd = "D"
    BY <1>j, <1>0, <1>1, <1>5
  <2>3. s \in Socket /\ t \in Socket
    BY <1>4, <1>5 DEF OneSlot, TypeOK
  <2> QED  BY <2>1, <2>2, <2>3
<1>7. s.type \in Open /\ id \in Id /\ wire[id] \in Seq(Unit) /\ s.protocol = "TCP"
  <2>1. s.type \in Open
    BY <1>6 DEF Open, Types
  <2> QED  BY <1>4, <1>6, <2>1, OpenIs
<1>8. PICK v0 \in Seq(Unit) : v0 = wire[id]
  BY <1>7
<1>9. Flow(s, v0, pipe, from, nmsg, cut)
  BY <1>4, <1>6, <1>7, <1>8 DEF FlowInv
<1>10. PICK n \in Nat : /\ wire' = [wire EXCEPT ![id] = @ \o PartOf(x, n)]
                        /\ t.high = <<>> /\ t.low = <<>>
                        /\ \/ n = Size /\ t.dw = <<>>
                           \/ n < Size /\ [m |-> m, off |-> n] \in Buf /\ t.dw = <<[m |-> m, off |-> n]>>
  <2>1. CASE SameLists(s, t) /\ wire' = [wire EXCEPT ![id] = @ \o PartOf(x, Size)]
    BY <1>6, <2>1, SocketAssumption DEF SameLists
  <2>2. ASSUME NEW n \in 0 .. Size - 1, t.high = s.high, t.low = s.low, t.dw = <<[m |-> m, off |-> n]>>,
               [m |-> m, off |-> n] \in Buf, wire' = [wire EXCEPT ![id] = @ \o PartOf(x, n)]
        PROVE  /\ n \in Nat /\ wire' = [wire EXCEPT ![id] = @ \o PartOf(x, n)]
               /\ t.high = <<>> /\ t.low = <<>>
               /\ n < Size /\ [m |-> m, off |-> n] \in Buf /\ t.dw = <<[m |-> m, off |-> n]>>
    <3>1. n \in Nat /\ n < Size
      BY SocketAssumption
    <3> QED  BY <1>6, <2>2, <3>1
  <2> QED  BY <1>5, <2>1, <2>2
<1>11. PICK v, q : v = v0 \o PartOf(x, n) /\ q = v0 \o Message(m)
  OBVIOUS
<1>12. /\ v \in Seq(Unit) /\ Stream(v0, s) = v0 /\ Stream(v, t) = q
       /\ \E b \in Seq(Unit) : q = v \o b
  <2>1. DirectOf(v0, s, t, m, n, x, v, q)
    BY <1>3, <1>6, <1>10, <1>11 DEF DirectOf
  <2>2. DirectTo(v0, s, t, v, q)
    BY <1>5, <1>6, <2>1, DirectStream
  <2> QED  BY <2>2 DEF DirectTo
<1>13. wire'[id] = v /\ \A y \in Id : y # id => wire'[y] = wire[y]
  <2>1. wire \in [Id -> Seq(Unit)]
    BY DEF TypeOK
  <2> QED  BY <1>7, <1>8, <1>10, <1>11, <2>1
<1>14. /\ m \in 1 .. nmsg /\ from[m].who = w /\ from[m].cmd = "D" /\ from[m].id = id
       /\ \A y \in 1 .. nmsg : from[y].who = w => y <= m
  <2>1. JobOf(j, w, from, nmsg)
    BY <1>0 DEF FlowInv, SentInv
  <2>2. j.m # 0
    BY <1>1, <1>6, SocketAssumption DEF Msg
  <2> QED  BY <1>1, <1>6, <2>1, <2>2 DEF JobOf
<1>15. MoreFits(v0, m, id, from, nmsg, cut)
  <2>1. Ended(v0, id, from, nmsg, cut)
    BY <1>6, <1>9, <1>12 DEF Flow
  <2>2. MsgsOf(v0) \subseteq 1 .. nmsg
    BY <2>1 DEF Ended, Mine
  <2>3. Before(MsgsOf(v0), {m}, from)
    BY <1>14, <2>2 DEF Before, Precedes
  <2>4. Mine({m}, id, from, nmsg)
    BY <1>14 DEF Mine
  <2> QED  BY <2>1, <2>3, <2>4 DEF MoreFits
<1>16. Ended(q, id, from, nmsg, cut) /\ MsgsOf(q) = MsgsOf(v0) \cup {m}
  <2>1. MoreDone(v0, m, id, from, nmsg, cut)
    BY <1>6, <1>15, EndedMore
  <2>2. q = Two(v0, Message(m))
    BY <1>11 DEF Two
  <2> QED  BY <2>1, <2>2 DEF MoreDone
<1>17. Ahead({m}, pipe, from)
  <2>1. InFlight(id) = 0 /\ InFlight(id) = Count(pipe, SendReq(id)) + Cardinality(Flyers(at, job, id))
        /\ Count(pipe, SendReq(id)) \in Nat /\ Cardinality(Flyers(at, job, id)) \in Nat
    BY <1>4, <1>6, <1>7, FlightIs, FlightNow DEF CountedInv
  <2>2. Count(pipe, SendReq(id)) = 0
    BY <2>1
  <2>3. IsFiniteSet(Where(pipe, SendReq(id))) /\ Cardinality(Where(pipe, SendReq(id))) = 0
    <3>1. pipe \in Seq(Requests)
      BY DEF TypeOK
    <3> QED  BY <2>2, <3>1, CountType DEF Count
  <2>4. Where(pipe, SendReq(id)) = {}
    BY <2>3, FS_EmptySet
  <2>5. ASSUME NEW i \in DOMAIN pipe, pipe[i].m # 0 PROVE from[m] # from[pipe[i].m]
    <3>1. pipe[i] \in Requests
      <4>1. pipe \in Seq(Requests)
        BY DEF TypeOK
      <4> QED  BY <4>1, ElementOfSeq
    <3>2. pipe[i].cmd \in Sending
      BY <2>5, <3>1 DEF Requests
    <3>3. ~Sends(pipe[i], id)
      BY <2>4, <3>1 DEF Where, SendReq
    <3>4. pipe[i].id # id
      BY <3>2, <3>3 DEF Sends, Sending
    <3>5. from[pipe[i].m].id = pipe[i].id
      BY <2>5 DEF FlowInv, SentInv, PipeOf
    <3> QED  BY <1>14, <3>4, <3>5
  <2> QED  BY <2>5 DEF Ahead, Before, Precedes
<1>18. Ahead(MsgsOf(q), pipe, from)
  <2>1. Ahead(MsgsOf(v0), pipe, from)
    BY <1>9, <1>12 DEF Flow
  <2> QED  BY <1>16, <1>17, <2>1, AheadMore
<1>19. Flow(t, v, pipe, from, nmsg, cut) /\ t.id = id
  <2>1. t.id = id
    BY <1>5, <1>6 DEF SameName
  <2>2. Lows(t.low, from)
    BY <1>10 DEF Lows
  <2> QED  BY <1>12, <1>16, <1>18, <2>1, <2>2 DEF Flow
<1>20. Kept(v, id, from, nmsg, cut)
  <2>1. PICK b \in Seq(Unit) : q = v \o b
    BY <1>12
  <2>2. Kept(v \o b, id, from, nmsg, cut)
    <3>1. Kept(q, id, from, nmsg, cut)
      BY <1>16, EndedKept, Zenon
    <3> QED  BY <2>1, <3>1, Zenon
  <2> QED  BY <1>12, <2>2, KeptFront
<1> QED  BY <1>0, <1>1, <1>2, <1>4, <1>5, <1>6, <1>7, <1>13, <1>19, <1>20, SMTT(30)


(* Every step of a worker keeps the streams. *)
LEMMA FlowWorker ==
    ASSUME ~Early, TypeOK, OwnersInv, OwnersInv', PlacesInv, CountedInv, FlowInv,
           NEW w \in Worker, Request(w) \/ WorkerStep(w)
    PROVE  FlowInv'
<1>o. HoldersInv /\ JobsInv /\ NamesInv
  BY DEF OwnersInv
<1>t. TypeOK' /\ sock \in [Slot -> Socket] /\ pipe \in Seq(Requests)
  <2>1. TypeOK'
    BY WorkerTypes
  <2> QED  BY <2>1 DEF TypeOK
<1>n. alloc_id \in Nat /\ alloc_id <= alloc_id /\ SentInv
  <2>1. alloc_id \in 0 .. MaxId
    BY DEF TypeOK
  <2> QED  BY <2>1 DEF FlowInv
<1>j. /\ job[w] \in Requests /\ job[w].id \in Nat /\ job[w].id \in 0 .. MaxId /\ Hash(job[w].id) \in Slot
      /\ at[w] = "idle" => job[w] = NoReq
      /\ job[w].cmd \in Sending <=> job[w].m # 0
      /\ job[w].cmd \in Opening => job[w].m = 0
  BY JobTypes DEF PlacesInv
<1>r. \A cmd, id, m : Req(cmd, id, m).cmd = cmd /\ Req(cmd, id, m).id = id /\ Req(cmd, id, m).m = m
  BY DEF Req
<1>k. PICK k \in Slot : k = Hash(job[w].id)
  BY <1>j
<1>u. UNCHANGED sock => OneSlot(k) /\ SameLists(sock[k], sock'[k]) /\ sock'[k].type = sock[k].type /\ sock'[k].id = sock[k].id
  BY <1>t DEF OneSlot, SameLists
<1>p. UNCHANGED pipe => \A i \in DOMAIN pipe' : Asks(i)' => \E h \in DOMAIN pipe : Asks(h) /\ pipe[h].id = pipe'[i].id
  BY DEF Asks
<1>h. ASSUME NEW a, NEW j, Goes(w, a, j), a \notin {"reserve", "pipe"} \/ j.m # 0
      PROVE  \A v \in Worker : Held(v)' => Held(v) /\ job'[v].id = job[v].id
  BY <1>h DEF Held, Goes
<1>1. ASSUME NEW cmd \in Kinds, Reserve(w, cmd) PROVE FlowInv'
  <2>1. PICK id \in Id :
               /\ alloc_id < id /\ alloc_id' = id /\ sock[Hash(id)].type = "INVALID" /\ Hash(id) \in Slot
               /\ Keeps(Hash(id)) /\ sock'[Hash(id)].type = "RESERVE" /\ sock'[Hash(id)].lock = sock[Hash(id)].lock
               /\ at[w] = "idle" /\ Goes(w, "reserve", Req(cmd, id, 0)) /\ cmd \in Opening
               /\ UNCHANGED <<pipe, threadVars, nmsg, nctl, from, told, freed, wire, marks, failed>>
    BY <1>1, ReserveEffect
  <2>2. PICK h \in Slot : h = Hash(id)
    BY <2>1
  <2>3. OneSlot(h) /\ SameLists(sock[h], sock'[h]) /\ sock'[h].type \notin Open
    BY <2>1, <2>2 DEF Keeps, Open
  <2>4. PICK j : j = Req(cmd, id, 0)
    OBVIOUS
  <2>5. Goes(w, "reserve", j) /\ j.m = 0 /\ j.id = id
    BY <1>r, <2>1, <2>4
  <2>6. JobOf(j, w, from, nmsg)
    BY <2>5 DEF JobOf
  <2>7. alloc_id <= alloc_id'
    BY <1>n, <2>1 DEF Id
  <2>8. \A v \in Worker : Held(v)' => alloc_id < job'[v].id \/ (Held(v) /\ job'[v].id = job[v].id)
    BY <2>1, <2>5 DEF Goes, Held
  <2>9. \A x \in Id : Due(x)' => Due(x)
    BY <1>t, <1>p, <2>1, <2>7, <2>8, DueKept
  <2>10. SentInv' /\ Grows /\ Passes
    <3>1. Grows /\ Passes
      <4>1. nmsg \in Nat /\ nmsg <= nmsg
        <5>1. nmsg \in 0 .. MaxMsg
          BY DEF TypeOK
        <5> QED  BY <5>1
      <4> QED  BY <2>1, <4>1 DEF Grows, Passes, marks
    <3>2. SentInv'
      BY <1>n, <2>1, <2>5, <2>6 DEF SentInv, Goes
    <3> QED  BY <3>1, <3>2
  <2> QED  BY <1>t, <2>1, <2>3, <2>9, <2>10, FlowStays
<1>2. CASE ReserveSet(w)
  <2>1. /\ at[w] = "reserve" /\ Goes(w, "pipe", job[w]) /\ OneSlot(k) /\ sock'[k].type = sock[k].type
        /\ SameLists(sock[k], sock'[k])
        /\ UNCHANGED <<pipe, from, nmsg, alloc_id, cut, wire>>
    BY <1>2, <1>k, ReserveSetEffect DEF marks, bounds
  <2>2. Held(w)
    BY <1>o, <2>1 DEF JobsInv, Held
  <2>3. sock[k].type = "RESERVE"
    BY <1>o, <1>k, <2>2 DEF HoldersInv, Reserved
  <2>4. \A v \in Worker : Held(v)' => Held(v) /\ job'[v].id = job[v].id
    BY <2>1, <2>2 DEF Held, Goes
  <2>5. \A x \in Id : Due(x)' => Due(x)
    BY <1>t, <1>n, <1>p, <2>1, <2>4, DueKept
  <2>6. SentInv' /\ Grows /\ Passes
    <3>1. \A v \in Worker : job'[v] = job[v] \/ job'[v] = NoReq
      BY <2>1 DEF Goes
    <3> QED  BY <1>n, <2>1, <3>1, SentKept
  <2>7. sock'[k].type \notin Open
    BY <2>1, <2>3 DEF Open
  <2> QED  BY <1>t, <2>1, <2>5, <2>6, <2>7, FlowStays
<1>3. CASE SendRequest(w)
  <2>1. /\ at[w] = "pipe" /\ Goes(w, "idle", NoReq) /\ pipe' = Append(pipe, job[w])
        /\ UNCHANGED <<sock, from, nmsg, alloc_id, cut, wire>>
    BY <1>3, SendRequestEffect DEF marks, bounds
  <2>2. \A v \in Worker : Held(v)' => Held(v) /\ job'[v].id = job[v].id
    BY <1>h, <2>1
  <2>3. \A i \in DOMAIN pipe' : Asks(i)' => \/ \E v \in Worker : Held(v) /\ job[v].id = pipe'[i].id
                                            \/ \E h \in DOMAIN pipe : Asks(h) /\ pipe[h].id = pipe'[i].id
    <3>1. \A i \in DOMAIN pipe' : (pipe'[i] = job[w]) \/ (i \in DOMAIN pipe /\ pipe'[i] = pipe[i])
      BY <1>t, <1>j, <2>1
    <3>2. job[w].cmd \in Opening => Held(w)
      BY <1>j, <2>1 DEF Held
    <3> QED  BY <3>1, <3>2 DEF Asks
  <2>4. \A x \in Id : Due(x)' => Due(x)
    BY <1>t, <1>n, <2>1, <2>2, <2>3, DueKept
  <2>5. SentInv' /\ Grows /\ Passes
    <3>1. \A v \in Worker : job'[v] = job[v] \/ job'[v] = NoReq
      BY <2>1 DEF Goes
    <3> QED  BY <1>j, <1>n, <2>1, <3>1, SentPushed
  <2> QED  BY <1>t, <1>u, <2>1, <2>4, <2>5, FlowStays
<1>4. ASSUME NEW id \in Id, NEW cmd \in {"K", "Kill", "S"}, Control(w, cmd, id) PROVE FlowInv'
  <2>1. /\ pipe' = Append(pipe, Req(cmd, id, 0)) /\ UNCHANGED workerVars
        /\ UNCHANGED <<sock, from, nmsg, alloc_id, cut, wire>>
    BY <1>4 DEF Control, marks
  <2>2. Req(cmd, id, 0) \in Requests
    <3>1. id \in 0 .. MaxId
      BY SocketAssumption DEF Id
    <3>2. cmd \in {"", "S", "clear", "events"} \cup Opening \cup Closing
      BY DEF Closing
    <3> QED  BY <3>1, <3>2, ReqType, Zenon
  <2>3. PICK r \in Requests : r = Req(cmd, id, 0)
    BY <2>2
  <2>4. r.cmd \notin Opening /\ r.m = 0
    BY <1>r, <2>3 DEF Opening
  <2>5. \A i \in DOMAIN pipe' : Asks(i)' => \E h \in DOMAIN pipe : Asks(h) /\ pipe[h].id = pipe'[i].id
    <3>1. \A i \in DOMAIN pipe' : pipe'[i] = r \/ (i \in DOMAIN pipe /\ pipe'[i] = pipe[i])
      BY <1>t, <2>1, <2>3
    <3> QED  BY <2>4, <3>1 DEF Asks
  <2>6. \A v \in Worker : (Held(v)' => Held(v) /\ job'[v].id = job[v].id) /\ job'[v] = job[v]
    BY <2>1 DEF Held, workerVars
  <2>7. \A x \in Id : Due(x)' => Due(x)
    BY <1>t, <1>n, <2>1, <2>5, <2>6, DueKept
  <2>8. SentInv' /\ Grows /\ Passes
    BY <1>n, <2>1, <2>3, <2>4, <2>6, SentPushed
  <2> QED  BY <1>t, <1>u, <2>1, <2>7, <2>8, FlowStays
<1>5. ASSUME NEW id \in Id, NEW cmd \in {"D", "P"}, Send(w, cmd, id) PROVE FlowInv'
  <2>1. /\ at[w] = "idle" /\ nmsg' = nmsg + 1 /\ nmsg' \in Msg
        /\ from' = [from EXCEPT ![nmsg'] = [who |-> w, cmd |-> cmd, id |-> id]]
        /\ \/ Goes(w, IF cmd = "D" THEN "try" ELSE "inc", Req(cmd, id, nmsg'))
           \/ UNCHANGED workerVars
        /\ UNCHANGED <<sock, pipe, alloc_id, cut, wire>>
    BY <1>5, SendEffect DEF marks
  <2>2. /\ \A v \in Worker : Held(v)' => Held(v) /\ job'[v].id = job[v].id
        /\ \A v \in Worker : v # w => job'[v] = job[v]
        /\ job'[w] = Req(cmd, id, nmsg') \/ job'[w] = NoReq
    <3>1. CASE Goes(w, IF cmd = "D" THEN "try" ELSE "inc", Req(cmd, id, nmsg'))
      <4>1. PICK a : a = IF cmd = "D" THEN "try" ELSE "inc"
        OBVIOUS
      <4>2. PICK j : j = Req(cmd, id, nmsg')
        OBVIOUS
      <4>3. Goes(w, a, j) /\ a \notin {"reserve", "pipe"}
        BY <3>1, <4>1, <4>2
      <4>4. \A v \in Worker : Held(v)' => Held(v) /\ job'[v].id = job[v].id
        BY <1>h, <4>3
      <4> QED  BY <4>2, <4>3, <4>4 DEF Goes
    <3>2. CASE UNCHANGED workerVars
      BY <1>j, <2>1, <3>2 DEF Held, workerVars
    <3> QED  BY <2>1, <3>1, <3>2
  <2>3. \A x \in Id : Due(x)' => Due(x)
    BY <1>t, <1>n, <1>p, <2>1, <2>2, DueKept
  <2>4. SentInv' /\ Grows /\ Passes
    <3>1. cmd \in Sending
      BY DEF Sending
    <3> QED  BY <1>n, <2>1, <2>2, <3>1, SentMore
  <2> QED  BY <1>t, <1>u, <2>1, <2>3, <2>4, FlowStays
<1>6. CASE TryDirectWrite(w) \/ IncSendingRef(w) \/ (DirectWrite(w) /\ at'[w] # "idle")
  <2>0. at[w] = "inc" => job[w].m # 0
    BY <1>o, <1>j DEF JobsInv
  <2>1. /\ \/ Goes(w, "locked", job[w]) \/ Goes(w, "inc", job[w])
           \/ (at[w] = "inc" /\ Goes(w, "pipe", job[w]))
        /\ UNCHANGED <<pipe, from, nmsg, alloc_id, cut, wire>>
    <3>1. CASE TryDirectWrite(w)
      BY <3>1, TryEffect DEF marks, bounds
    <3>2. CASE IncSendingRef(w)
      BY <3>2, IncEffect DEF marks, bounds
    <3>3. CASE DirectWrite(w) /\ at'[w] # "idle"
      <4>1. Goes(w, "inc", job[w]) /\ UNCHANGED wire
        BY <3>3, DirectWriteEffect DEF Goes
      <4>2. UNCHANGED <<pipe, from, nmsg, alloc_id, cut>>
        BY <3>3 DEF DirectWrite, marks, bounds
      <4> QED  BY <4>1, <4>2
    <3> QED  BY <1>6, <3>1, <3>2, <3>3
  <2>2. OneSlot(k) /\ SameLists(sock[k], sock'[k]) /\ sock'[k].type = sock[k].type /\ sock'[k].id = sock[k].id
    <3>1. CASE TryDirectWrite(w)
      BY <1>k, <1>u, <3>1, TryEffect DEF Keeps, SameName
    <3>2. CASE IncSendingRef(w)
      BY <1>k, <3>2, IncEffect
    <3>3. CASE DirectWrite(w) /\ at'[w] # "idle"
      <4>1. Keeps(k) /\ sock'[k].type = sock[k].type
        BY <1>k, <3>3, DirectWriteEffect DEF Goes
      <4> QED  BY <4>1 DEF Keeps, SameName
    <3> QED  BY <1>6, <3>1, <3>2, <3>3
  <2>3. PICK a, j : Goes(w, a, j) /\ (a \notin {"reserve", "pipe"} \/ j.m # 0) /\ (j = job[w] \/ j = NoReq)
    BY <2>0, <2>1
  <2>4. \A v \in Worker : Held(v)' => Held(v) /\ job'[v].id = job[v].id
    BY <1>h, <2>3
  <2>5. \A x \in Id : Due(x)' => Due(x)
    BY <1>t, <1>n, <1>p, <2>1, <2>4, DueKept
  <2>6. SentInv' /\ Grows /\ Passes
    <3>1. \A v \in Worker : job'[v] = job[v] \/ job'[v] = NoReq
      BY <2>3 DEF Goes
    <3> QED  BY <1>n, <2>1, <3>1, SentKept
  <2> QED  BY <1>t, <2>1, <2>2, <2>5, <2>6, FlowStays
<1>7. CASE DirectWrite(w) /\ at'[w] = "idle"
  <2>1. /\ Goes(w, "inc", job[w]) \/ Goes(w, "idle", NoReq)
        /\ UNCHANGED <<pipe, from, nmsg, alloc_id, cut>>
    BY <1>7, DirectWriteEffect DEF marks, bounds, DirectWrite
  <2>2. PICK a, j : Goes(w, a, j) /\ a \notin {"reserve", "pipe"} /\ (j = job[w] \/ j = NoReq)
    BY <2>1
  <2>3. \A v \in Worker : Held(v)' => Held(v) /\ job'[v].id = job[v].id
    BY <1>h, <2>2
  <2>4. \A x \in Id : Due(x)' => Due(x)
    BY <1>t, <1>n, <1>p, <2>1, <2>3, DueKept
  <2>5. SentInv' /\ Grows /\ Passes
    <3>1. \A v \in Worker : job'[v] = job[v] \/ job'[v] = NoReq
      BY <2>2 DEF Goes
    <3> QED  BY <1>n, <2>1, <3>1, SentKept
  <2>6. PICK id : id = sock[k].id
    OBVIOUS
  <2>7. /\ OneSlot(k) /\ sock[k].type \in Open
        /\ \A y \in Id : y # id => wire'[y] = wire[y]
        /\ Kept(wire'[id], id, from, nmsg, cut)
        /\ sock'[k].id = id /\ Flow(sock'[k], wire'[id], pipe, from, nmsg, cut)
    BY <1>k, <1>7, <2>6, DirectFlow
  <2>8. Flow(sock'[k], wire'[sock'[k].id], pipe', from', nmsg', cut')
    BY <2>1, <2>7
  <2>9. \A y \in Id : \/ wire'[y] = wire[y]
                      \/ sock[k].type \in Open /\ y = sock[k].id /\ Kept(wire'[y], y, from', nmsg', cut')
    BY <2>1, <2>6, <2>7
  <2> QED  BY <1>t, <2>4, <2>5, <2>7, <2>8, <2>9, FlowOne
<1> QED  BY <1>1, <1>2, <1>3, <1>4, <1>5, <1>6, <1>7 DEF Request, WorkerStep


(* force_close frees the lists of a socket. *)
LEMMA FreedFlow ==
    ASSUME TypeOK, TypeOK', OwnersInv, FlowInv, Grows, Passes, NEW k \in Slot, NEW then, FreeLists(k, then), failed' = {},
           UNCHANGED wire, sock'[k].type \in Open
    PROVE  Flow(sock'[k], wire'[sock'[k].id], pipe', from', nmsg', cut')
<1>1. PICK s, t : s = sock[k] /\ t = sock'[k]
  OBVIOUS
<1>2. /\ t.high = <<>> /\ t.low = <<>> /\ t.dw = s.dw /\ t.type = s.type /\ SameName(s, t)
      /\ cut' = IF s.high # <<>> /\ Head(s.high).off > 0 THEN cut \cup {s.id} ELSE cut
  BY <1>1, FreeListsEffect
<1>3. s \in Socket /\ t \in Socket /\ s.type \in Open /\ t.id = s.id
  <2>1. s \in Socket /\ t \in Socket
    BY <1>1 DEF TypeOK
  <2> QED  BY <1>1, <1>2, <2>1 DEF SameName
<1>4. PICK w \in Seq(Unit) : w = wire[s.id]
  BY <1>1, <1>3, OpenIs
<1>5. Flow(s, w, pipe, from, nmsg, cut)
  BY <1>1, <1>3, <1>4 DEF FlowInv
<1>6. Flow(s, w, pipe', from', nmsg', cut')
  BY <1>3, <1>5, FlowGoes
<1>7. PICK f, n, c, p : f = from' /\ n = nmsg' /\ c = cut' /\ p = pipe'
  OBVIOUS
<1>8. Ended(Stream(w, s), s.id, f, n, c) /\ Ahead(MsgsOf(Stream(w, s)), p, f) /\ Lows(s.low, f)
  BY <1>6, <1>7 DEF Flow
<1>9. s.id \in c \/ s.high = <<>> \/ ~(Head(s.high).off > 0)
  BY <1>2, <1>7
<1>10. FreedOf(w, s, t, s.id, f, n, c)
  BY <1>2, <1>8, <1>9 DEF FreedOf
<1>11. Ended(Stream(w, t), s.id, f, n, c) /\ MsgsOf(Stream(w, t)) \subseteq MsgsOf(Stream(w, s))
  BY <1>3, <1>10, FreedStream
<1>12. Ahead(MsgsOf(Stream(w, t)), p, f)
  BY <1>8, <1>11 DEF Ahead, Before
<1>13. Lows(t.low, f)
  BY <1>2 DEF Lows
<1>14. Flow(t, w, p, f, n, c)
  BY <1>3, <1>11, <1>12, <1>13 DEF Flow
<1> QED  BY <1>1, <1>3, <1>4, <1>7, <1>14

(* The socket thread writes what the network takes of what is queued. *)
LEMMA BufferFlow ==
    ASSUME TypeOK, TypeOK', OwnersInv, FlowInv, Grows, Passes, NEW k \in Slot, NEW n \in Nat, NEW err, NEW ifClosed, NEW ifNot,
           SendBuffer(k, n, err, ifClosed, ifNot), sock[k].type \in Open
    PROVE  LET id == sock[k].id
           IN  /\ OneSlot(k) /\ sock'[k].id = id
               /\ \A y \in Id : y # id => wire'[y] = wire[y]
               /\ Kept(wire'[id], id, from', nmsg', cut')
               /\ sock'[k].type \in Open => Flow(sock'[k], wire'[id], pipe', from', nmsg', cut')
<1>1. PICK s, u : s = sock[k] /\ u = sock'[k]
  OBVIOUS
<1>2. PICK r, e : r = WithDirectWrite(s) /\ e = Sent(r, n)
  OBVIOUS
<1>3. PICK id : id = s.id
  OBVIOUS
<1>4. /\ OneSlot(k) /\ r \in Socket /\ e \in Socket /\ n <= Left(r.high) + Left(r.low) /\ SameName(s, u)
      /\ u.type = "INVALID" \/ (u.high = e.high /\ u.low = e.low /\ u.dw = <<>>)
      /\ wire' = [wire EXCEPT ![id] = @ \o SubSeq(Units(r.high \o r.low), 1, n)]
  BY <1>1, <1>2, <1>3, SendBufferDoes
<1>5. s \in Socket /\ id \in Id /\ wire[id] \in Seq(Unit) /\ u.id = id
  BY <1>1, <1>3, <1>4, OpenIs DEF SameName
<1>6. PICK w \in Seq(Unit) : w = wire[id]
  BY <1>5
<1>7. Flow(s, w, pipe, from, nmsg, cut)
  BY <1>1, <1>3, <1>6 DEF FlowInv
<1>8. Flow(s, w, pipe', from', nmsg', cut')
  BY <1>5, <1>7, FlowGoes
<1>9. PICK f, z, c, p : f = from' /\ z = nmsg' /\ c = cut' /\ p = pipe'
  OBVIOUS
<1>10. Ended(Stream(w, s), id, f, z, c) /\ Ahead(MsgsOf(Stream(w, s)), p, f) /\ Lows(s.low, f)
  BY <1>3, <1>8, <1>9 DEF Flow
<1>11. PICK v : v = w \o SubSeq(Units(r.high \o r.low), 1, n)
  OBVIOUS
<1>12. wire'[id] = v /\ \A y \in Id : y # id => wire'[y] = wire[y]
  <2>1. wire \in [Id -> Seq(Unit)]
    BY DEF TypeOK
  <2> QED  BY <1>4, <1>5, <1>6, <1>11, <2>1
<1>13. SentFrom(w, s, r, e, n, v, f)
  BY <1>2, <1>4, <1>10, <1>11 DEF SentFrom
<1>14. SentTo(w, s, e, v, f)
  BY <1>4, <1>5, <1>13, SentStream
<1>15. v \in Seq(Unit) /\ Stream(v, e) = Stream(w, s) /\ Lows(e.low, f) /\ e.dw = <<>>
  BY <1>14 DEF SentTo
<1>16. Kept(v, id, f, z, c)
  <2>1. PICK b \in Seq(Unit) : Stream(w, s) = v \o b
    BY <1>14 DEF SentTo
  <2>2. Kept(v \o b, id, f, z, c)
    BY <1>10, <2>1, EndedKept
  <2> QED  BY <1>15, <2>2, KeptFront
<1>17. ASSUME u.type \in Open PROVE Flow(u, v, p, f, z, c)
  <2>1. u.high = e.high /\ u.low = e.low /\ u.dw = e.dw
    BY <1>4, <1>15, <1>17 DEF Open
  <2>2. Stream(v, u) = Stream(w, s)
    BY <1>15, <2>1 DEF Stream
  <2> QED  BY <1>5, <1>10, <1>15, <2>1, <2>2 DEF Flow
<1> QED  BY <1>1, <1>3, <1>4, <1>5, <1>9, <1>12, <1>16, <1>17

(* The socket thread queues a message. *)
LEMMA QueueFlow ==
    ASSUME TypeOK, TypeOK', OwnersInv, FlowInv, Grows, SentInv', SendSocket, Sound', pipe # <<>>, Cmd.m \in Msg,
           UNCHANGED <<from, nmsg, cut, wire>>, pipe' = Tail(pipe), NEW k \in Slot, k = Hash(Cmd.id), sock'[k].type \in Open
    PROVE  Flow(sock'[k], wire'[sock'[k].id], pipe', from', nmsg', cut')
<1>1. PICK s, t : s = sock[k] /\ t = sock'[k]
  OBVIOUS
<1>2. PICK m, id : m = Cmd.m /\ id = Cmd.id
  OBVIOUS
<1>3. PICK x : x = [m |-> m, off |-> 0]
  OBVIOUS
<1>4. /\ t.type = s.type /\ t.id = s.id /\ t.dw = s.dw
      /\ \/ Drop(s, id) /\ SameLists(s, t)
         \/ /\ ~Drop(s, id) /\ s.high = <<>> /\ s.low = <<>> /\ t.high = <<x>> /\ t.low = <<>>
         \/ /\ ~Drop(s, id) /\ Cmd.cmd = "P" /\ t.high = s.high /\ t.low = Append(s.low, x)
         \/ /\ ~Drop(s, id) /\ Cmd.cmd # "P" /\ t.high = Append(s.high, x) /\ t.low = s.low
  BY <1>1, <1>2, <1>3, SendSocketDoes
<1>5. s \in Socket /\ t \in Socket /\ s.type \in Open
  <2>1. s \in Socket /\ t \in Socket
    BY <1>1 DEF TypeOK
  <2> QED  BY <1>1, <1>4, <2>1
<1>6. PICK w \in Seq(Unit) : w = wire[s.id]
  BY <1>1, <1>5, OpenIs
<1>7. PICK f, n, c, p : f = from /\ n = nmsg /\ c = cut /\ p = pipe'
  OBVIOUS
<1>8. Ended(Stream(w, s), s.id, f, n, c) /\ Ahead(MsgsOf(Stream(w, s)), pipe, f) /\ Lows(s.low, f)
  BY <1>1, <1>5, <1>6, <1>7 DEF FlowInv, Flow
<1>q. pipe \in Seq(Requests) /\ 1 \in DOMAIN pipe /\ Cmd = pipe[1] /\ m # 0
      /\ \A i \in DOMAIN p : i + 1 \in DOMAIN pipe /\ p[i] = pipe[i + 1] /\ i \in Nat /\ 1 < i + 1
  <2>1. pipe \in Seq(Requests)
    BY DEF TypeOK
  <2>2. m # 0
    BY <1>2, SocketAssumption DEF Msg
  <2>3. 1 \in DOMAIN pipe /\ Cmd = pipe[1] /\ \A i \in DOMAIN p : i + 1 \in DOMAIN pipe /\ p[i] = pipe[i + 1] /\ i \in Nat
    BY <1>7, <2>1, TailIs DEF Cmd
  <2>4. \A i \in DOMAIN p : i \in 1 .. Len(p)
    BY <1>7, <2>1
  <2> QED  BY <2>1, <2>2, <2>3, <2>4
<1>9. Ahead(MsgsOf(Stream(w, s)), p, f)
  BY <1>8, <1>q DEF Ahead
<1>10. CASE Drop(s, id)
  <2>1. Flow(s, w, p, f, n, c)
    BY <1>8, <1>9 DEF Flow
  <2>2. SameLists(s, t)
    BY <1>4, <1>10
  <2>3. Flow(t, w, p, f, n, c)
    BY <1>4, <2>1, <2>2, FlowLike
  <2> QED  BY <1>1, <1>4, <1>6, <1>7, <2>3
<1>11. CASE ~Drop(s, id)
  <2>1. s.id = id
    BY <1>11 DEF Drop
  <2>2. m \in Msg /\ m \in 1 .. n /\ f[m].cmd = Cmd.cmd /\ f[m].id = id /\ Ahead({m}, p, f)
    <3>1. m \in 1 .. n /\ f[m].cmd = Cmd.cmd /\ f[m].id = id
      BY <1>2, <1>7, <1>q DEF FlowInv, SentInv, PipeOf
    <3>2. ASSUME NEW i \in DOMAIN p, p[i].m # 0 PROVE Precedes(m, p[i].m, f)
      BY <1>2, <1>7, <1>q, <3>2 DEF FlowInv, SentInv, PipeOf
    <3> QED  BY <1>2, <3>1, <3>2 DEF Ahead, Before
  <2>3. MoreFits(Stream(w, s), m, id, f, n, c)
    <3>1. Before(MsgsOf(Stream(w, s)), {m}, f)
      BY <1>2, <1>8, <1>q DEF Ahead
    <3>2. Mine({m}, id, f, n)
      BY <2>2 DEF Mine
    <3> QED  BY <1>8, <2>1, <3>1, <3>2 DEF MoreFits
  <2>4. \/ t.high = Append(s.high, x) /\ t.low = s.low /\ (s.low = <<>> \/ Cmd.cmd # "P")
        \/ t.high = s.high /\ t.low = Append(s.low, x) /\ Cmd.cmd = "P"
    <3>1. Append(<<>>, x) = <<x>>
      OBVIOUS
    <3> QED  BY <1>4, <1>11, <3>1
  <2>5. MoreTo(w, s, t, m, id, f, n, c)
    <3>1. CASE t.high = Append(s.high, x) /\ t.low = s.low /\ (s.low = <<>> \/ Cmd.cmd # "P")
      <4>1. HighOf(w, s, t, m, id, f, n, c)
        BY <1>3, <1>4, <1>8, <2>2, <2>3, <3>1 DEF HighOf
      <4> QED  BY <1>5, <2>2, <4>1, HighStream
    <3>2. CASE t.high = s.high /\ t.low = Append(s.low, x) /\ Cmd.cmd = "P"
      <4>1. LowOf(w, s, t, m, id, f, n, c)
        BY <1>3, <1>4, <1>8, <2>2, <2>3, <3>2 DEF LowOf
      <4> QED  BY <1>5, <2>2, <4>1, LowStream
    <3> QED  BY <2>4, <3>1, <3>2
  <2>6. Ended(Stream(w, t), id, f, n, c) /\ MsgsOf(Stream(w, t)) = MsgsOf(Stream(w, s)) \cup {m} /\ Lows(t.low, f)
    BY <2>5 DEF MoreTo
  <2>7. Ahead(MsgsOf(Stream(w, t)), p, f)
    BY <1>9, <2>2, <2>6, AheadMore
  <2>8. Flow(t, w, p, f, n, c)
    BY <1>4, <2>1, <2>6, <2>7 DEF Flow
  <2> QED  BY <1>1, <1>4, <1>6, <1>7, <2>8
<1> QED  BY <1>10, <1>11


(* What the socket thread does not do: it sends nothing. *)
Receives ==
    /\ UNCHANGED workerVars /\ UNCHANGED <<from, nmsg>> /\ cut \subseteq cut' /\ alloc_id <= alloc_id'
    /\ pipe' = pipe \/ (pipe # <<>> /\ pipe' = Tail(pipe))

(* Each step of it is like that. *)
LEMMA ThreadReceives == ASSUME TypeOK, SocketThread PROVE Receives
<1>a. alloc_id \in Nat /\ alloc_id <= alloc_id
  <2>1. alloc_id \in 0 .. MaxId
    BY DEF TypeOK
  <2> QED  BY <2>1
<1>f. ASSUME NEW k, NEW then, FreeLists(k, then) PROVE cut \subseteq cut'
  BY <1>f DEF FreeLists
<1>1. CASE ForceClose
  BY <1>1, <1>a DEF ForceClose, Receives, bounds, marks
<1>2. CASE ClearClosedEvent \/ CtrlDone \/ Wait \/ \E e \in ev : SkipEvent(e)
  BY <1>2, <1>a DEF ClearClosedEvent, CtrlDone, Wait, SkipEvent, Receives, bounds, marks
<1>3. CASE CloseOrHalf
  <2>1. cut \subseteq cut'
    BY <1>3, <1>f DEF CloseOrHalf, marks
  <2>2. UNCHANGED workerVars /\ UNCHANGED <<from, nmsg, pipe, alloc_id>>
    BY <1>3 DEF CloseOrHalf, bounds
  <2> QED  BY <1>a, <2>1, <2>2 DEF Receives
<1>4. CASE OpenSocket
  BY <1>4, <1>a DEF OpenSocket, Command, Receives, bounds, marks
<1>5. CASE StartSocket
  <2>1. cut \subseteq cut'
    BY <1>5, <1>f DEF StartSocket, marks
  <2>2. UNCHANGED workerVars /\ UNCHANGED <<from, nmsg, alloc_id>> /\ pipe # <<>> /\ pipe' = Tail(pipe)
    BY <1>5 DEF StartSocket, Command, bounds
  <2> QED  BY <1>a, <2>1, <2>2 DEF Receives
<1>6. CASE CloseSocket
  BY <1>6, <1>a DEF CloseSocket, Command, Receives, bounds
<1>7. CASE SendSocket
  BY <1>7, <1>a DEF SendSocket, Command, Receives, bounds
<1>9. ASSUME NEW e \in ev, ReportConnect(e) PROVE Receives
  <2>1. cut \subseteq cut'
    BY <1>9, <1>f DEF ReportConnect, marks
  <2>2. UNCHANGED workerVars /\ UNCHANGED <<from, nmsg, alloc_id, pipe>>
    BY <1>9 DEF ReportConnect, bounds
  <2> QED  BY <1>a, <2>1, <2>2 DEF Receives
<1>10. ASSUME NEW e \in ev, ReportAccept(e) PROVE Receives
  <2>1. alloc_id <= alloc_id'
    <3>1. \/ UNCHANGED alloc_id
          \/ \E id \in alloc_id + 1 .. alloc_id + Slots : alloc_id' = id
      BY <1>10 DEF ReportAccept
    <3>2. ASSUME NEW id \in alloc_id + 1 .. alloc_id + Slots, alloc_id' = id
          PROVE  alloc_id <= alloc_id'
      BY <1>a, <3>2, SocketAssumption
    <3> QED  BY <1>a, <3>1, <3>2
  <2>2. UNCHANGED workerVars /\ UNCHANGED <<from, nmsg, pipe, cut>>
    BY <1>10 DEF ReportAccept, marks
  <2> QED  BY <2>1, <2>2 DEF Receives
<1>11. ASSUME NEW e \in ev, ReadEvent(e) PROVE Receives
  <2>1. cut \subseteq cut'
    BY <1>11, <1>f DEF ReadEvent, marks
  <2>2. UNCHANGED workerVars /\ UNCHANGED <<from, nmsg, alloc_id, pipe>>
    BY <1>11 DEF ReadEvent, bounds
  <2> QED  BY <1>a, <2>1, <2>2 DEF Receives
<1>12. ASSUME NEW e \in ev, NEW n \in 0 .. MaxMsg * Size, NEW err \in BOOLEAN, WriteEvent(e, n, err) PROVE Receives
  BY <1>12, <1>a DEF WriteEvent, Receives, bounds, marks
<1> QED  BY <1>1, <1>2, <1>3, <1>4, <1>5, <1>6, <1>7, <1>9, <1>10, <1>11, <1>12 DEF SocketThread

(* Every step of the socket thread keeps the streams. *)
LEMMA FlowThread ==
    ASSUME TypeOK, OwnersInv, OwnersInv', ArmedInv, FlowInv, SocketThread, Sound'
    PROVE  FlowInv'
<1>f. failed' = {} /\ ~strayed'
  BY DEF Sound
<1>o. HoldersInv /\ NamesInv /\ ClosingInv /\ \A j \in Slot : Armed(j)
  BY DEF OwnersInv, ArmedInv
<1>T. TypeOK' /\ sock \in [Slot -> Socket]
  <2>1. TypeOK'
    BY ThreadTypes
  <2> QED  BY <2>1 DEF TypeOK
<1>r. Receives
  BY ThreadReceives
<1>g. SentInv' /\ Grows /\ Passes /\ \A id \in Id : Due(id)' => Due(id)
  <2>1. \A v \in Worker : job'[v] = job[v]
    BY <1>r DEF Receives, workerVars
  <2>2. SentInv' /\ Grows /\ Passes
    BY <1>r, <2>1, SentKept DEF Receives, FlowInv
  <2>3. \A id \in Id : Due(id)' => Due(id)
    BY <1>T, <1>r, DueThread DEF Receives
  <2> QED  BY <2>2, <2>3
<1>a. ASSUME NEW j \in Slot, OneSlot(j), SameLists(sock[j], sock'[j]), UNCHANGED wire,
             sock'[j].type \in Open => sock[j].type \in Open /\ sock'[j].id = sock[j].id
      PROVE  FlowInv'
  BY <1>T, <1>a, <1>g, FlowStays
<1>b. ASSUME NEW j \in Slot, OneSlot(j), UNCHANGED wire,
             sock'[j].type \in Open => Flow(sock'[j], wire'[sock'[j].id], pipe', from', nmsg', cut')
      PROVE  FlowInv'
  BY <1>T, <1>b, <1>g, FlowOne
<1>u. ASSUME UNCHANGED sock, UNCHANGED wire PROVE FlowInv'
  <2>1. PICK j \in Slot : TRUE
    BY HashRange
  <2>2. OneSlot(j) /\ SameLists(sock[j], sock'[j])
    BY <1>T, <1>u DEF OneSlot, SameLists
  <2> QED  BY <1>a, <1>u, <2>2
<1>l. ASSUME NEW j \in Slot, NEW then, FreeLists(j, then), UNCHANGED wire PROVE FlowInv'
  <2>1. OneSlot(j)
    BY <1>l, FreeDoes
  <2>2. sock'[j].type \in Open => Flow(sock'[j], wire'[sock'[j].id], pipe', from', nmsg', cut')
    BY <1>T, <1>f, <1>g, <1>l, FreedFlow
  <2> QED  BY <1>b, <1>l, <2>1, <2>2
<1>s. ASSUME NEW j \in Slot, sock[j].type \in Open, NEW n \in Nat, NEW err, NEW ifClosed, NEW ifNot,
             SendBuffer(j, n, err, ifClosed, ifNot)
      PROVE  FlowInv'
  <2>1. PICK id : id = sock[j].id
    OBVIOUS
  <2>2. /\ OneSlot(j) /\ sock'[j].id = id
        /\ \A y \in Id : y # id => wire'[y] = wire[y]
        /\ Kept(wire'[id], id, from', nmsg', cut')
        /\ sock'[j].type \in Open => Flow(sock'[j], wire'[id], pipe', from', nmsg', cut')
    BY <1>T, <1>g, <1>s, <2>1, BufferFlow
  <2>3. \A y \in Id : \/ wire'[y] = wire[y]
                      \/ sock[j].type \in Open /\ y = sock[j].id /\ Kept(wire'[y], y, from', nmsg', cut')
    BY <1>s, <2>1, <2>2
  <2>4. sock'[j].type \in Open => Flow(sock'[j], wire'[sock'[j].id], pipe', from', nmsg', cut')
    BY <2>2
  <2> QED  BY <1>T, <1>g, <1>s, <2>2, <2>3, <2>4, FlowOne
<1>d. ASSUME NEW j \in Slot, OneSlot(j), UNCHANGED wire, NEW id \in Id, Due(id), sock'[j].id = id,
             sock'[j].dw = <<>>, sock'[j].high = <<>>, sock'[j].low = <<>>
      PROVE  FlowInv'
  <2>1. wire'[id] = <<>>
    BY <1>d DEF FlowInv, WireInv
  <2>2. PICK t : t = sock'[j]
    OBVIOUS
  <2>3. Flow(t, <<>>, pipe', from', nmsg', cut')
    BY <1>d, <2>2, FlowEmpty
  <2>4. Flow(sock'[j], wire'[sock'[j].id], pipe', from', nmsg', cut')
    BY <1>d, <2>1, <2>2, <2>3
  <2> QED  BY <1>b, <1>d, <2>4
<1>t. Hash(closing.id) \in Slot /\ alloc_id \in Nat
  <2>1. alloc_id \in 0 .. MaxId
    BY DEF TypeOK
  <2>2. closing \in Requests
    BY DEF TypeOK
  <2>3. closing.id \in Nat
    BY <2>2, RequestType
  <2> QED  BY <2>1, <2>3, HashRange
<1>c. PICK c \in Slot : c = Hash(closing.id)
  BY <1>t
<1>k. PICK k : k = Hash(Cmd.id)
  OBVIOUS
<1>q. pipe # <<>> => /\ k \in Slot /\ (Cmd.cmd \in Opening => Asks(1)) /\ 1 \in DOMAIN pipe /\ Cmd = pipe[1]
                     /\ (Cmd.cmd \in Sending => Cmd.m \in Msg)
  BY <1>k, TakenIs
<1>e. \A e \in ev : e.slot \in Slot
  BY DEF TypeOK
<1>w. ASSUME NEW type \in Types, NEW j \in Slot, sock[j].type \in Open, UNCHANGED wire,
             \/ sock' = [sock EXCEPT ![j].type = type]
             \/ sock' = [sock EXCEPT ![j].polled = TRUE, ![j].type = type]
      PROVE  FlowInv'
  <2>1. sock[j].polled \in BOOLEAN /\ sock[j].write \in BOOLEAN
    BY <1>T DEF Socket
  <2>2. OneSlot(j) /\ SameLists(sock[j], sock'[j]) /\ SameName(sock[j], sock'[j])
    BY <1>w, <2>1, TypeDoes
  <2> QED  BY <1>a, <1>w, <2>2 DEF SameName
<1>1. CASE ForceClose
  <2>1. sock' = [sock EXCEPT ![c] = Closed(@)] /\ UNCHANGED wire
    BY <1>c, <1>1 DEF ForceClose
  <2>2. OneSlot(c) /\ sock'[c].type \notin Open
    BY <2>1, ClosedDoes DEF Open
  <2> QED  BY <1>b, <2>1, <2>2
<1>2. CASE ClearClosedEvent \/ CtrlDone \/ Wait \/ \E e \in ev : SkipEvent(e)
  <2>1. UNCHANGED sock /\ UNCHANGED wire
    BY <1>2 DEF ClearClosedEvent, CtrlDone, Wait, SkipEvent
  <2> QED  BY <1>u, <2>1
<1>3. CASE CloseOrHalf
  <2>1. /\ UNCHANGED wire /\ phase = "close"
        /\ (FreeLists(c, "clear") \/ sock' = [sock EXCEPT ![c].type = "HALFCLOSE"])
    BY <1>c, <1>3 DEF CloseOrHalf
  <2>2. sock[c].type \in Open
    BY <1>c, <1>o, <2>1 DEF ClosingInv
  <2>3. "HALFCLOSE" \in Types
    BY DEF Types
  <2>4. CASE FreeLists(c, "clear")
    BY <1>l, <2>1, <2>4
  <2>5. CASE sock' = [sock EXCEPT ![c].type = "HALFCLOSE"]
    BY <1>w, <2>1, <2>2, <2>3, <2>5
  <2> QED  BY <2>1, <2>4, <2>5
<1>4. CASE OpenSocket
  <2>1. /\ pipe # <<>> /\ Cmd.cmd \in Opening /\ OneSlot(k) /\ UNCHANGED wire
        /\ \/ /\ sock'[k].id = Cmd.id /\ sock'[k].high = <<>> /\ sock'[k].low = <<>> /\ sock'[k].dw = <<>>
           \/ sock'[k].type = "INVALID"
    BY <1>k, <1>4, <1>f, OpenEffect DEF NewSlot
  <2>2. k \in Slot /\ Asks(1) /\ 1 \in DOMAIN pipe /\ Cmd = pipe[1]
    BY <1>q, <2>1
  <2>3. CASE sock'[k].type = "INVALID"
    <3>1. sock'[k].type \notin Open
      BY <2>3 DEF Open
    <3> QED  BY <1>b, <2>1, <2>2, <3>1
  <2>4. CASE sock'[k].id = Cmd.id /\ sock'[k].high = <<>> /\ sock'[k].low = <<>> /\ sock'[k].dw = <<>>
    <3>1. PICK id : id = Cmd.id
      OBVIOUS
    <3>2. id \in Id
      BY <1>o, <2>2, <3>1 DEF HoldersInv, Reserved
    <3>3. Due(id)
      BY <2>2, <3>1 DEF Due
    <3> QED  BY <1>d, <2>1, <2>2, <2>4, <3>1, <3>2, <3>3
  <2> QED  BY <2>1, <2>3, <2>4
<1>5. CASE StartSocket
  <2>1. pipe # <<>> /\ UNCHANGED wire
    BY <1>5 DEF StartSocket, Command
  <2>2. k \in Slot
    BY <1>q, <2>1
  <2>3. \/ UNCHANGED sock
        \/ FreeLists(k, "clear")
        \/ /\ sock[k].type \in {"PACCEPT", "PLISTEN"}
           /\ \E type \in {"CONNECTED", "LISTEN"} : sock' = [sock EXCEPT ![k].polled = TRUE, ![k].type = type]
    BY <1>k, <1>5 DEF StartSocket
  <2>4. CASE FreeLists(k, "clear")
    BY <1>l, <2>1, <2>2, <2>4
  <2>5. ASSUME sock[k].type \in {"PACCEPT", "PLISTEN"}, NEW type \in {"CONNECTED", "LISTEN"},
               sock' = [sock EXCEPT ![k].polled = TRUE, ![k].type = type]
        PROVE  FlowInv'
    <3>1. type \in Types /\ sock[k].type \in Open
      BY <2>5 DEF Types, Open
    <3> QED  BY <1>w, <2>1, <2>2, <2>5, <3>1
  <2> QED  BY <1>u, <2>1, <2>3, <2>4, <2>5
<1>6. CASE CloseSocket
  <2>1. pipe # <<>>
    BY <1>6 DEF CloseSocket, Command
  <2>2. k \in Slot
    BY <1>q, <2>1
  <2>3. \/ UNCHANGED sock /\ UNCHANGED wire
        \/ /\ Live(Cmd.id)
           /\ \E n \in 0 .. MaxMsg * Size, err \in BOOLEAN : SendBuffer(k, n, err, "clear", "close")
    BY <1>k, <1>6 DEF CloseSocket
  <2>4. ASSUME Live(Cmd.id), NEW n \in 0 .. MaxMsg * Size, NEW err \in BOOLEAN, SendBuffer(k, n, err, "clear", "close")
        PROVE  FlowInv'
    <3>1. n \in Nat
      OBVIOUS
    <3>2. sock[k].type # "INVALID" /\ sock[k].type # "RESERVE"
      BY <1>f, <1>k, <1>6, <2>4 DEF CloseSocket, Live
    <3>3. sock[k].type \in Open
      <4>1. sock[k].type \in Types
        BY <1>T, <2>2 DEF Socket
      <4> QED  BY <3>2, <4>1 DEF Open
    <3> QED  BY <1>s, <2>2, <2>4, <3>1, <3>3
  <2> QED  BY <1>u, <2>3, <2>4
<1>7. CASE SendSocket
  <2>1. pipe # <<>> /\ pipe' = Tail(pipe) /\ Cmd.cmd \in Sending /\ UNCHANGED <<from, nmsg, cut, wire>>
    BY <1>7 DEF SendSocket, Command, bounds, Sending
  <2>2. k \in Slot /\ Cmd.m \in Msg
    BY <1>q, <2>1
  <2>3. OneSlot(k)
    BY <1>k, <1>7, <2>2, SendSocketDoes
  <2>4. sock'[k].type \in Open => Flow(sock'[k], wire'[sock'[k].id], pipe', from', nmsg', cut')
    BY <1>k, <1>7, <1>T, <1>g, <2>1, <2>2, QueueFlow
  <2> QED  BY <1>b, <2>1, <2>2, <2>3, <2>4
<1>9. ASSUME NEW e \in ev, ReportConnect(e) PROVE FlowInv'
  <2>1. /\ UNCHANGED wire /\ e.slot \in Slot /\ sock[e.slot].type = "CONNECTING"
        /\ \/ sock' = [sock EXCEPT ![e.slot].type = "CONNECTED", ![e.slot].write = ~NomoreSendingData(sock[e.slot])]
           \/ FreeLists(e.slot, "events")
    BY <1>e, <1>9 DEF ReportConnect, Event
  <2>2. CASE FreeLists(e.slot, "events")
    BY <1>l, <2>1, <2>2
  <2>3. CASE sock' = [sock EXCEPT ![e.slot].type = "CONNECTED", ![e.slot].write = ~NomoreSendingData(sock[e.slot])]
    <3>1. PICK b \in BOOLEAN : b = ~NomoreSendingData(sock[e.slot])
      OBVIOUS
    <3>2. "CONNECTED" \in Types /\ sock' = [sock EXCEPT ![e.slot].type = "CONNECTED", ![e.slot].write = b]
          /\ sock[e.slot].polled \in BOOLEAN
      BY <1>T, <2>1, <2>3, <3>1 DEF Types, Socket
    <3>3. OneSlot(e.slot) /\ SameLists(sock[e.slot], sock'[e.slot]) /\ SameName(sock[e.slot], sock'[e.slot])
      BY <2>1, <3>2, TypeDoes
    <3>4. sock[e.slot].type \in Open
      BY <2>1 DEF Open, Types
    <3> QED  BY <1>a, <2>1, <3>3, <3>4 DEF SameName
  <2> QED  BY <2>1, <2>2, <2>3
<1>10. ASSUME NEW e \in ev, ReportAccept(e) PROVE FlowInv'
  <2>1. /\ UNCHANGED wire
        /\ \/ UNCHANGED sock
           \/ \E id \in alloc_id + 1 .. alloc_id + Slots :
                /\ id <= MaxId /\ sock[Hash(id)].type = "INVALID"
                /\ sock' = [sock EXCEPT ![Hash(id)] =
                  [@ EXCEPT !.type = "PACCEPT", !.id = id, !.protocol = "TCP", !.tag = id, !.sending = 0, !.wb = 0]]
    BY <1>10 DEF ReportAccept, Event
  <2>2. ASSUME NEW id \in alloc_id + 1 .. alloc_id + Slots, id <= MaxId, sock[Hash(id)].type = "INVALID",
               sock' = [sock EXCEPT ![Hash(id)] =
                  [@ EXCEPT !.type = "PACCEPT", !.id = id, !.protocol = "TCP", !.tag = id, !.sending = 0, !.wb = 0]]
        PROVE  FlowInv'
    <3>1. id \in 0 .. MaxId /\ id \in Nat /\ id \in Id /\ alloc_id < id
      BY <1>t, <2>2, SocketAssumption DEF Id
    <3>2. PICK h \in Slot : h = Hash(id)
      BY <3>1, HashRange, Zenon
    <3>3. OneSlot(h) /\ sock'[h].id = id /\ SameLists(sock[h], sock'[h])
      BY <2>2, <3>1, <3>2, AcceptDoes, ZenonT(30)
    <3>4. sock'[h].dw = <<>> /\ sock'[h].high = <<>> /\ sock'[h].low = <<>>
      <4>1. ~Full(sock[h])
        BY <1>o, <2>2, <3>2 DEF Armed, Mute
      <4> QED  BY <3>3, <4>1 DEF Full, SameLists
    <3>5. Due(id)
      BY <3>1 DEF Due
    <3> QED  BY <1>d, <2>1, <3>1, <3>3, <3>4, <3>5
  <2> QED  BY <1>u, <2>1, <2>2
<1>11. ASSUME NEW e \in ev, ReadEvent(e) PROVE FlowInv'
  <2>1. /\ UNCHANGED wire /\ e.slot \in Slot
        /\ UNCHANGED sock \/ FreeLists(e.slot, "events")
    BY <1>e, <1>11 DEF ReadEvent, Event
  <2> QED  BY <1>l, <1>u, <2>1
<1>12. ASSUME NEW e \in ev, NEW n \in 0 .. MaxMsg * Size, NEW err \in BOOLEAN, WriteEvent(e, n, err)
       PROVE FlowInv'
  <2>1. /\ e.slot \in Slot /\ n \in Nat /\ sock[e.slot].type \in {"CONNECTED", "HALFCLOSE", "BIND", "RESERVE"}
        /\ \/ UNCHANGED sock /\ UNCHANGED wire
           \/ sock[e.slot].type # "RESERVE" /\ SendBuffer(e.slot, n, err, "events", "events")
    BY <1>e, <1>12 DEF WriteEvent, Event
  <2>2. sock[e.slot].type # "RESERVE" => sock[e.slot].type \in Open
    BY <2>1 DEF Open, Types
  <2> QED  BY <1>s, <1>u, <2>1, <2>2
<1> QED  BY <1>1, <1>2, <1>3, <1>4, <1>5, <1>6, <1>7, <1>9, <1>10, <1>11, <1>12 DEF SocketThread

(* Nothing was sent yet. *)
LEMMA FlowInit == Init => FlowInv
<1> SUFFICES ASSUME Init PROVE FlowInv
  OBVIOUS
<1>1. /\ \A k \in Slot : sock[k].type = "INVALID"
      /\ \A v \in Worker : job[v].m = 0
      /\ pipe = <<>> /\ \A id \in Id : wire[id] = <<>>
      /\ \A m \in Msg : from[m].cmd = ""
  BY DEF Init, Slot, NoReq, Req
<1>2. SentInv
  <2>1. \A v \in Worker : JobOf(job[v], v, from, nmsg)
    BY <1>1 DEF JobOf
  <2>2. DOMAIN pipe = {}
    <3>a. pipe = <<>>
      BY <1>1
    <3>1. pipe \in Seq(Nat) /\ Len(pipe) = 0
      BY <3>a
    <3>2. DOMAIN pipe = 1 .. 0
      BY <3>1
    <3> QED  BY <3>2
  <2>3. PipeOf(pipe, from, nmsg)
    BY <2>2 DEF PipeOf
  <2> QED  BY <1>1, <2>1, <2>3 DEF SentInv, Unsent
<1>3. WireInv
  <2>1. \A id, f, n, c : Kept(<<>>, id, f, n, c)
    BY EndedEmpty, EndedKept
  <2> QED  BY <1>1, <2>1 DEF WireInv
<1>4. \A k \in Slot : sock[k].type \notin Open
  BY <1>1 DEF Open
<1> QED  BY <1>2, <1>3, <1>4 DEF FlowInv

(* What peers have been sent is as it should be. *)
LEMMA FlowHolds == TypeOK /\ FlowInv => StreamKept
<1> SUFFICES ASSUME TypeOK, FlowInv PROVE StreamKept
  OBVIOUS
<1>1. \A id \in Id : Mine(MsgsOf(wire[id]), id, from, nmsg) /\ Ordered(wire[id], from) /\ (id \in cut \/ Whole(wire[id]))
  BY DEF FlowInv, WireInv, Kept
<1>2. StreamWhole
  BY <1>1 DEF StreamWhole
<1>3. InOrder
  BY <1>1 DEF InOrder, Ordered, Precedes
<1>4. OwnMessages
  BY <1>1 DEF OwnMessages, Mine, MsgsOf
<1> QED  BY <1>2, <1>3, <1>4 DEF StreamKept

(* What is kept of the streams, besides *)
StreamsInv == BuffersInv /\ (Sound /\ ~Early => FlowInv)

(* Every step keeps the streams. *)
LEMMA StreamsNext == StreamsInv /\ [Next]_vars => StreamsInv'
<1> SUFFICES ASSUME StreamsInv, [Next]_vars PROVE StreamsInv'
  OBVIOUS
<1>1. BuffersInv /\ BuffersInv' /\ TypeOK /\ TypeOK' /\ strayed \in BOOLEAN
  <2>1. BuffersInv /\ BuffersInv'
    BY BuffersNext DEF StreamsInv
  <2> QED  BY <2>1 DEF BuffersInv, SocketInv, TypeOK
<1>2. ASSUME Sound', ~Early PROVE FlowInv'
  <2>1. OwnersInv /\ ArmedInv /\ PlacesInv /\ CountedInv /\ FlowInv /\ OwnersInv'
    BY <1>1, <1>2, SoundBefore DEF StreamsInv, BuffersInv, SocketInv
  <2>2. CASE UNCHANGED vars
    <3>1. UNCHANGED <<sock, pipe, at, job, nmsg, from, cut, wire, alloc_id>>
      BY <2>2 DEF vars, workerVars, bounds, marks
    <3>2. SentInv' /\ WireInv'
      BY <2>1, <3>1 DEF FlowInv, SentInv, WireInv, Due, Held, Asks
    <3> QED  BY <2>1, <3>1, <3>2 DEF FlowInv
  <2>3. ASSUME NEW w \in Worker, Request(w) \/ WorkerStep(w) PROVE FlowInv'
    BY <1>1, <1>2, <2>1, <2>3, FlowWorker
  <2>4. CASE SocketThread
    BY <1>1, <1>2, <2>1, <2>4, FlowThread
  <2> QED  BY <2>2, <2>3, <2>4 DEF Next
<1> QED  BY <1>1, <1>2 DEF StreamsInv

(***************************************************************************)
(* Whoever writes, and whatever part the network takes, the peer of a      *)
(* socket reads whole messages, those of one worker with one priority in   *)
(* the order in which it sent them, and none that was sent to another      *)
(* socket that has or had the slot: when services send after SOCKET_OPEN.  *)
(***************************************************************************)
THEOREM StreamsKept == ASSUME ~Early PROVE Spec => []StreamKept
<1>1. Init => StreamsInv
  <2>1. Init => SocketInv
    BY TypeInit, OwnersInit, ArmedInit DEF SocketInv
  <2>2. Init => BuffersInv
    BY <2>1, PlacesInit, CountedInit DEF BuffersInv
  <2> QED  BY <2>2, FlowInit DEF StreamsInv
<1>2. StreamsInv => StreamKept
  <2>1. Sound /\ StreamsInv => TypeOK /\ FlowInv
    BY DEF StreamsInv, BuffersInv, SocketInv
  <2>2. Sound /\ StreamsInv => StreamKept
    BY <2>1, FlowHolds
  <2>3. ~Sound => StreamKept
    BY DEF StreamKept, StreamWhole, InOrder, OwnMessages
  <2> QED  BY <2>2, <2>3
<1> QED  BY <1>1, <1>2, StreamsNext, PTL DEF Spec
===============================================================================
