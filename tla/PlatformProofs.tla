----------------------------- MODULE PlatformProofs -----------------------------
(***************************************************************************)
(* Proofs about what a node on Windows stands on: the readers-writer lock  *)
(* of RWLock, for any finite set of threads, and the epoll port of Wepoll, *)
(* for any sockets, any finite numbers of threads that wait and call, of   *)
(* objects, and any size of a poll group.                                  *)
(***************************************************************************)
EXTENDS RWLock, Wepoll, SequenceTheorems, FiniteSetTheorems, WellFoundedInduction, TLAPS

-----------------------------------------------------------------------------
(* The lock, for every finite set of threads *)

(* A step that leaves pc alone outside one thread's own program counter    *)
(* adds that thread to the counted ones: read has to grow by one.          *)
LEMMA CountedIn ==
    ASSUME TypeOK, NEW t \in Thread, NEW to \in {"rcheck", "rback", "rheld"},
           t \notin Counted, pc' = [pc EXCEPT ![t] = to]
    PROVE  Cardinality(Counted') = Cardinality(Counted) + 1
<1>1. IsFiniteSet(Counted)
  BY ThreadFinite, FS_Subset DEF Counted
<1>2. Counted' = Counted \cup {t}
  BY DEF TypeOK, Counted
<1> QED  BY <1>1, <1>2, FS_AddElement

(* A counted thread that leaves takes one off the count. *)
LEMMA CountedOut ==
    ASSUME TypeOK, NEW t \in Counted, NEW to \in {"rspin", "idle"},
           pc' = [pc EXCEPT ![t] = to]
    PROVE  /\ Cardinality(Counted') = Cardinality(Counted) - 1
           /\ Cardinality(Counted) \in Nat \ {0}
<1>1. IsFiniteSet(Counted)
  BY ThreadFinite, FS_Subset DEF Counted
<1>2. Counted' = Counted \ {t}
  BY DEF TypeOK, Counted
<1>3. Cardinality(Counted) \in Nat /\ Cardinality(Counted) # 0
  BY <1>1, FS_CardinalityType, FS_EmptySet
<1> QED  BY <1>1, <1>2, <1>3, FS_RemoveElement

(* The lock is free before any thread has touched it. *)
LEMMA LockInvInit == Init => LockInv
<1> SUFFICES ASSUME Init PROVE LockInv
  OBVIOUS
<1>1. TypeOK
  BY DEF Init, TypeOK, Location
<1>2. Counted = {} /\ Writing = {}
  BY DEF Init, Counted, Writing
<1>3. Cardinality(Counted) = 0
  BY <1>2, FS_EmptySet
<1> QED  BY <1>1, <1>2, <1>3 DEF Init, LockInv

(***************************************************************************)
(* Every instruction of rwlock.h keeps the count of readers exact and the  *)
(* write word owned by one thread.                                         *)
(***************************************************************************)
LEMMA LockInvStep == LockInv /\ [Next]_vars => LockInv'
<1> SUFFICES ASSUME LockInv, [Next]_vars PROVE LockInv'
  OBVIOUS
<1> USE DEF LockInv
<1>u. CASE UNCHANGED vars
  BY <1>u DEF vars, TypeOK, Counted, Writing
<1>n. ASSUME NEW t \in Thread, Step(t) PROVE LockInv'
  <2>1. ASSUME NEW from \in {"idle", "rspin", "rinc", "wspin"}, 
               NEW to \in {"rspin", "wspin", "rinc"}, Goto(t, from, to),
               UNCHANGED <<write, read>>
        PROVE LockInv'
    <3>1. TypeOK'
      BY <2>1 DEF TypeOK, Goto, Location
    <3>2. Counted' = Counted /\ Writing' = Writing
      BY <2>1 DEF TypeOK, Goto, Counted, Writing
    <3>3. \A u \in Thread : (pc'[u] = "wheld" => pc[u] = "wheld")
                            /\ (pc'[u] = "rheld" => pc[u] = "rheld")
      BY <2>1 DEF TypeOK, Goto
    <3> QED  BY <2>1, <3>1, <3>2, <3>3
  <2>2. CASE CallRlock(t)
    BY <2>1, <2>2 DEF CallRlock
  <2>3. CASE CallWlock(t)
    BY <2>1, <2>3 DEF CallWlock
  <2>4. CASE RlockSeesClear(t)
    BY <2>1, <2>4 DEF RlockSeesClear
  <2>5. CASE RlockInc(t)
    <3>1. TypeOK' /\ Writing' = Writing
      BY <2>5 DEF RlockInc, TypeOK, Goto, Location, Writing
    <3>2. Cardinality(Counted') = Cardinality(Counted) + 1
      BY <2>5, CountedIn DEF RlockInc, Goto, Counted
    <3>3. \A u \in Thread : (pc'[u] = "wheld" => pc[u] = "wheld")
                            /\ (pc'[u] = "rheld" => pc[u] = "rheld")
      BY <2>5 DEF RlockInc, TypeOK, Goto
    <3> QED  BY <2>5, <3>1, <3>2, <3>3 DEF RlockInc
  <2>6. CASE RlockEnter(t)
    <3>1. TypeOK' /\ Writing' = Writing /\ Counted' = Counted
      BY <2>6 DEF RlockEnter, TypeOK, Goto, Location, Writing, Counted
    <3>2. \A u \in Thread : pc'[u] # "wheld"
      BY <2>6, <3>1 DEF RlockEnter, TypeOK, Writing, Goto
    <3> QED  BY <2>6, <3>1, <3>2 DEF RlockEnter
  <2>7. CASE RlockBackOff(t)
    <3>1. TypeOK' /\ Writing' = Writing /\ Counted' = Counted
      BY <2>7 DEF RlockBackOff, TypeOK, Goto, Location, Writing, Counted
    <3>2. \A u \in Thread : (pc'[u] = "wheld" => pc[u] = "wheld")
                            /\ (pc'[u] = "rheld" => pc[u] = "rheld")
      BY <2>7 DEF RlockBackOff, TypeOK, Goto
    <3> QED  BY <2>7, <3>1, <3>2 DEF RlockBackOff
  <2>8. ASSUME NEW from \in {"rback", "rheld"}, NEW to \in {"rspin", "idle"},
               Goto(t, from, to), read' = read - 1, UNCHANGED write
        PROVE LockInv'
    <3>1. t \in Counted /\ pc' = [pc EXCEPT ![t] = to]
      BY <2>8 DEF Counted, Goto
    <3>2. Cardinality(Counted') = Cardinality(Counted) - 1 /\ Cardinality(Counted) \in Nat \ {0}
      BY <3>1, CountedOut
    <3>3. TypeOK' /\ Writing' = Writing
      BY <2>8, <3>2 DEF TypeOK, Goto, Location, Writing
    <3>4. \A u \in Thread : (pc'[u] = "wheld" => pc[u] = "wheld")
                            /\ (pc'[u] = "rheld" => pc[u] = "rheld")
      BY <2>8 DEF TypeOK, Goto
    <3> QED  BY <2>8, <3>2, <3>3, <3>4
  <2>9. CASE RlockRetry(t)
    BY <2>8, <2>9 DEF RlockRetry
  <2>10. CASE Runlock(t)
    BY <2>8, <2>10 DEF Runlock
  <2>11. CASE WlockSet(t)
    <3>1. TypeOK' /\ Counted' = Counted
      BY <2>11 DEF WlockSet, TypeOK, Goto, Location, Counted
    <3>2. Writing' = {t}
      BY <2>11 DEF WlockSet, TypeOK, Goto, Writing
    <3>3. \A u \in Thread : pc'[u] # "wheld"
      BY <2>11 DEF WlockSet, TypeOK, Goto, Writing
    <3> QED  BY <2>11, <3>1, <3>2, <3>3 DEF WlockSet
  <2>12. CASE WlockDrained(t)
    <3>1. TypeOK' /\ Counted' = Counted /\ Writing' = Writing
      BY <2>12 DEF WlockDrained, TypeOK, Goto, Location, Counted, Writing
    <3>2. Counted = {}
      <4>1. IsFiniteSet(Counted)
        BY ThreadFinite, FS_Subset DEF Counted
      <4> QED  BY <2>12, <4>1, FS_EmptySet DEF WlockDrained
    <3>3. \A u \in Thread : pc'[u] # "rheld"
      BY <3>1, <3>2 DEF Counted
    <3> QED  BY <2>12, <3>1, <3>3 DEF WlockDrained
  <2>13. CASE Wunlock(t)
    <3>1. TypeOK' /\ Counted' = Counted
      BY <2>13 DEF Wunlock, TypeOK, Goto, Location, Counted
    <3>2. Writing' = {}
      BY <2>13 DEF Wunlock, TypeOK, Goto, Writing
    <3>3. \A u \in Thread : pc'[u] # "wheld"
      BY <3>1, <3>2 DEF Writing
    <3> QED  BY <2>13, <3>1, <3>2, <3>3 DEF Wunlock
  <2> QED
    BY <1>n, <2>2, <2>3, <2>4, <2>5, <2>6, <2>7, <2>9, <2>10, <2>11, <2>12, <2>13
       DEF Step, Rlock, Wlock
<1> QED  BY <1>u, <1>n DEF Next

(* LockInv is an invariant of the lock for every finite set of threads. *)
THEOREM LockInvariant == Spec => []LockInv
<1> QED  BY LockInvInit, LockInvStep, PTL DEF Spec

(***************************************************************************)
(* The lock that guards the handle storage excludes: a thread that         *)
(* rwlock_wlock returned to is alone between the lock and unlock calls.    *)
(***************************************************************************)
THEOREM MutualExclusionHolds == Spec => []MutualExclusion
<1>1. LockInv => MutualExclusion
  BY DEF LockInv, TypeOK, MutualExclusion, Writing
<1> QED  BY LockInvariant, <1>1, PTL
-----------------------------------------------------------------------------
(* The invariant of a port *)

Id == Nat \ {0}
Group == [id : Id, size : Nat]
SockState == [mem : {"free", "live", "deleted"}, sock : Sock \cup {"none"}, want : SUBSET Event,
              mon : SUBSET Event, poll : {"idle", "pending", "cancelled"}, group : Nat]
Queues == Seq(Reg)
Lists == Seq(Group)
Port == [st : [Reg -> SockState], upd : Queues, groups : Lists, sent : SUBSET Reg, stop : SUBSET Reg]
Packet == [r : Reg, events : SUBSET (Event \cup {"closed"})]

(* How many objects each group stands for *)
Members(st, i) == {r \in Reg : st[r].group = i}
Count(st) == [i \in Id |-> Cardinality(Members(st, i))]

(* The first len groups of g count n[i] objects each, and the full ones    *)
(* are first.                                                              *)
Fits(g, len, n) ==
    /\ \A j, k \in 1 .. len : g[j].id = g[k].id => j = k
    /\ \A k \in 1 .. len : g[k].size = n[g[k].id] /\ g[k].size <= GroupSize
    /\ \A k \in 1 .. len : \A j \in 1 .. k - 1 : g[k].size = GroupSize => g[j].size = GroupSize
    /\ \A i \in Id : n[i] # 0 => \E k \in 1 .. len : g[k].id = i
GroupsFit(g, n) == Fits(g, Len(g), n)

(* Nobody is twice in the queue. *)
Distinct(s) == \A j, k \in 1 .. Len(s) : s[j] = s[k] => j = k

(* A freed object has nothing left; each socket is once in the tree. *)
RegsFit(st) ==
    /\ \A r \in Reg : IF st[r].mem = "free" THEN st[r] = NoReg ELSE st[r].group # 0
    /\ \A q, r \in Reg : st[q].mem = "live" /\ st[r].mem = "live" /\ st[q].sock = st[r].sock => q = r

PortFit(p) ==
    /\ p \in Port /\ RegsFit(p.st) /\ GroupsFit(p.groups, Count(p.st))
    /\ Distinct(p.upd) /\ \A r \in Range(p.upd) : p.st[r].mem = "live"

(* Whoever is in the queue, or watched for all that is wanted; the request *)
(* of one that is no longer in the tree has been asked to end.             *)
LookedAfter(p, r) ==
    /\ p.st[r].mem = "live" =>
        /\ p.st[r].poll = "idle" => r \in Range(p.upd)
        /\ p.st[r].poll = "pending" /\ r \notin Range(p.upd) => p.st[r].want \subseteq p.st[r].mon
    /\ p.st[r].mem = "deleted" => p.st[r].poll # "pending"

(* What a step has made of an object, with the set out of those that had a *)
(* request or a packet when it began, and wait of those whose request the  *)
(* driver still has; up when packets come through the completion port.     *)
Linked(p, r, out, wait, up) ==
    /\ r \in wait => r \in out /\ (p.st[r].poll = "pending" \/ r \in p.stop)
    /\ r \in out => p.st[r].poll # "idle" /\ r \notin p.sent
    /\ r \in p.sent => p.st[r].poll = "pending" /\ r \notin Range(p.upd)
    /\ r \in p.stop => p.st[r].poll = "cancelled" /\ r \notin Range(p.upd)
    /\ up /\ p.st[r].poll # "idle" => r \in out \/ r \in p.sent

Sound(p, out, wait, up) ==
    PortFit(p) /\ \A r \in Reg : LookedAfter(p, r) /\ Linked(p, r, out, wait, up)

-----------------------------------------------------------------------------
(* The inductive invariant of the epoll port *)

Where == {"out", "in", "poll", "got", "unref", "signal"}
Up == life \in {"open", "removed"}
Waits == {r \in Reg : req[r] = "wait"}
Packeted == {cq[k].r : k \in 1 .. Len(cq)} \cup UNION {{taken[t][k].r : k \in 1 .. Len(taken[t])} : t \in Waiter}
Outstanding == {r \in Reg : req[r] # "none" /\ life # "gone"} \cup Packeted

PollTypes ==
    /\ port \in Port /\ req \in [Reg -> {"none", "wait", "cancel"}]
    /\ cq \in Seq(Packet) /\ where \in [Actor -> Where] /\ taken \in [Actor -> Seq(Packet)]
    /\ life \in {"open", "removed", "closed", "destroying", "gone"} /\ refs \in Nat

(* No two packets are of the same object, and none is of one whose request *)
(* is with the driver.                                                     *)
PacketsApart ==
    /\ \A j, k \in 1 .. Len(cq) : cq[j].r = cq[k].r => j = k
    /\ \A j \in 1 .. Len(cq), t \in Waiter : \A k \in 1 .. Len(taken[t]) : cq[j].r # taken[t][k].r
    /\ \A t, u \in Waiter : \A j \in 1 .. Len(taken[t]), k \in 1 .. Len(taken[u]) :
            taken[t][j].r = taken[u][k].r => t = u /\ j = k
PacketsOnce == PacketsApart /\ \A r \in Packeted : req[r] = "none"

PortKept ==
    /\ Sound(port, Outstanding, Waits, Up) /\ port.sent = {} /\ port.stop = {}
    /\ Polling # {} => port.upd = <<>>

ThreadsKept ==
    /\ ~Up => cq = <<>>
    /\ \A t \in Waiter : where[t] # "got" => taken[t] = <<>>
    /\ refs = Cardinality({t \in Actor : where[t] \notin {"out", "signal"}})
                + (IF life \in {"removed", "closed"} THEN 1 ELSE 0)
    /\ \A t \in Actor : where[t] = "signal" => life = "destroying" /\ refs = 0
    /\ \A t, u \in Actor : where[t] = "signal" /\ where[u] = "signal" => t = u
    /\ life = "gone" => /\ \A t \in Actor : where[t] = "out"
                        /\ port.upd = <<>> /\ \A r \in Reg : port.st[r] = NoReg /\ req[r] # "wait"

PollIInv == PollTypes /\ PacketsOnce /\ PortKept /\ ThreadsKept

-----------------------------------------------------------------------------
(* What the sequences of a port lose and gain *)

(* A set of naturals that is not empty has a least one. *)
LEMMA LeastNat == ASSUME NEW T \in SUBSET Nat, T # {} PROVE \E x \in T : \A y \in T : x <= y
<1> DEFINE R == {ss \in Nat \X Nat : ss[1] < ss[2]}
<1>1. IsWellFoundedOn(R, Nat)
  BY NatLessThanWellFounded DEF OpToRel
<1>2. PICK x \in T : \A y \in T : ~ (<<y, x>> \in R)
  BY <1>1, WFMin
<1>3. ASSUME NEW y \in T PROVE x <= y
  <2>1. ~(<<y, x>> \in R)
    BY <1>2
  <2>2. y \in Nat /\ x \in Nat
    OBVIOUS
  <2>3. ~(y < x)
    BY <2>1, <2>2
  <2> QED BY <2>2, <2>3
<1> QED BY <1>3

(* A piece of a sequence *)
LEMMA PieceIs ==
    ASSUME NEW S, NEW s \in Seq(S), NEW m \in Nat \ {0}, NEW n \in Nat, n <= Len(s), m <= n + 1
    PROVE  /\ SubSeq(s, m, n) \in Seq(S) /\ Len(SubSeq(s, m, n)) = n - m + 1
           /\ \A k \in 1 .. n - m + 1 : SubSeq(s, m, n)[k] = s[m + k - 1]
<1>1. m \in Int /\ n \in Int /\ \A k \in m .. n : s[k] \in S
  OBVIOUS
<1> DEFINE b == SubSeq(s, m, n)
<1>2. b \in Seq(S) /\ Len(b) = (IF m <= n THEN n - m + 1 ELSE 0) /\ \A k \in 1 .. n - m + 1 : b[k] = s[m + k - 1]
  BY <1>1, SubSeqProperties
<1> HIDE DEF b
<1>3. Len(b) = n - m + 1
  BY <1>2
<1> QED  BY <1>2, <1>3 DEF b

(* What is left of a sequence without its i-th element *)
LEMMA RemoveAtIs ==
    ASSUME NEW S, NEW s \in Seq(S), NEW i \in 1 .. Len(s)
    PROVE  /\ RemoveAt(s, i) \in Seq(S) /\ Len(RemoveAt(s, i)) = Len(s) - 1
           /\ \A k \in 1 .. Len(s) - 1 : RemoveAt(s, i)[k] = IF k < i THEN s[k] ELSE s[k + 1]
<1>1. PICK L \in Nat : L = Len(s)
  OBVIOUS
<1> DEFINE a == SubSeq(s, 1, i - 1)
           b == SubSeq(s, i + 1, L)
           w == a \o b
<1>2. i \in 1 .. L /\ \A k \in 1 .. L : s[k] \in S
  BY <1>1
<1>3. a \in Seq(S) /\ Len(a) = i - 1 /\ \A k \in 1 .. i - 1 : a[k] = s[k]
  <2>1. 1 \in Nat \ {0} /\ i - 1 \in Nat /\ i - 1 <= Len(s) /\ 1 <= (i - 1) + 1
    BY <1>1, <1>2
  <2>2. a \in Seq(S) /\ Len(a) = (i - 1) - 1 + 1 /\ \A k \in 1 .. (i - 1) - 1 + 1 : a[k] = s[1 + k - 1]
    BY <2>1, PieceIs
  <2> HIDE DEF a
  <2>3. (i - 1) - 1 + 1 = i - 1 /\ \A k \in 1 .. i - 1 : 1 + k - 1 = k
    BY <1>2
  <2> QED  BY <2>2, <2>3
<1>4. b \in Seq(S) /\ Len(b) = L - i /\ \A k \in 1 .. L - i : b[k] = s[i + k]
  <2>1. i + 1 \in Nat \ {0} /\ L \in Nat /\ L <= Len(s) /\ i + 1 <= L + 1
    BY <1>1, <1>2
  <2>2. b \in Seq(S) /\ Len(b) = L - (i + 1) + 1 /\ \A k \in 1 .. L - (i + 1) + 1 : b[k] = s[i + 1 + k - 1]
    BY <2>1, PieceIs
  <2> HIDE DEF b
  <2>3. L - (i + 1) + 1 = L - i /\ \A k \in 1 .. L - i : i + 1 + k - 1 = i + k
    BY <1>2
  <2> QED  BY <2>2, <2>3
<1>5. RemoveAt(s, i) = w
  BY <1>1 DEF RemoveAt
<1> HIDE DEF a, b
<1>6. w \in Seq(S) /\ Len(w) = Len(a) + Len(b)
      /\ \A k \in 1 .. Len(a) + Len(b) : w[k] = IF k <= Len(a) THEN a[k] ELSE b[k - Len(a)]
  BY <1>3, <1>4, ConcatProperties, Zenon
<1> HIDE DEF w
<1>7. Len(w) = L - 1 /\ \A k \in 1 .. L - 1 : w[k] = IF k <= i - 1 THEN a[k] ELSE b[k - (i - 1)]
  BY <1>2, <1>3, <1>4, <1>6
<1>8. ASSUME NEW k \in 1 .. L - 1 PROVE w[k] = IF k < i THEN s[k] ELSE s[k + 1]
  <2>1. CASE k < i
    <3>1. k \in 1 .. i - 1
      BY <1>2, <2>1
    <3> QED  BY <1>3, <1>7, <2>1, <3>1
  <2>2. CASE ~(k < i)
    <3>1. k - (i - 1) \in 1 .. L - i /\ i + (k - (i - 1)) = k + 1 /\ ~(k <= i - 1)
      BY <1>2, <2>2
    <3> QED  BY <1>4, <1>7, <2>2, <3>1
  <2> QED  BY <2>1, <2>2
<1> QED  BY <1>1, <1>5, <1>6, <1>7, <1>8

(* What is appended to a sequence is its last element. *)
LEMMA AppendIs ==
    ASSUME NEW S, NEW s \in Seq(S), NEW e \in S
    PROVE  /\ Append(s, e) \in Seq(S) /\ Len(Append(s, e)) = Len(s) + 1
           /\ \A k \in 1 .. Len(s) + 1 : Append(s, e)[k] = IF k = Len(s) + 1 THEN e ELSE s[k]
BY AppendProperties

(* The set of what is in a sequence *)
LEMMA InRange == ASSUME NEW S, NEW s \in Seq(S)
                 PROVE  /\ Range(s) \subseteq S
                        /\ \A x : x \in Range(s) <=> \E k \in 1 .. Len(s) : s[k] = x
BY DEF Range

-----------------------------------------------------------------------------
(* The poll groups *)

(* There are MaxReg places for objects. *)
LEMMA RegFinite == IsFiniteSet(Reg) /\ Reg \subseteq Nat /\ Cardinality(Reg) = MaxReg
<1>1. MaxReg \in Nat
  BY WepollAssumption
<1>2. IsFiniteSet(1 .. MaxReg) /\ Cardinality(1 .. MaxReg) = MaxReg
  BY <1>1, FS_Interval
<1> QED  BY <1>1, <1>2 DEF Reg

(* The members of a group can be counted. *)
LEMMA CountType == ASSUME NEW st
                   PROVE  /\ Count(st) \in [Id -> Nat]
                          /\ \A i \in Id : Count(st)[i] = Cardinality(Members(st, i)) /\ IsFiniteSet(Members(st, i))
<1>1. ASSUME NEW i \in Id PROVE IsFiniteSet(Members(st, i)) /\ Cardinality(Members(st, i)) \in Nat
  <2>1. IsFiniteSet(Members(st, i))
    BY RegFinite, FS_Subset DEF Members
  <2> QED  BY <2>1, FS_CardinalityType
<1> QED  BY <1>1 DEF Count

(* They stay the same when nobody joins or leaves a group, ... *)
LEMMA CountSame ==
    ASSUME NEW st, NEW to, \A q \in Reg : to[q].group = st[q].group
    PROVE  Count(to) = Count(st)
<1>1. \A i : Members(to, i) = Members(st, i)
  BY DEF Members
<1> QED  BY <1>1 DEF Count

(* ... are one more when one joins, ... *)
LEMMA CountMore ==
    ASSUME NEW st \in [Reg -> SockState], NEW r \in Reg, NEW x \in SockState, st[r].group = 0, x.group # 0
    PROVE  x.group \in Id /\ Count([st EXCEPT ![r] = x]) = [Count(st) EXCEPT ![x.group] = @ + 1]
<1> DEFINE to == [st EXCEPT ![r] = x]
<1>1. x.group \in Id
  BY DEF SockState, Id
<1>2. ASSUME NEW i \in Id PROVE Count(to)[i] = IF i = x.group THEN Count(st)[i] + 1 ELSE Count(st)[i]
  <2>1. i # 0
    BY DEF Id
  <2>2. CASE i = x.group
    <3>1. Members(to, i) = Members(st, i) \cup {r} /\ r \notin Members(st, i)
      BY <2>1, <2>2 DEF Members
    <3>2. IsFiniteSet(Members(st, i)) /\ Count(to)[i] = Cardinality(Members(to, i))
          /\ Count(st)[i] = Cardinality(Members(st, i))
      <4> HIDE DEF to
      <4> QED  BY CountType
    <3> HIDE DEF to
    <3>3. Cardinality(Members(st, i) \cup {r}) = Cardinality(Members(st, i)) + 1
      BY <3>1, <3>2, FS_AddElement
    <3> QED  BY <2>2, <3>1, <3>2, <3>3
  <2>3. CASE i # x.group
    <3>1. Members(to, i) = Members(st, i)
      BY <2>1, <2>3 DEF Members
    <3> QED  BY <2>3, <3>1, CountType
  <2> QED  BY <2>2, <2>3
<1> HIDE DEF to
<1>3. Count(to) = [Count(st) EXCEPT ![x.group] = @ + 1]
  BY <1>1, <1>2, CountType
<1> QED  BY <1>1, <1>3 DEF to

(* ... and one less when one leaves. *)
LEMMA CountLess ==
    ASSUME NEW st \in [Reg -> SockState], NEW r \in Reg, NEW x \in SockState, st[r].group # 0, x.group = 0
    PROVE  LET i == st[r].group
           IN  /\ i \in Id /\ Count(st)[i] \in Nat \ {0}
               /\ Count([st EXCEPT ![r] = x]) = [Count(st) EXCEPT ![i] = @ - 1]
<1> DEFINE to == [st EXCEPT ![r] = x]
           g == st[r].group
<1>1. g \in Id
  BY DEF SockState, Id
<1>2. ASSUME NEW i \in Id PROVE Count(to)[i] = IF i = g THEN Count(st)[i] - 1 ELSE Count(st)[i]
  <2>1. i # 0
    BY DEF Id
  <2>2. CASE i = g
    <3>1. Members(to, i) = Members(st, i) \ {r} /\ r \in Members(st, i)
      BY <2>1, <2>2 DEF Members
    <3>2. IsFiniteSet(Members(st, i)) /\ Count(to)[i] = Cardinality(Members(to, i))
          /\ Count(st)[i] = Cardinality(Members(st, i))
      <4> HIDE DEF to
      <4> QED  BY CountType
    <3> HIDE DEF to, g
    <3>3. Cardinality(Members(st, i) \ {r}) = Cardinality(Members(st, i)) - 1
      BY <3>1, <3>2, FS_RemoveElement
    <3> QED  BY <2>2, <3>1, <3>2, <3>3
  <2>3. CASE i # g
    <3>1. Members(to, i) = Members(st, i)
      BY <2>1, <2>3 DEF Members
    <3> QED  BY <2>3, <3>1, CountType
  <2> QED  BY <2>2, <2>3
<1>3. Count(st)[g] \in Nat \ {0}
  <2>1. r \in Members(st, g)
    BY DEF Members
  <2>2. Cardinality(Members(st, g)) # 0
    BY <1>1, <2>1, CountType, FS_EmptySet
  <2> QED  BY <1>1, <2>2, CountType
<1> HIDE DEF to, g
<1>4. Count(to) = [Count(st) EXCEPT ![g] = @ - 1]
  BY <1>1, <1>2, CountType
<1> QED  BY <1>1, <1>3, <1>4 DEF to, g

(* poll_group__new has an id for its group that no other one has. *)
LEMMA FreshId == ASSUME NEW g \in Seq(Group)
                 PROVE  \E i \in 1 .. Len(g) + 1 : \A k \in 1 .. Len(g) : g[k].id # i
<1>1. PICK L \in Nat : L = Len(g)
  OBVIOUS
<1>2. /\ IsFiniteSet(1 .. L) /\ Cardinality(1 .. L) = L
      /\ IsFiniteSet(1 .. L + 1) /\ Cardinality(1 .. L + 1) = L + 1
  BY FS_Interval
<1> DEFINE f == [k \in 1 .. L |-> g[k].id]
           T == {f[k] : k \in 1 .. L}
<1>3. f \in Surjection(1 .. L, T)
  BY DEF Surjection
<1>4. IsFiniteSet(T) /\ Cardinality(T) <= L
  BY <1>2, <1>3, FS_Surjection
<1>5. Cardinality(T) \in Nat
  BY <1>4, FS_CardinalityType
<1>6. 1 .. L + 1 \notin SUBSET T
  <2> HIDE DEF T
  <2> SUFFICES ASSUME 1 .. L + 1 \in SUBSET T PROVE FALSE
    OBVIOUS
  <2>1. Cardinality(1 .. L + 1) <= Cardinality(T)
    BY <1>4, FS_Subset
  <2> QED  BY <1>2, <1>4, <1>5, <2>1
<1>7. PICK i \in 1 .. L + 1 : i \notin T
  BY <1>6
<1>8. \A k \in 1 .. L : g[k].id # i
  BY <1>7
<1> QED  BY <1>1, <1>7, <1>8

(* A group at the end that has one object more than before: the others     *)
(* stay as they are, and only the last can be full out of order.           *)
GrownFits(g, len, n) ==
    /\ \A j, k \in 1 .. len : g[j].id = g[k].id => j = k
    /\ \A k \in 1 .. len : g[k].size = n[g[k].id] /\ g[k].size <= GroupSize
    /\ \A k \in 1 .. len - 1 : \A j \in 1 .. k - 1 : g[k].size = GroupSize => g[j].size = GroupSize
    /\ \A i \in Id : n[i] # 0 => \E k \in 1 .. len : g[k].id = i

(* more has one member of group i more than g, in its last group. *)
Grown(g, len, n, i, more, l, m) ==
    /\ len \in Nat /\ l \in Nat \ {0} /\ i \in Id
    /\ Fits(g, len, n)
    /\ \A k \in 1 .. len : g[k].id \in Id
    /\ l = len \/ l = len + 1
    /\ l = len => g[len].id = i
    /\ \A k \in 1 .. l - 1 : more[k] = g[k] /\ g[k].id # i
    /\ more[l].id = i /\ more[l].size = m[i] /\ more[l].size <= GroupSize
    /\ \A j \in Id : j # i => m[j] = n[j]

(* The groups still fit, but for the place of the one that grew. *)
LEMMA Grow ==
    ASSUME NEW g, NEW len, NEW n, NEW i, NEW more, NEW l, NEW m, Grown(g, len, n, i, more, l, m)
    PROVE  GrownFits(more, l, m)
<1> USE DEF Grown
<1>1. \A k \in 1 .. l - 1 : k \in 1 .. len
  OBVIOUS
<1>2. \A k \in 1 .. l : k = l \/ k \in 1 .. l - 1
  OBVIOUS
<1>3. \A j, k \in 1 .. l : more[j].id = more[k].id => j = k
  BY <1>1, <1>2 DEF Fits
<1>4. \A k \in 1 .. l : more[k].size = m[more[k].id] /\ more[k].size <= GroupSize
  BY <1>1, <1>2 DEF Fits
<1>5. \A k \in 1 .. l - 1 : \A j \in 1 .. k - 1 : more[k].size = GroupSize => more[j].size = GroupSize
  <2> SUFFICES ASSUME NEW k \in 1 .. l - 1, NEW j \in 1 .. k - 1, more[k].size = GroupSize
               PROVE  more[j].size = GroupSize
    OBVIOUS
  <2>1. j \in 1 .. l - 1 /\ k \in 1 .. len
    OBVIOUS
  <2> QED  BY <2>1 DEF Fits
<1>6. ASSUME NEW j \in Id, m[j] # 0 PROVE \E k \in 1 .. l : more[k].id = j
  <2>1. CASE j = i
    <3>1. l \in 1 .. l
      OBVIOUS
    <3> QED  BY <2>1, <3>1
  <2>2. CASE j # i
    <3>1. PICK k \in 1 .. len : g[k].id = j
      BY <1>6, <2>2 DEF Fits
    <3>2. k \in 1 .. l - 1
      BY <2>2, <3>1
    <3>3. k \in 1 .. l /\ more[k].id = j
      BY <3>1, <3>2
    <3> QED  BY <3>3
  <2> QED  BY <2>1, <2>2
<1> QED  BY <1>3, <1>4, <1>5, <1>6 DEF GrownFits

(* A full one goes to the front. *)
LEMMA ToFront ==
    ASSUME NEW more, NEW l \in Nat \ {0}, NEW m, GrownFits(more, l, m), more[l].size = GroupSize, NEW new,
           \A k \in 1 .. l : new[k] = IF k = 1 THEN more[l] ELSE more[k - 1]
    PROVE  Fits(new, l, m)
<1>1. \A k \in 1 .. l : k # 1 => k - 1 \in 1 .. l - 1 /\ k - 1 \in 1 .. l
  OBVIOUS
<1>2. l \in 1 .. l /\ 1 \in 1 .. l
  OBVIOUS
<1>3. \A j, k \in 1 .. l : new[j].id = new[k].id => j = k
  <2> SUFFICES ASSUME NEW j \in 1 .. l, NEW k \in 1 .. l, new[j].id = new[k].id PROVE j = k
    OBVIOUS
  <2>1. CASE j = 1
    BY <1>1, <1>2, <2>1 DEF GrownFits
  <2>2. CASE k = 1
    BY <1>1, <1>2, <2>2 DEF GrownFits
  <2>3. CASE j # 1 /\ k # 1
    <3>1. j - 1 = k - 1
      BY <1>1, <2>3 DEF GrownFits
    <3> QED  BY <3>1
  <2> QED  BY <2>1, <2>2, <2>3
<1>4. \A k \in 1 .. l : new[k].size = m[new[k].id] /\ new[k].size <= GroupSize
  BY <1>1, <1>2 DEF GrownFits
<1>5. \A k \in 1 .. l : \A j \in 1 .. k - 1 : new[k].size = GroupSize => new[j].size = GroupSize
  <2> SUFFICES ASSUME NEW k \in 1 .. l, NEW j \in 1 .. k - 1, new[k].size = GroupSize PROVE new[j].size = GroupSize
    OBVIOUS
  <2>1. k # 1 /\ j \in 1 .. l
    OBVIOUS
  <2>2. k - 1 \in 1 .. l - 1 /\ more[k - 1].size = GroupSize
    BY <2>1
  <2>3. CASE j = 1
    BY <2>1, <2>3
  <2>4. CASE j # 1
    <3>1. j - 1 \in 1 .. (k - 1) - 1
      BY <2>4
    <3>2. more[j - 1].size = GroupSize
      BY <2>2, <3>1 DEF GrownFits
    <3> QED  BY <2>1, <2>4, <3>2
  <2> QED  BY <2>3, <2>4
<1>6. ASSUME NEW j \in Id, m[j] # 0 PROVE \E k \in 1 .. l : new[k].id = j
  <2>1. PICK k \in 1 .. l : more[k].id = j
    BY <1>6 DEF GrownFits
  <2>2. CASE k = l
    BY <1>2, <2>1, <2>2
  <2>3. CASE k # l
    <3>1. k + 1 \in 1 .. l /\ k + 1 # 1 /\ (k + 1) - 1 = k
      BY <2>3
    <3>2. new[k + 1].id = j
      BY <2>1, <3>1
    <3> QED  BY <3>1, <3>2
  <2> QED  BY <2>2, <2>3
<1> QED  BY <1>3, <1>4, <1>5, <1>6 DEF Fits

(***************************************************************************)
(* poll_group_acquire finds room in the last group or makes a new one, and *)
(* puts it first when it is full.                                          *)
(***************************************************************************)
LEMMA AcquireFits ==
    ASSUME NEW g \in Seq(Group), NEW n \in [Id -> Nat], GroupsFit(g, n)
    PROVE  /\ GroupId(g) \in Id /\ Acquire(g) \in Seq(Group)
           /\ GroupsFit(Acquire(g), [n EXCEPT ![GroupId(g)] = @ + 1])
<1> DEFINE i == GroupId(g)
           m == [n EXCEPT ![i] = @ + 1]
           x == [id |-> i, size |-> 1]
           e == [g[Len(g)] EXCEPT !.size = @ + 1]
           more == IF FullLast(g) THEN Append(g, x) ELSE [g EXCEPT ![Len(g)] = e]
<1>1. PICK len \in Nat : len = Len(g)
  OBVIOUS
<1>2. \A k \in 1 .. len : g[k] \in Group /\ g[k].id \in Id /\ g[k].size \in Nat
  <2>1. \A k \in 1 .. len : g[k] \in Group
    <3> HIDE DEF i, m, x, e, more
    <3> QED  BY <1>1
  <2> QED  BY <2>1, Zenon DEF Group
<1>3. GroupSize \in Nat \ {0}
  BY WepollAssumption
<1>4. Fits(g, len, n)
  BY <1>1 DEF GroupsFit
<1>5. PICK l \in Nat \ {0} : i \in Id /\ more \in Seq(Group) /\ l = Len(more) /\ GrownFits(more, l, m)
  <2>1. CASE FullLast(g)
    <3>1. i \in 1 .. len + 1 /\ \A k \in 1 .. len : g[k].id # i
      <4> DEFINE Fresh(c) == \A k \in 1 .. Len(g) : g[k].id # c
      <4>1. \E c \in 1 .. Len(g) + 1 : Fresh(c)
        BY FreshId
      <4>2. i = CHOOSE c \in 1 .. Len(g) + 1 : Fresh(c)
        <5>1. DOMAIN g = 1 .. Len(g)
          OBVIOUS
        <5> QED  BY <2>1, <5>1 DEF GroupId
      <4> HIDE DEF Fresh, i
      <4>3. i \in 1 .. Len(g) + 1 /\ Fresh(i)
        BY <4>1, <4>2
      <4> QED  BY <1>1, <4>3 DEF Fresh
    <3> HIDE DEF i
    <3>2. i \in Id
      BY <3>1 DEF Id
    <3>3. x \in Group /\ x.id = i /\ x.size = 1
      BY <3>2 DEF Group
    <3>4. n[i] = 0 /\ \A j \in Id : m[j] = IF j = i THEN 1 ELSE n[j]
      <4>1. n[i] = 0
        BY <1>4, <3>1, <3>2 DEF Fits
      <4> QED  BY <3>2, <4>1
    <3> HIDE DEF x, m
    <3>5. Append(g, x) \in Seq(Group) /\ Len(Append(g, x)) = Len(g) + 1
          /\ \A k \in 1 .. Len(g) + 1 : Append(g, x)[k] = IF k = Len(g) + 1 THEN x ELSE g[k]
      BY <3>3, AppendIs
    <3> DEFINE y == Append(g, x)
    <3> HIDE DEF y
    <3>6. y \in Seq(Group) /\ Len(y) = len + 1 /\ \A k \in 1 .. len + 1 : y[k] = IF k = len + 1 THEN x ELSE g[k]
      BY <1>1, <3>5, Zenon DEF y
    <3>7. y[len + 1] = x /\ \A k \in 1 .. (len + 1) - 1 : y[k] = g[k] /\ g[k].id # i
      <4>1. len + 1 \in 1 .. len + 1 /\ \A k \in 1 .. (len + 1) - 1 : k \in 1 .. len /\ k # len + 1 /\ k \in 1 .. len + 1
        OBVIOUS
      <4> QED  BY <3>1, <3>6, <4>1, Zenon
    <3>8. \E l \in Nat : l = len + 1 /\ l # 0 /\ l # len
      OBVIOUS
    <3>9. PICK l \in Nat : l = len + 1 /\ l # 0 /\ l # len
      BY <3>8
    <3>10. y[l].id = i /\ y[l].size = m[i] /\ y[l].size <= GroupSize
      BY <1>3, <3>2, <3>3, <3>4, <3>7, <3>9
    <3>11. \A k \in 1 .. l - 1 : y[k] = g[k] /\ g[k].id # i
      BY <3>7, <3>9
    <3>12. \A j \in Id : j # i => m[j] = n[j]
      BY <3>4
    <3>13. \A k \in 1 .. len : g[k].id \in Id
      BY <1>2
    <3>14. GrownFits(y, l, m)
      <4>1. len \in Nat /\ l # 0 /\ (l = len \/ l = len + 1) /\ (l = len => g[len].id = i)
        BY <3>9
      <4> HIDE <1>1
      <4>2. Grown(g, len, n, i, y, l, m)
        BY <1>4, <3>2, <3>10, <3>11, <3>12, <3>13, <4>1 DEF Grown
      <4> QED  BY <4>2, Grow
    <3>15. more = y
      BY <2>1 DEF y
    <3> QED  BY <3>2, <3>6, <3>9, <3>14, <3>15
  <2>2. CASE ~FullLast(g)
    <3>1. g # <<>> /\ i = g[Len(g)].id /\ ~(g[Len(g)].size >= GroupSize)
      BY <2>2 DEF FullLast, GroupId, Last
    <3>2. len # 0 /\ i = g[len].id /\ ~(g[len].size >= GroupSize)
      BY <1>1, <3>1
    <3> HIDE DEF i
    <3>3. len \in 1 .. len /\ i \in Id /\ g[len] \in Group /\ g[len].size \in Nat
      BY <1>2, <3>2
    <3>4. g[len].size = n[i] /\ \A k \in 1 .. len - 1 : g[k].id # i
      <4>1. \A k \in 1 .. len - 1 : k \in 1 .. len /\ k # len
        OBVIOUS
      <4> QED  BY <1>4, <3>2, <3>3, <4>1 DEF Fits
    <3>5. e = [g[len] EXCEPT !.size = @ + 1]
      BY <1>1
    <3> HIDE DEF e
    <3>6. e \in Group /\ e.id = i /\ e.size = n[i] + 1
      <4>1. g[len] \in [id : Id, size : Nat] /\ g[len].size + 1 \in Nat
        BY <3>3 DEF Group
      <4>2. e \in [id : Id, size : Nat] /\ e.id = g[len].id /\ e.size = g[len].size + 1
        BY <3>5, <4>1
      <4> QED  BY <3>2, <3>4, <4>2 DEF Group
    <3>7. \A j \in Id : m[j] = IF j = i THEN n[i] + 1 ELSE n[j]
      BY <3>3
    <3> DEFINE y == [g EXCEPT ![Len(g)] = e]
    <3>8. y \in Seq(Group) /\ Len(y) = Len(g) /\ \A k \in 1 .. Len(g) : y[k] = IF k = Len(g) THEN e ELSE g[k]
      <4>1. Len(g) \in 1 .. Len(g)
        BY <1>1, <3>3
      <4> QED  BY <3>6, <4>1, ExceptSeq
    <3> HIDE DEF y, m
    <3>9. y[len] = e /\ \A k \in 1 .. len - 1 : y[k] = g[k]
      <4>1. \A k \in 1 .. len : y[k] = IF k = len THEN e ELSE g[k]
        BY <1>1, <3>8, Zenon
      <4> HIDE <1>1
      <4>2. \A k \in 1 .. len - 1 : k \in 1 .. len /\ k # len
        OBVIOUS
      <4> QED  BY <3>3, <4>1, <4>2, Zenon
    <3>10. y[len].id = i /\ y[len].size = m[i] /\ y[len].size <= GroupSize
      BY <1>3, <3>2, <3>3, <3>4, <3>6, <3>7, <3>9
    <3>11. \A k \in 1 .. len - 1 : y[k] = g[k] /\ g[k].id # i
      BY <3>4, <3>9
    <3>12. \A j \in Id : j # i => m[j] = n[j]
      BY <3>7
    <3>13. \A k \in 1 .. len : g[k].id \in Id
      BY <1>2
    <3> PICK l \in Nat : l = len
      OBVIOUS
    <3>14. GrownFits(y, l, m)
      <4>1. len \in Nat /\ (l = len \/ l = len + 1) /\ l # 0 /\ (l = len => g[len].id = i)
        BY <3>2
      <4>2. y[l].id = i /\ y[l].size = m[i] /\ y[l].size <= GroupSize /\ \A k \in 1 .. l - 1 : y[k] = g[k] /\ g[k].id # i
        BY <3>10, <3>11
      <4> HIDE <1>1
      <4>3. Grown(g, len, n, i, y, l, m)
        BY <1>4, <3>3, <3>12, <3>13, <4>1, <4>2 DEF Grown
      <4> QED  BY <4>3, Grow
    <3>15. more = y /\ len = Len(y) /\ len \in Nat \ {0}
      BY <1>1, <2>2, <3>2, <3>8 DEF y
    <3> QED  BY <3>3, <3>8, <3>14, <3>15
  <2> QED  BY <2>1, <2>2
<1>6. Acquire(g) = IF Last(more).size = GroupSize THEN <<Last(more)>> \o Front(more) ELSE more
  BY DEF Acquire
<1> HIDE DEF more, m, i, e, x
<1>7. Last(more) = more[l] /\ Front(more) = SubSeq(more, 1, l - 1)
  BY <1>5 DEF Last, Front
<1>8. CASE more[l].size # GroupSize
  <2>1. Acquire(g) = more
    BY <1>6, <1>7, <1>8
  <2>2. Fits(more, l, m)
    <3>1. \A k \in 1 .. l : \A j \in 1 .. k - 1 : more[k].size = GroupSize => more[j].size = GroupSize
      <4> SUFFICES ASSUME NEW k \in 1 .. l, NEW j \in 1 .. k - 1, more[k].size = GroupSize PROVE more[j].size = GroupSize
        OBVIOUS
      <4>1. k \in 1 .. l - 1
        <5>1. k # l
          BY <1>8
        <5> HIDE <1>5
        <5> QED  BY <5>1
      <4> QED  BY <1>5, <4>1 DEF GrownFits
    <3> QED  BY <1>5, <3>1 DEF Fits, GrownFits
  <2> QED  BY <1>5, <2>1, <2>2 DEF m, i, GroupsFit
<1>9. CASE more[l].size = GroupSize
  <2> DEFINE a == <<more[l]>>
             b == SubSeq(more, 1, l - 1)
             new == a \o b
  <2>1. Acquire(g) = new
    BY <1>6, <1>7, <1>9
  <2>2. more[l] \in Group /\ \A k \in 1 .. l - 1 : more[k] \in Group
    <3>1. \A k \in 1 .. l : more[k] \in Group
      BY <1>5
    <3>2. l \in 1 .. l /\ \A k \in 1 .. l - 1 : k \in 1 .. l
      OBVIOUS
    <3> QED  BY <3>1, <3>2
  <2>3. a \in Seq(Group) /\ Len(a) = 1 /\ a[1] = more[l]
    BY <2>2
  <2>4. b \in Seq(Group) /\ Len(b) = l - 1 /\ \A k \in 1 .. l - 1 : b[k] = more[k]
    <3>1. 1 \in Nat \ {0} /\ l - 1 \in Nat /\ l - 1 <= Len(more) /\ 1 <= (l - 1) + 1
      BY <1>5
    <3>2. b \in Seq(Group) /\ Len(b) = (l - 1) - 1 + 1 /\ \A k \in 1 .. (l - 1) - 1 + 1 : b[k] = more[1 + k - 1]
      BY <1>5, <3>1, PieceIs
    <3> HIDE DEF b
    <3>3. (l - 1) - 1 + 1 = l - 1 /\ \A k \in 1 .. l - 1 : 1 + k - 1 = k
      OBVIOUS
    <3> QED  BY <3>2, <3>3
  <2> HIDE DEF a, b
  <2>5. new \in Seq(Group) /\ Len(new) = Len(a) + Len(b)
        /\ \A k \in 1 .. Len(a) + Len(b) : new[k] = IF k <= Len(a) THEN a[k] ELSE b[k - Len(a)]
    BY <2>3, <2>4, ConcatProperties, Zenon
  <2> HIDE DEF new
  <2>6. Len(new) = l /\ \A k \in 1 .. l : new[k] = IF k = 1 THEN more[l] ELSE more[k - 1]
    <3>1. Len(a) + Len(b) = l
      BY <2>3, <2>4
    <3>2. \A k \in 1 .. l : new[k] = IF k <= 1 THEN a[k] ELSE b[k - 1]
      BY <2>3, <2>5, <3>1
    <3>3. \A k \in 1 .. l : IF k <= 1 THEN k = 1 ELSE k # 1 /\ k - 1 \in 1 .. l - 1
      OBVIOUS
    <3> QED  BY <2>3, <2>4, <2>5, <3>1, <3>2, <3>3
  <2>7. Fits(new, l, m)
    BY <1>5, <1>9, <2>6, ToFront
  <2> QED  BY <1>5, <2>1, <2>5, <2>6, <2>7 DEF m, i, GroupsFit
<1> QED  BY <1>8, <1>9

(* A group that has lost one goes to the end. *)
LEMMA Shrink ==
    ASSUME NEW g, NEW l \in Nat, NEW n, Fits(g, l, n), NEW at \in 1 .. l, NEW i \in Id, NEW m, NEW new,
           \A k \in 1 .. l : g[k].id \in Id,
           g[at].id = i, n[i] \in Nat \ {0}, m[i] = n[i] - 1, \A j \in Id : j # i => m[j] = n[j],
           \A k \in 1 .. l - 1 : new[k] = IF k < at THEN g[k] ELSE g[k + 1],
           new[l].id = i, new[l].size = m[i]
    PROVE  Fits(new, l, m)
<1> DEFINE o(k) == IF k < at THEN k ELSE k + 1
<1>0. GroupSize \in Nat
  BY WepollAssumption
<1>1. \A k \in 1 .. l : k = l \/ k \in 1 .. l - 1
  OBVIOUS
<1>2. \A k \in 1 .. l - 1 : o(k) \in 1 .. l /\ o(k) # at
  OBVIOUS
<1>3. \A j, k \in 1 .. l - 1 : (o(j) = o(k) => j = k) /\ (j < k => o(j) < o(k))
  OBVIOUS
<1>4. \A k \in 1 .. l - 1 : new[k] = g[o(k)]
  OBVIOUS
<1>5. \A k \in 1 .. l : k # at => \E j \in 1 .. l - 1 : o(j) = k
  <2> SUFFICES ASSUME NEW k \in 1 .. l, k # at PROVE \E j \in 1 .. l - 1 : o(j) = k
    OBVIOUS
  <2>1. CASE k < at
    <3>1. k \in 1 .. l - 1 /\ o(k) = k
      BY <2>1
    <3> QED  BY <3>1
  <2>2. CASE ~(k < at)
    <3>1. k - 1 \in 1 .. l - 1 /\ o(k - 1) = k
      BY <2>2
    <3> QED  BY <3>1
  <2> QED  BY <2>1, <2>2
<1> HIDE DEF o
<1>6. \A k \in 1 .. l - 1 : new[k].id # i /\ new[k].id \in Id
  BY <1>2, <1>4 DEF Fits
<1>7. l \in 1 .. l /\ new[l].size < GroupSize
  <2>1. g[at].size = n[i] /\ g[at].size <= GroupSize
    BY DEF Fits
  <2> QED  BY <1>0, <2>1
<1>8. \A j, k \in 1 .. l : new[j].id = new[k].id => j = k
  <2> SUFFICES ASSUME NEW j \in 1 .. l, NEW k \in 1 .. l, new[j].id = new[k].id PROVE j = k
    OBVIOUS
  <2>1. CASE j = l
    BY <1>1, <1>6, <2>1
  <2>2. CASE k = l
    BY <1>1, <1>6, <2>2
  <2>3. CASE j # l /\ k # l
    <3>1. j \in 1 .. l - 1 /\ k \in 1 .. l - 1
      BY <1>1, <2>3
    <3>2. o(j) = o(k)
      BY <1>2, <1>4, <3>1 DEF Fits
    <3> QED  BY <1>3, <3>1, <3>2
  <2> QED  BY <2>1, <2>2, <2>3
<1>9. \A k \in 1 .. l : new[k].size = m[new[k].id] /\ new[k].size <= GroupSize
  <2> SUFFICES ASSUME NEW k \in 1 .. l PROVE new[k].size = m[new[k].id] /\ new[k].size <= GroupSize
    OBVIOUS
  <2>1. CASE k = l
    <3>1. g[at].size = n[i] /\ g[at].size <= GroupSize
      BY DEF Fits
    <3> QED  BY <1>0, <2>1, <3>1
  <2>2. CASE k # l
    <3>1. k \in 1 .. l - 1
      BY <1>1, <2>2
    <3>2. new[k].size = n[new[k].id] /\ new[k].size <= GroupSize
      BY <1>2, <1>4, <3>1 DEF Fits
    <3> QED  BY <1>6, <3>1, <3>2
  <2> QED  BY <2>1, <2>2
<1>10. \A k \in 1 .. l : \A j \in 1 .. k - 1 : new[k].size = GroupSize => new[j].size = GroupSize
  <2> SUFFICES ASSUME NEW k \in 1 .. l, NEW j \in 1 .. k - 1, new[k].size = GroupSize PROVE new[j].size = GroupSize
    OBVIOUS
  <2>1. k # l
    BY <1>0, <1>7
  <2>2. k \in 1 .. l - 1 /\ j \in 1 .. l - 1 /\ j < k
    BY <2>1
  <2>3. o(j) \in 1 .. l /\ o(k) \in 1 .. l /\ o(j) < o(k)
    BY <1>2, <1>3, <2>2
  <2>4. o(j) \in 1 .. o(k) - 1
    BY <2>3
  <2>5. g[o(k)].size = GroupSize => g[o(j)].size = GroupSize
    BY <2>3, <2>4 DEF Fits
  <2> QED  BY <1>4, <2>2, <2>5
<1>11. ASSUME NEW j \in Id, m[j] # 0 PROVE \E k \in 1 .. l : new[k].id = j
  <2>1. CASE j = i
    BY <1>7, <2>1
  <2>2. CASE j # i
    <3>1. PICK k \in 1 .. l : g[k].id = j
      BY <1>11, <2>2 DEF Fits
    <3>2. PICK q \in 1 .. l - 1 : o(q) = k
      BY <1>5, <2>2, <3>1
    <3>3. q \in 1 .. l /\ new[q].id = j
      BY <1>4, <3>1, <3>2
    <3> QED  BY <3>3
  <2> QED  BY <2>1, <2>2
<1> QED  BY <1>8, <1>9, <1>10, <1>11 DEF Fits

(* poll_group_release *)
LEMMA ReleaseFits ==
    ASSUME NEW g \in Seq(Group), NEW n \in [Id -> Nat], GroupsFit(g, n), NEW i \in Id, n[i] # 0
    PROVE  Release(g, i) \in Seq(Group) /\ GroupsFit(Release(g, i), [n EXCEPT ![i] = @ - 1])
<1> DEFINE m == [n EXCEPT ![i] = @ - 1]
<1>1. PICK l \in Nat : l = Len(g)
  OBVIOUS
<1>2. Fits(g, l, n)
  BY <1>1 DEF GroupsFit
<1>3. \A k \in 1 .. l : g[k] \in Group /\ g[k].id \in Id /\ g[k].size \in Nat
  <2>1. \A k \in 1 .. l : g[k] \in Group
    BY <1>1
  <2> QED  BY <2>1, Zenon DEF Group
<1>4. PICK at \in 1 .. l : g[at].id = i /\ Release(g, i) = Append(RemoveAt(g, at), [g[at] EXCEPT !.size = @ - 1])
  <2> DEFINE Is(k) == g[k].id = i
             at == CHOOSE k \in DOMAIN g : Is(k)
  <2>1. \E k \in 1 .. l : Is(k)
    BY <1>2 DEF Fits
  <2>2. DOMAIN g = 1 .. l
    BY <1>1
  <2>3. Release(g, i) = Append(RemoveAt(g, at), [g[at] EXCEPT !.size = @ - 1])
    BY Zenon DEF Release
  <2> HIDE DEF Is
  <2>4. at \in 1 .. l /\ Is(at)
    BY <2>1, <2>2, Zenon
  <2> HIDE DEF at
  <2> QED  BY <2>3, <2>4, Zenon DEF Is
<1> DEFINE cut == RemoveAt(g, at)
           e == [g[at] EXCEPT !.size = @ - 1]
           new == Append(cut, e)
<1>5. cut \in Seq(Group) /\ Len(cut) = l - 1 /\ \A k \in 1 .. l - 1 : cut[k] = IF k < at THEN g[k] ELSE g[k + 1]
  BY <1>1, RemoveAtIs, Zenon
<1>6. g[at].size = n[i] /\ n[i] \in Nat \ {0}
  BY <1>2, <1>4 DEF Fits
<1>7. e \in Group /\ e.id = i /\ e.size = n[i] - 1
  <2>1. g[at] \in [id : Id, size : Nat] /\ g[at].size - 1 \in Nat
    BY <1>3, <1>6 DEF Group
  <2>2. e \in [id : Id, size : Nat] /\ e.id = g[at].id /\ e.size = g[at].size - 1
    BY <2>1
  <2> QED  BY <1>4, <1>6, <2>2 DEF Group
<1>8. m[i] = n[i] - 1 /\ \A j \in Id : j # i => m[j] = n[j]
  OBVIOUS
<1> HIDE DEF cut, e, m
<1>9. new \in Seq(Group) /\ Len(new) = Len(cut) + 1 /\ \A k \in 1 .. Len(cut) + 1 : new[k] = IF k = Len(cut) + 1 THEN e ELSE cut[k]
  BY <1>5, <1>7, AppendIs
<1> HIDE DEF new
<1>10. Len(new) = l /\ \A k \in 1 .. l : new[k] = IF k = l THEN e ELSE cut[k]
  <2>1. Len(cut) + 1 = l
    BY <1>5
  <2> QED  BY <1>9, <2>1, Zenon
<1>11. new[l].id = i /\ new[l].size = m[i] /\ \A k \in 1 .. l - 1 : new[k] = IF k < at THEN g[k] ELSE g[k + 1]
  <2>1. l \in 1 .. l /\ \A k \in 1 .. l - 1 : k \in 1 .. l /\ k # l
    OBVIOUS
  <2> QED  BY <1>5, <1>7, <1>8, <1>10, <2>1, Zenon
<1>12. \A k \in 1 .. l : g[k].id \in Id
  BY <1>3
<1>13. Fits(new, l, m)
  BY <1>2, <1>4, <1>6, <1>8, <1>11, <1>12, Shrink, SMTT(30)
<1> QED  BY <1>4, <1>9, <1>10, <1>13 DEF GroupsFit, cut, e, new, m

-----------------------------------------------------------------------------
(* What the functions of the port change *)

(* port_request_socket_update *)
LEMMA RequestIs ==
    ASSUME NEW p \in Port, NEW r \in Reg, Distinct(p.upd)
    PROVE  LET q == Request(p, r)
           IN  /\ q \in Port /\ q.st = p.st /\ q.groups = p.groups /\ q.sent = p.sent /\ q.stop = p.stop
               /\ Distinct(q.upd) /\ Range(q.upd) = Range(p.upd) \cup {r}
<1>1. CASE r \in Range(p.upd)
  BY <1>1 DEF Request
<1>2. CASE r \notin Range(p.upd)
  <2> DEFINE new == Append(p.upd, r)
  <2>1. p.upd \in Seq(Reg)
    BY DEF Port, Queues
  <2>2. PICK l \in Nat : l = Len(p.upd)
    BY <2>1
  <2>3. new \in Seq(Reg) /\ Len(new) = l + 1 /\ \A k \in 1 .. l + 1 : new[k] = IF k = l + 1 THEN r ELSE p.upd[k]
    BY <2>1, <2>2, AppendIs
  <2>4. \A k \in 1 .. l : p.upd[k] # r
    BY <1>2, <2>1, <2>2, InRange
  <2> HIDE DEF new
  <2>5. \A k \in 1 .. l + 1 : k = l + 1 \/ k \in 1 .. l
    OBVIOUS
  <2>6. l + 1 \in 1 .. l + 1 /\ \A k \in 1 .. l : k \in 1 .. l + 1 /\ k # l + 1
    OBVIOUS
  <2>7. \A j, k \in 1 .. l + 1 : new[j] = new[k] => j = k
    BY <2>2, <2>3, <2>4, <2>5 DEF Distinct
  <2>8. Distinct(new)
    BY <2>3, <2>7 DEF Distinct
  <2>9. Range(new) = Range(p.upd) \cup {r}
    <3>1. \A x : x \in Range(new) <=> \E k \in 1 .. l + 1 : new[k] = x
      BY <2>3, InRange
    <3>2. \A x : x \in Range(p.upd) <=> \E k \in 1 .. l : p.upd[k] = x
      BY <2>1, <2>2, InRange
    <3> HIDE <2>2
    <3>3. ASSUME NEW x PROVE x \in Range(new) <=> x \in Range(p.upd) \cup {r}
      BY <2>3, <2>5, <2>6, <3>1, <3>2
    <3> QED  BY <3>3
  <2>10. Request(p, r) = [p EXCEPT !.upd = new]
    BY <1>2 DEF Request, new
  <2>11. new \in Queues
    BY <2>3 DEF Queues
  <2> QED  BY <2>8, <2>9, <2>10, <2>11 DEF Port
<1> QED  BY <1>1, <1>2

(* port_cancel_socket_update *)
LEMMA ForgetIs ==
    ASSUME NEW p \in Port, NEW r \in Reg, Distinct(p.upd)
    PROVE  LET q == Forget(p, r)
           IN  /\ q \in Port /\ q.st = p.st /\ q.groups = p.groups /\ q.sent = p.sent /\ q.stop = p.stop
               /\ Distinct(q.upd) /\ Range(q.upd) = Range(p.upd) \ {r}
               /\ Len(q.upd) = IF r \in Range(p.upd) THEN Len(p.upd) - 1 ELSE Len(p.upd)
<1>1. CASE r \notin Range(p.upd)
  BY <1>1 DEF Forget
<1>2. CASE r \in Range(p.upd)
  <2>1. p.upd \in Seq(Reg)
    BY DEF Port, Queues
  <2>2. PICK l \in Nat : l = Len(p.upd)
    BY <2>1
  <2>3. \A x : x \in Range(p.upd) <=> \E k \in 1 .. l : p.upd[k] = x
    BY <2>1, <2>2, InRange
  <2> DEFINE Is(k) == p.upd[k] = r
             at == CHOOSE k \in DOMAIN p.upd : Is(k)
             new == RemoveAt(p.upd, at)
  <2>4. Forget(p, r) = [p EXCEPT !.upd = new]
    BY <1>2, Zenon DEF Forget
  <2>5. at \in 1 .. l /\ p.upd[at] = r
    <3>1. DOMAIN p.upd = 1 .. l
      BY <2>1, <2>2
    <3>2. \E k \in 1 .. l : Is(k)
      BY <1>2, <2>3
    <3> HIDE DEF Is
    <3>3. at \in 1 .. l /\ Is(at)
      BY <3>1, <3>2, Zenon
    <3> HIDE DEF at
    <3> QED  BY <3>3, Zenon DEF Is
  <2> HIDE DEF at, Is
  <2>6. new \in Seq(Reg) /\ Len(new) = l - 1 /\ \A k \in 1 .. l - 1 : new[k] = IF k < at THEN p.upd[k] ELSE p.upd[k + 1]
    BY <2>1, <2>2, <2>5, RemoveAtIs
  <2> HIDE DEF new
  <2> DEFINE o(k) == IF k < at THEN k ELSE k + 1
  <2>7. \A k \in 1 .. l - 1 : o(k) \in 1 .. l /\ o(k) # at /\ new[k] = p.upd[o(k)]
    <3> HIDE <2>2
    <3> QED  BY <2>5, <2>6
  <2>8. \A j, k \in 1 .. l - 1 : o(j) = o(k) => j = k
    <3> HIDE <2>2
    <3> QED  BY <2>5
  <2>9. \A k \in 1 .. l : k # at => \E j \in 1 .. l - 1 : o(j) = k
    <3> HIDE <2>2
    <3> SUFFICES ASSUME NEW k \in 1 .. l, k # at PROVE \E j \in 1 .. l - 1 : o(j) = k
      OBVIOUS
    <3>1. CASE k < at
      <4>1. k \in 1 .. l - 1 /\ o(k) = k
        BY <2>5, <3>1
      <4> QED  BY <4>1
    <3>2. CASE ~(k < at)
      <4>1. k - 1 \in 1 .. l - 1 /\ o(k - 1) = k
        BY <2>5, <3>2
      <4> QED  BY <4>1
    <3> QED  BY <3>1, <3>2
  <2> HIDE DEF o
  <2>10. \A j, k \in 1 .. l : p.upd[j] = p.upd[k] => j = k
    BY <2>2 DEF Distinct
  <2>11. \A j, k \in 1 .. l - 1 : new[j] = new[k] => j = k
    BY <2>7, <2>8, <2>10, Zenon
  <2>12. Distinct(new)
    BY <2>6, <2>11 DEF Distinct
  <2>13. Range(new) = Range(p.upd) \ {r}
    <3>1. \A x : x \in Range(new) <=> \E k \in 1 .. l - 1 : new[k] = x
      BY <2>6, InRange
    <3>2. ASSUME NEW x, x \in Range(new) PROVE x \in Range(p.upd) /\ x # r
      <4>1. PICK k \in 1 .. l - 1 : new[k] = x
        BY <3>1, <3>2
      <4>2. o(k) \in 1 .. l /\ o(k) # at /\ p.upd[o(k)] = x
        BY <2>7, <4>1
      <4> QED  BY <2>3, <2>5, <2>10, <4>2, Zenon
    <3>3. ASSUME NEW x, x \in Range(p.upd), x # r PROVE x \in Range(new)
      <4>1. PICK k \in 1 .. l : p.upd[k] = x
        BY <2>3, <3>3
      <4>2. PICK j \in 1 .. l - 1 : o(j) = k
        BY <2>5, <2>9, <3>3, <4>1
      <4> QED  BY <2>7, <3>1, <4>1, <4>2, Zenon
    <3> QED  BY <3>2, <3>3
  <2>14. new \in Queues
    BY <2>6 DEF Queues
  <2> QED  BY <1>2, <2>2, <2>4, <2>6, <2>12, <2>13, <2>14 DEF Port
<1> QED  BY <1>1, <1>2

(* What an object must not be when its fields change *)
LEMMA ChangeFit ==
    ASSUME NEW p, PortFit(p), NEW q \in Port, NEW r \in Reg, NEW x \in SockState,
           q.st = [p.st EXCEPT ![r] = x], p.st[r].mem # "free", x.mem # "free",
           x.group = p.st[r].group, x.sock = p.st[r].sock, x.mem = "live" => p.st[r].mem = "live",
           q.groups = p.groups, Distinct(q.upd),
           \A k \in Range(q.upd) : IF k = r THEN x.mem = "live" ELSE k \in Range(p.upd)
    PROVE  PortFit(q)
<1>1. p.st \in [Reg -> SockState] /\ \A k \in Reg : q.st[k] = IF k = r THEN x ELSE p.st[k]
  BY DEF PortFit, Port
<1>2. Count(q.st) = Count(p.st)
  BY <1>1, CountSame
<1>3. RegsFit(q.st)
  <2>1. RegsFit(p.st)
    BY DEF PortFit
  <2>2. x.group # 0
    BY <2>1 DEF RegsFit
  <2>3. \A k \in Reg : IF q.st[k].mem = "free" THEN q.st[k] = NoReg ELSE q.st[k].group # 0
    BY <1>1, <2>1, <2>2 DEF RegsFit
  <2>4. \A k \in Reg : q.st[k].sock = p.st[k].sock /\ (q.st[k].mem = "live" => p.st[k].mem = "live")
    BY <1>1
  <2>5. \A j, k \in Reg : q.st[j].mem = "live" /\ q.st[k].mem = "live" /\ q.st[j].sock = q.st[k].sock => j = k
    BY <2>1, <2>4 DEF RegsFit
  <2> QED  BY <2>3, <2>5, ZenonT(30) DEF RegsFit
<1>4. \A k \in Range(q.upd) : q.st[k].mem = "live"
  <2>1. Range(q.upd) \subseteq Reg
    BY InRange DEF Port, Queues
  <2> QED  BY <1>1, <2>1 DEF PortFit
<1> QED  BY <1>2, <1>3, <1>4 DEF PortFit

(* poll_group_release and the memory of a sock_state *)
LEMMA FreeIs ==
    ASSUME NEW p, PortFit(p), NEW r \in Reg, p.st[r].mem # "free", r \notin Range(p.upd)
    PROVE  LET q == Free(p, r)
           IN  /\ PortFit(q) /\ q.st = [p.st EXCEPT ![r] = NoReg]
               /\ q.upd = p.upd /\ q.sent = p.sent /\ q.stop = p.stop
<1> DEFINE q == Free(p, r)
           i == p.st[r].group
<1>1. p \in Port /\ p.st \in [Reg -> SockState] /\ p.groups \in Seq(Group) /\ GroupsFit(p.groups, Count(p.st)) /\ RegsFit(p.st)
  BY DEF PortFit, Port, Lists
<1>2. NoReg \in SockState /\ NoReg.group = 0 /\ NoReg.mem = "free"
  BY DEF NoReg, SockState
<1>3. i # 0
  BY <1>1 DEF RegsFit
<1>4. /\ i \in Id /\ Count(p.st)[i] \in Nat \ {0}
      /\ Count([p.st EXCEPT ![r] = NoReg]) = [Count(p.st) EXCEPT ![i] = @ - 1]
  BY <1>1, <1>2, <1>3, CountLess
<1> DEFINE g == Release(p.groups, i)
<1>5. g \in Seq(Group) /\ GroupsFit(g, [Count(p.st) EXCEPT ![i] = @ - 1])
  <2>1. Count(p.st) \in [Id -> Nat]
    BY CountType
  <2> QED  BY <1>1, <1>4, <2>1, ReleaseFits
<1> HIDE DEF g
<1>6. q = [p EXCEPT !.groups = g, !.st[r] = NoReg]
  BY DEF Free, g
<1>7. g \in Lists
  BY <1>5 DEF Lists
<1>8. q \in Port /\ q.st = [p.st EXCEPT ![r] = NoReg] /\ q.groups = g /\ q.upd = p.upd /\ q.sent = p.sent /\ q.stop = p.stop
  <2>1. p \in Port /\ NoReg \in SockState
    BY <1>1, <1>2
  <2> DEFINE to == [p.st EXCEPT ![r] = NoReg]
  <2>2. to \in [Reg -> SockState]
    BY <1>1, <2>1
  <2>3. q = [p EXCEPT !.groups = g, !.st = to]
    BY <1>6, <2>1 DEF Port
  <2> HIDE DEF to, q
  <2>4. q \in Port /\ q.st = to /\ q.groups = g /\ q.upd = p.upd /\ q.sent = p.sent /\ q.stop = p.stop
    BY <1>7, <2>1, <2>2, <2>3 DEF Port
  <2> QED  BY <2>4 DEF to
<1> HIDE DEF q
<1>9. RegsFit(q.st)
  <2>1. \A k \in Reg : q.st[k] = IF k = r THEN NoReg ELSE p.st[k]
    BY <1>1, <1>8
  <2> QED  BY <1>1, <1>2, <2>1 DEF RegsFit
<1>10. \A k \in Range(q.upd) : q.st[k].mem = "live"
  <2>1. Range(p.upd) \subseteq Reg
    BY <1>1, InRange DEF Port, Queues
  <2> QED  BY <1>1, <1>8, <2>1 DEF PortFit
<1>11. GroupsFit(q.groups, Count(q.st))
  BY <1>4, <1>5, <1>8
<1>12. PortFit(q)
  BY <1>8, <1>9, <1>10, <1>11 DEF PortFit
<1> QED  BY <1>8, <1>12 DEF q

-----------------------------------------------------------------------------
(* Each function leaves the port sound. *)

(* Nothing has changed but the object r. *)
Others(p, q, r) ==
    \A k \in Reg : k # r => /\ q.st[k] = p.st[k] /\ (k \in Range(q.upd) <=> k \in Range(p.upd))
                            /\ (k \in q.sent <=> k \in p.sent) /\ (k \in q.stop <=> k \in p.stop)

(* A change of one object keeps Sound when the object itself is looked after. *)
LEMMA OthersSound ==
    ASSUME NEW p, NEW q, NEW r \in Reg, NEW out, NEW wait, NEW up, NEW left, Sound(p, out, wait, up),
           PortFit(q), Others(p, q, r), LookedAfter(q, r), Linked(q, r, left, wait, up),
           \A k \in Reg : k # r => (k \in left <=> k \in out)
    PROVE  Sound(q, left, wait, up)
<1>1. ASSUME NEW k \in Reg, k # r PROVE LookedAfter(q, k) /\ Linked(q, k, left, wait, up)
  <2>1. LookedAfter(p, k) /\ Linked(p, k, out, wait, up)
    BY DEF Sound
  <2>2. /\ q.st[k] = p.st[k] /\ (k \in Range(q.upd) <=> k \in Range(p.upd))
        /\ (k \in q.sent <=> k \in p.sent) /\ (k \in q.stop <=> k \in p.stop) /\ (k \in left <=> k \in out)
    BY <1>1 DEF Others
  <2>3. LookedAfter(q, k)
    BY <2>1, <2>2, Zenon DEF LookedAfter
  <2>4. Linked(q, k, left, wait, up)
    BY <2>1, <2>2, Zenon DEF Linked
  <2> QED  BY <2>3, <2>4
<1> QED  BY <1>1, Zenon DEF Sound

(* What a port consists of, without the sequences *)
LEMMA PortParts ==
    ASSUME NEW p \in Port
    PROVE  /\ p.st \in [Reg -> SockState] /\ p.sent \in SUBSET Reg /\ p.stop \in SUBSET Reg
           /\ p.upd \in Seq(Reg) /\ Range(p.upd) \subseteq Reg /\ p.groups \in Seq(Group)
<1>1. p.upd \in Seq(Reg) /\ p.groups \in Seq(Group) /\ p.st \in [Reg -> SockState] /\ p.sent \in SUBSET Reg /\ p.stop \in SUBSET Reg
  BY DEF Port, Queues, Lists
<1> QED  BY <1>1, InRange

(* Another state of an object *)
Set(p, r, x, sent, stop) == [p EXCEPT !.st = [@ EXCEPT ![r] = x], !.sent = sent, !.stop = stop]
(* Set changes what it says, and nothing else. *)
LEMMA SetIs ==
    ASSUME NEW p \in Port, NEW r \in Reg, NEW x \in SockState, NEW sent \in SUBSET Reg, NEW stop \in SUBSET Reg
    PROVE  LET q == Set(p, r, x, sent, stop)
           IN  /\ q \in Port /\ q.st = [p.st EXCEPT ![r] = x] /\ q.upd = p.upd /\ q.groups = p.groups
               /\ q.sent = sent /\ q.stop = stop
BY DEF Port, Set

(* sock__cancel_poll *)
LEMMA CancelIs ==
    ASSUME NEW p, PortFit(p), NEW r \in Reg, p.st[r].mem # "free"
    PROVE  LET q == Cancel(p, r)
               x == [p.st[r] EXCEPT !.poll = "cancelled", !.mon = {}]
           IN  /\ PortFit(q) /\ q.st = [p.st EXCEPT ![r] = x] /\ x \in SockState
               /\ q.upd = p.upd /\ q.sent = p.sent /\ q.stop = p.stop \cup {r}
<1> DEFINE x == [p.st[r] EXCEPT !.poll = "cancelled", !.mon = {}]
           q == Set(p, r, x, p.sent, p.stop \cup {r})
<1>1. p \in Port /\ p.st \in [Reg -> SockState] /\ p.sent \in SUBSET Reg /\ p.stop \in SUBSET Reg
  BY PortParts DEF PortFit
<1>2. x \in SockState /\ x.mem = p.st[r].mem /\ x.group = p.st[r].group /\ x.sock = p.st[r].sock
  <2>1. p.st[r] \in SockState
    BY <1>1
  <2> QED  BY <2>1 DEF SockState
<1>3. Cancel(p, r) = q
  BY <1>1 DEF Cancel, Port, Set
<1> HIDE DEF x
<1>4. /\ q \in Port /\ q.st = [p.st EXCEPT ![r] = x] /\ q.upd = p.upd /\ q.groups = p.groups
      /\ q.sent = p.sent /\ q.stop = p.stop \cup {r}
  <2>1. p.stop \cup {r} \in SUBSET Reg
    BY <1>1
  <2> QED  BY <1>1, <1>2, <2>1, SetIs
<1> HIDE DEF q
<1>5. Distinct(q.upd) /\ \A k \in Range(q.upd) : IF k = r THEN x.mem = "live" ELSE k \in Range(p.upd)
  BY <1>2, <1>4 DEF PortFit
<1>6. PortFit(q)
  BY <1>2, <1>4, <1>5, ChangeFit
<1> QED  BY <1>2, <1>3, <1>4, <1>6 DEF x

(* sock__delete, its first half ... *)
LEMMA DismissIs ==
    ASSUME NEW p, PortFit(p), NEW r \in Reg, p.st[r].mem # "free"
    PROVE  LET q == Dismiss(p, r)
               stops == p.st[r].mem = "live" /\ p.st[r].poll = "pending"
           IN  /\ PortFit(q) /\ Others(p, q, r) /\ r \notin Range(q.upd) /\ q.st \in [Reg -> SockState]
               /\ Len(q.upd) = IF r \in Range(p.upd) THEN Len(p.upd) - 1 ELSE Len(p.upd)
               /\ q.sent = p.sent /\ q.stop = (IF stops THEN p.stop \cup {r} ELSE p.stop)
               /\ q.st[r].mem = "deleted" /\ q.st[r].poll = (IF stops THEN "cancelled" ELSE p.st[r].poll)
<1> DEFINE c == IF p.st[r].poll = "pending" THEN Cancel(p, r) ELSE p
           f == Forget(c, r)
           d == [f EXCEPT !.st[r].mem = "deleted"]
           q == IF p.st[r].mem = "deleted" THEN p ELSE d
           stops == p.st[r].mem = "live" /\ p.st[r].poll = "pending"
<1>1. p \in Port /\ p.st \in [Reg -> SockState] /\ p.sent \in SUBSET Reg /\ p.stop \in SUBSET Reg /\ Distinct(p.upd)
  BY PortParts DEF PortFit
<1>2. p.st[r] \in SockState /\ p.st[r].mem \in {"live", "deleted"} /\ p.st[r].poll \in {"idle", "pending", "cancelled"}
  <2>1. p.st[r] \in SockState
    BY <1>1
  <2> QED  BY <2>1 DEF SockState
<1>3. Dismiss(p, r) = q
  BY DEF Dismiss
<1>4. /\ PortFit(q) /\ Others(p, q, r) /\ r \notin Range(q.upd) /\ q.st \in [Reg -> SockState]
      /\ Len(q.upd) = IF r \in Range(p.upd) THEN Len(p.upd) - 1 ELSE Len(p.upd)
      /\ q.sent = p.sent /\ q.stop = (IF stops THEN p.stop \cup {r} ELSE p.stop)
      /\ q.st[r].mem = "deleted" /\ q.st[r].poll = (IF stops THEN "cancelled" ELSE p.st[r].poll)
  <2>1. CASE p.st[r].mem = "deleted"
    <3>1. r \notin Range(p.upd)
      BY <2>1 DEF PortFit
    <3>2. q = p /\ ~stops
      BY <2>1
    <3> HIDE DEF q, stops
    <3> QED  BY <1>1, <2>1, <3>1, <3>2 DEF Others
  <2>2. CASE p.st[r].mem # "deleted"
    <3> DEFINE y == IF stops THEN [p.st[r] EXCEPT !.poll = "cancelled", !.mon = {}] ELSE p.st[r]
    <3>1. /\ PortFit(c) /\ c.st = [p.st EXCEPT ![r] = y] /\ y \in SockState /\ c.upd = p.upd /\ c.sent = p.sent
          /\ c.stop = (IF stops THEN p.stop \cup {r} ELSE p.stop)
      <4>1. CASE stops
        <5>1. c = Cancel(p, r) /\ y = [p.st[r] EXCEPT !.poll = "cancelled", !.mon = {}]
          BY <4>1
        <5> HIDE DEF c, y
        <5> QED  BY <4>1, <5>1, CancelIs
      <4>2. CASE ~stops
        <5>1. c = p /\ y = p.st[r]
          BY <1>2, <2>2, <4>2
        <5> HIDE DEF c, y, stops
        <5>2. p.st = [p.st EXCEPT ![r] = p.st[r]]
          BY <1>1
        <5> QED  BY <1>2, <4>2, <5>1, <5>2
      <4> QED  BY <4>1, <4>2
    <3>2. y.mem = "live" /\ y.poll = (IF stops THEN "cancelled" ELSE p.st[r].poll) /\ y.group = p.st[r].group /\ y.sock = p.st[r].sock
      BY <1>2, <2>2 DEF SockState
    <3> HIDE DEF c, y, stops
    <3>3. c \in Port /\ c.st \in [Reg -> SockState] /\ c.sent \in SUBSET Reg /\ c.stop \in SUBSET Reg /\ Distinct(c.upd)
      BY <3>1, PortParts DEF PortFit
    <3>4. /\ f \in Port /\ f.st = c.st /\ f.groups = c.groups /\ f.sent = c.sent /\ f.stop = c.stop
          /\ Distinct(f.upd) /\ Range(f.upd) = Range(c.upd) \ {r}
          /\ Len(f.upd) = IF r \in Range(c.upd) THEN Len(c.upd) - 1 ELSE Len(c.upd)
      BY <3>3, ForgetIs
    <3> HIDE DEF f
    <3> DEFINE x == [y EXCEPT !.mem = "deleted"]
               e == Set(f, r, x, f.sent, f.stop)
    <3>5. x \in SockState /\ x.mem = "deleted" /\ x.poll = y.poll /\ x.group = y.group /\ x.sock = y.sock
      BY <3>1 DEF SockState
    <3>6. c.st[r] = y /\ f.st[r] = y
      BY <1>1, <3>1, <3>4
    <3>7. d = e
      BY <3>4, <3>6 DEF Port, Set
    <3> HIDE DEF x, d
    <3>8. /\ e \in Port /\ e.st = [f.st EXCEPT ![r] = x] /\ e.upd = f.upd /\ e.groups = f.groups
          /\ e.sent = f.sent /\ e.stop = f.stop
      <4>1. f.sent \in SUBSET Reg /\ f.stop \in SUBSET Reg
        BY <3>3, <3>4
      <4> QED  BY <3>4, <3>5, <4>1, SetIs
    <3> HIDE DEF e
    <3>9. PortFit(e)
      <4>1. e.st = [c.st EXCEPT ![r] = x] /\ e.groups = c.groups /\ Distinct(e.upd)
        BY <3>4, <3>8
      <4>2. c.st[r].mem # "free" /\ x.mem # "free" /\ x.group = c.st[r].group /\ x.sock = c.st[r].sock /\ (x.mem = "live" => c.st[r].mem = "live")
        BY <3>2, <3>5, <3>6
      <4>3. \A k \in Range(e.upd) : IF k = r THEN x.mem = "live" ELSE k \in Range(c.upd)
        BY <3>4, <3>8
      <4> QED  BY <3>1, <3>5, <3>8, <4>1, <4>2, <4>3, ChangeFit
    <3>10. \A k \in Reg : e.st[k] = IF k = r THEN x ELSE p.st[k]
      BY <1>1, <3>1, <3>4, <3>8
    <3>11. Others(p, e, r)
      BY <3>1, <3>4, <3>8, <3>10 DEF Others, stops
    <3>12. q = e
      BY <2>2, <3>7
    <3>13. e.st \in [Reg -> SockState]
      BY <3>8, PortParts
    <3> HIDE DEF q
    <3> QED  BY <3>1, <3>2, <3>4, <3>5, <3>8, <3>9, <3>10, <3>11, <3>12, <3>13
  <2> QED  BY <2>1, <2>2
<1> HIDE DEF q, stops
<1> QED  BY <1>3, <1>4 DEF stops

(* ... and all of it *)
LEMMA DeleteIs ==
    ASSUME NEW p, PortFit(p), NEW r \in Reg, p.st[r].mem # "free"
    PROVE  LET q == Delete(p, r)
               stops == p.st[r].mem = "live" /\ p.st[r].poll = "pending"
           IN  /\ PortFit(q) /\ Others(p, q, r) /\ r \notin Range(q.upd)
               /\ Len(q.upd) = IF r \in Range(p.upd) THEN Len(p.upd) - 1 ELSE Len(p.upd)
               /\ q.sent = p.sent /\ q.stop = IF stops THEN p.stop \cup {r} ELSE p.stop
               /\ IF p.st[r].poll = "idle" THEN q.st[r] = NoReg
                  ELSE q.st[r].mem = "deleted" /\ q.st[r].poll = IF stops THEN "cancelled" ELSE p.st[r].poll
<1> DEFINE q == Dismiss(p, r)
           stops == p.st[r].mem = "live" /\ p.st[r].poll = "pending"
<1>1. Delete(p, r) = IF q.st[r].poll = "idle" THEN Free(q, r) ELSE q
  BY DEF Delete
<1>2. /\ PortFit(q) /\ Others(p, q, r) /\ r \notin Range(q.upd) /\ q.st \in [Reg -> SockState]
      /\ Len(q.upd) = IF r \in Range(p.upd) THEN Len(p.upd) - 1 ELSE Len(p.upd)
      /\ q.sent = p.sent /\ q.stop = (IF stops THEN p.stop \cup {r} ELSE p.stop)
      /\ q.st[r].mem = "deleted" /\ q.st[r].poll = (IF stops THEN "cancelled" ELSE p.st[r].poll)
  BY DismissIs
<1> HIDE DEF q, stops
<1>3. CASE p.st[r].poll = "idle"
  <2>1. ~stops
    BY <1>3 DEF stops
  <2>2. Delete(p, r) = Free(q, r) /\ q.st[r].mem # "free"
    BY <1>1, <1>2, <1>3, <2>1
  <2> DEFINE e == Free(q, r)
  <2>3. PortFit(e) /\ e.st = [q.st EXCEPT ![r] = NoReg] /\ e.upd = q.upd /\ e.sent = q.sent /\ e.stop = q.stop
    BY <1>2, <2>2, FreeIs
  <2> HIDE DEF e
  <2>4. e.st[r] = NoReg /\ \A k \in Reg : k # r => e.st[k] = q.st[k]
    BY <1>2, <2>3
  <2>5. Others(p, e, r)
    BY <1>2, <2>3, <2>4 DEF Others
  <2>6. Delete(p, r) = e
    BY <2>2 DEF e
  <2> QED  BY <1>2, <1>3, <2>3, <2>4, <2>5, <2>6 DEF stops
<1>4. CASE p.st[r].poll # "idle"
  <2>1. Delete(p, r) = q
    BY <1>1, <1>2, <1>4
  <2> QED  BY <1>2, <1>4, <2>1 DEF stops
<1> QED  BY <1>3, <1>4

(* Without the object in the queue the rest is as it was. *)
LEMMA ForgetFit ==
    ASSUME NEW p, PortFit(p), NEW r \in Reg
    PROVE  LET q == Forget(p, r)
           IN  /\ PortFit(q) /\ Others(p, q, r) /\ r \notin Range(q.upd) /\ q.st = p.st
               /\ q.sent = p.sent /\ q.stop = p.stop
               /\ Len(q.upd) = IF r \in Range(p.upd) THEN Len(p.upd) - 1 ELSE Len(p.upd)
<1> DEFINE q == Forget(p, r)
<1>1. p \in Port /\ Distinct(p.upd)
  BY DEF PortFit
<1>2. /\ q \in Port /\ q.st = p.st /\ q.groups = p.groups /\ q.sent = p.sent /\ q.stop = p.stop
      /\ Distinct(q.upd) /\ Range(q.upd) = Range(p.upd) \ {r}
      /\ Len(q.upd) = IF r \in Range(p.upd) THEN Len(p.upd) - 1 ELSE Len(p.upd)
  BY <1>1, ForgetIs
<1> HIDE DEF q
<1>3. PortFit(q)
  BY <1>2 DEF PortFit
<1>4. Others(p, q, r)
  BY <1>2 DEF Others
<1> QED  BY <1>2, <1>3, <1>4 DEF q

(* sock_update takes the first of the queue and starts what it needs. *)
LEMMA UpdateSound ==
    ASSUME NEW p, NEW out, NEW wait, NEW up, Sound(p, out, wait, up), NEW r \in Range(p.upd)
    PROVE  Sound(Update(p, r), out, wait, up) /\ Len(Update(p, r).upd) = Len(p.upd) - 1
<1> DEFINE x == p.st[r]
           to == Update(p, r)
<1>1. PortFit(p) /\ p \in Port /\ Distinct(p.upd)
  BY DEF Sound, PortFit
<1>2. p.st \in [Reg -> SockState] /\ p.sent \in SUBSET Reg /\ p.stop \in SUBSET Reg /\ r \in Reg
  BY <1>1, PortParts
<1>3. x \in SockState /\ x.mem = "live" /\ x.poll \in {"idle", "pending", "cancelled"}
  <2>1. p.st[r] \in SockState
    BY <1>2
  <2>2. p.st[r].mem = "live"
    BY <1>1 DEF PortFit
  <2> QED  BY <2>1, <2>2 DEF SockState
<1>4. Linked(p, r, out, wait, up)
  BY <1>2 DEF Sound
<1>5. r \notin p.sent /\ r \notin p.stop /\ (r \in wait => r \in out /\ x.poll = "pending")
      /\ (r \in out => x.poll # "idle") /\ (up /\ x.poll # "idle" => r \in out)
  BY <1>4 DEF Linked
<1> SUFFICES /\ PortFit(to) /\ Others(p, to, r) /\ LookedAfter(to, r) /\ Linked(to, r, out, wait, up)
             /\ Len(to.upd) = Len(p.upd) - 1
  BY <1>2, OthersSound
<1>6. CASE (x.poll = "pending" /\ x.want \subseteq x.mon) \/ x.poll = "cancelled"
  <2>1. to = Forget(p, r)
    BY <1>6 DEF Update
  <2> HIDE DEF to, x
  <2>2. PortFit(to) /\ Others(p, to, r) /\ r \notin Range(to.upd) /\ to.st = p.st /\ to.sent = p.sent /\ to.stop = p.stop /\ Len(to.upd) = Len(p.upd) - 1
    BY <1>1, <1>2, <2>1, ForgetFit
  <2>3. LookedAfter(to, r)
    BY <1>3, <1>6, <2>2 DEF LookedAfter, x
  <2>4. Linked(to, r, out, wait, up)
    BY <1>5, <2>2 DEF Linked, x
  <2> QED  BY <2>2, <2>3, <2>4
<1>7. CASE x.poll = "pending" /\ ~(x.want \subseteq x.mon)
  <2> DEFINE c == Cancel(p, r)
             y == [p.st[r] EXCEPT !.poll = "cancelled", !.mon = {}]
  <2>1. to = Forget(c, r)
    BY <1>7 DEF Update
  <2>2. PortFit(c) /\ c.st = [p.st EXCEPT ![r] = y] /\ c.upd = p.upd /\ c.sent = p.sent /\ c.stop = p.stop \cup {r}
    BY <1>1, <1>2, <1>3, CancelIs
  <2>3. y.poll = "cancelled"
    BY <1>3 DEF SockState
  <2> HIDE DEF to, c, y
  <2>4. /\ PortFit(to) /\ Others(c, to, r) /\ r \notin Range(to.upd) /\ to.st = c.st /\ to.sent = c.sent /\ to.stop = c.stop
        /\ Len(to.upd) = Len(c.upd) - 1
    BY <1>2, <2>1, <2>2, ForgetFit
  <2>5. to.st[r].poll = "cancelled" /\ \A k \in Reg : k # r => to.st[k] = p.st[k]
    BY <1>2, <2>2, <2>3, <2>4
  <2>6. Others(p, to, r)
    BY <2>2, <2>4, <2>5 DEF Others
  <2>7. LookedAfter(to, r)
    BY <2>5 DEF LookedAfter
  <2>8. Linked(to, r, out, wait, up)
    BY <1>5, <1>7, <2>2, <2>4, <2>5 DEF Linked
  <2> QED  BY <2>2, <2>4, <2>6, <2>7, <2>8
<1>8. CASE x.poll = "idle" /\ "closed" \in level[x.sock]
  <2>1. to = Delete(p, r)
    BY <1>8 DEF Update
  <2>2. /\ PortFit(to) /\ Others(p, to, r) /\ r \notin Range(to.upd) /\ Len(to.upd) = Len(p.upd) - 1
        /\ to.sent = p.sent /\ to.stop = p.stop /\ to.st[r] = NoReg
    <3> DEFINE q == Delete(p, r)
    <3>0. to = q
      BY <2>1
    <3>1. p.st[r].mem # "free" /\ p.st[r].poll = "idle"
      BY <1>3, <1>8
    <3>2. /\ PortFit(q) /\ Others(p, q, r) /\ r \notin Range(q.upd)
          /\ Len(q.upd) = (IF r \in Range(p.upd) THEN Len(p.upd) - 1 ELSE Len(p.upd))
          /\ q.sent = p.sent /\ q.stop = (IF p.st[r].mem = "live" /\ p.st[r].poll = "pending" THEN p.stop \cup {r} ELSE p.stop)
          /\ IF p.st[r].poll = "idle" THEN q.st[r] = NoReg
             ELSE q.st[r].mem = "deleted" /\ q.st[r].poll = IF p.st[r].mem = "live" /\ p.st[r].poll = "pending" THEN "cancelled" ELSE p.st[r].poll
      BY <1>1, <1>2, <3>1, DeleteIs, Zenon
    <3> HIDE DEF q, to, x
    <3> QED  BY <3>0, <3>1, <3>2
  <2> HIDE DEF to
  <2>3. LookedAfter(to, r) /\ to.st[r].poll = "idle"
    BY <2>2 DEF LookedAfter, NoReg
  <2>4. Linked(to, r, out, wait, up)
    BY <1>5, <1>8, <2>2, <2>3 DEF Linked
  <2> QED  BY <2>2, <2>3, <2>4
<1>9. CASE x.poll = "idle" /\ ~("closed" \in level[x.sock])
  <2> DEFINE y == [x EXCEPT !.poll = "pending", !.mon = x.want]
             c == Set(p, r, y, p.sent \cup {r}, p.stop)
  <2>1. to = Forget(c, r)
    <3>1. to = Forget([p EXCEPT !.st[r].poll = "pending", !.st[r].mon = x.want, !.sent = @ \cup {r}], r)
      BY <1>9 DEF Update
    <3>2. [p EXCEPT !.st[r].poll = "pending", !.st[r].mon = x.want, !.sent = @ \cup {r}] = c
      BY <1>1, <1>2 DEF Port, Set
    <3> QED  BY <3>1, <3>2
  <2>2. y \in SockState /\ y.poll = "pending" /\ y.mon = y.want /\ y.mem = "live" /\ y.group = x.group /\ y.sock = x.sock
    <3> HIDE DEF x
    <3> QED  BY <1>3 DEF SockState
  <2> HIDE DEF y
  <2>3. c \in Port /\ c.st = [p.st EXCEPT ![r] = y] /\ c.upd = p.upd /\ c.groups = p.groups /\ c.sent = p.sent \cup {r} /\ c.stop = p.stop
    <3>1. p.sent \cup {r} \in SUBSET Reg
      BY <1>2
    <3> QED  BY <1>1, <1>2, <2>2, <3>1, SetIs
  <2> HIDE DEF to, c
  <2>4. PortFit(c)
    <3>1. \A k \in Range(c.upd) : IF k = r THEN y.mem = "live" ELSE k \in Range(p.upd)
      BY <2>2, <2>3
    <3>2. Distinct(c.upd) /\ p.st[r].mem # "free"
      BY <1>1, <1>3, <2>3
    <3> QED  BY <1>1, <1>2, <1>3, <2>2, <2>3, <3>1, <3>2, ChangeFit
  <2>5. /\ PortFit(to) /\ Others(c, to, r) /\ r \notin Range(to.upd) /\ to.st = c.st /\ to.sent = c.sent /\ to.stop = c.stop
        /\ Len(to.upd) = Len(c.upd) - 1
    BY <1>2, <2>1, <2>3, <2>4, ForgetFit
  <2>6. to.st[r] = y /\ \A k \in Reg : k # r => to.st[k] = p.st[k]
    BY <1>2, <2>2, <2>3, <2>5
  <2>7. Others(p, to, r)
    BY <2>3, <2>5, <2>6 DEF Others
  <2>8. LookedAfter(to, r)
    BY <2>2, <2>6 DEF LookedAfter
  <2>9. Linked(to, r, out, wait, up)
    BY <1>5, <1>9, <2>2, <2>3, <2>5, <2>6 DEF Linked
  <2> QED  BY <2>3, <2>5, <2>7, <2>8, <2>9
<1> QED  BY <1>3, <1>6, <1>7, <1>8, <1>9

(* sock_feed_event: the packet is gone, and the object idle or in the queue. *)
LEMMA FeedSound ==
    ASSUME NEW p, NEW out, NEW wait, NEW up, Sound(p, out, wait, up), p.sent = {}, p.stop = {},
           NEW c \in Packet, c.r \in out, c.r \notin wait
    PROVE  LET q == FeedEvent(p, c)
           IN  Sound(q, out \ {c.r}, wait, up) /\ q.sent = {} /\ q.stop = {}
<1> DEFINE r == c.r
           y == [p.st[r] EXCEPT !.poll = "idle", !.mon = {}]
           d == Set(p, r, y, p.sent, p.stop)
           to == FeedEvent(p, c)
<1>1. PortFit(p) /\ p \in Port /\ Distinct(p.upd)
  BY DEF Sound, PortFit
<1>2. p.st \in [Reg -> SockState] /\ p.sent \in SUBSET Reg /\ p.stop \in SUBSET Reg /\ r \in Reg
  BY <1>1, PortParts DEF Packet
<1>3. Linked(p, r, out, wait, up) /\ p.st[r] \in SockState
  BY <1>2 DEF Sound
<1> HIDE DEF r
<1>4. p.st[r].mem # "free"
  <2>1. p.st[r].poll # "idle"
    BY <1>3 DEF Linked, r
  <2> QED  BY <1>1, <1>2, <2>1 DEF PortFit, RegsFit, NoReg
<1>5. y \in SockState /\ y.mem = p.st[r].mem /\ y.poll = "idle" /\ y.group = p.st[r].group /\ y.sock = p.st[r].sock
  BY <1>3 DEF SockState
<1>6. to = IF p.st[r].mem = "deleted" \/ "closed" \in c.events THEN Delete(d, r) ELSE Request(d, r)
  <2>1. [p EXCEPT !.st[r].poll = "idle", !.st[r].mon = {}] = d
    BY <1>1, <1>2 DEF Port, Set
  <2> HIDE DEF d
  <2> QED  BY <2>1 DEF FeedEvent, r
<1> HIDE DEF y
<1>7. d \in Port /\ d.st = [p.st EXCEPT ![r] = y] /\ d.upd = p.upd /\ d.groups = p.groups /\ d.sent = p.sent /\ d.stop = p.stop
  BY <1>1, <1>2, <1>5, SetIs
<1> HIDE DEF d, to
<1>8. PortFit(d)
  <2>1. \A k \in Range(d.upd) : IF k = r THEN y.mem = "live" ELSE k \in Range(p.upd)
    BY <1>1, <1>5, <1>7 DEF PortFit
  <2>2. Distinct(d.upd)
    BY <1>1, <1>7
  <2> QED  BY <1>1, <1>2, <1>4, <1>5, <1>7, <2>1, <2>2, ChangeFit
<1>9. d.st[r] = y /\ (\A k \in Reg : k # r => d.st[k] = p.st[k]) /\ Others(p, d, r)
  <2>1. d.st[r] = y /\ \A k \in Reg : k # r => d.st[k] = p.st[k]
    BY <1>2, <1>5, <1>7
  <2> QED  BY <1>7, <2>1 DEF Others
<1>10. /\ PortFit(to) /\ Others(p, to, r) /\ to.st[r].poll = "idle" /\ (to.st[r].mem = "live" => r \in Range(to.upd))
       /\ to.sent = {} /\ to.stop = {}
  <2>1. CASE p.st[r].mem = "deleted" \/ "closed" \in c.events
    <3> DEFINE q == Delete(d, r)
    <3>0. to = q
      BY <1>6, <2>1
    <3>1. d.st[r].mem # "free" /\ d.st[r].poll = "idle"
      BY <1>4, <1>5, <1>9
    <3>2. /\ PortFit(q) /\ Others(d, q, r) /\ r \notin Range(q.upd)
          /\ Len(q.upd) = (IF r \in Range(d.upd) THEN Len(d.upd) - 1 ELSE Len(d.upd))
          /\ q.sent = d.sent /\ q.stop = (IF d.st[r].mem = "live" /\ d.st[r].poll = "pending" THEN d.stop \cup {r} ELSE d.stop)
          /\ IF d.st[r].poll = "idle" THEN q.st[r] = NoReg
             ELSE q.st[r].mem = "deleted" /\ q.st[r].poll = IF d.st[r].mem = "live" /\ d.st[r].poll = "pending" THEN "cancelled" ELSE d.st[r].poll
      BY <1>2, <1>8, <3>1, DeleteIs, Zenon
    <3> HIDE DEF q
    <3>3. Others(p, q, r)
      BY <1>9, <3>2 DEF Others
    <3>4. q.st[r].poll = "idle" /\ q.st[r].mem # "live"
      BY <3>1, <3>2 DEF NoReg
    <3> QED  BY <1>7, <3>0, <3>1, <3>2, <3>3, <3>4
  <2>2. CASE ~(p.st[r].mem = "deleted" \/ "closed" \in c.events)
    <3> DEFINE q == Request(d, r)
    <3>0. to = q
      BY <1>6, <2>2
    <3>1. /\ q \in Port /\ q.st = d.st /\ q.groups = d.groups /\ q.sent = d.sent /\ q.stop = d.stop
          /\ Distinct(q.upd) /\ Range(q.upd) = Range(d.upd) \cup {r}
      BY <1>2, <1>7, <1>8, RequestIs DEF PortFit
    <3> HIDE DEF q
    <3>2. d.st[r].mem = "live"
      BY <1>3, <1>4, <1>5, <1>9, <2>2 DEF SockState
    <3>3. PortFit(q)
      BY <1>8, <3>1, <3>2 DEF PortFit
    <3>4. Others(p, q, r)
      BY <1>9, <3>1 DEF Others
    <3> QED  BY <1>5, <1>7, <1>9, <3>0, <3>1, <3>3, <3>4
  <2> QED  BY <2>1, <2>2
<1>11. LookedAfter(to, r)
  BY <1>10 DEF LookedAfter
<1>12. Linked(to, r, out \ {r}, wait, up)
  BY <1>10 DEF Linked, r
<1>13. \A k \in Reg : k # r => (k \in out \ {r} <=> k \in out)
  OBVIOUS
<1>14. Sound(to, out \ {r}, wait, up)
  BY <1>2, <1>10, <1>11, <1>12, <1>13, OthersSound
<1> QED  BY <1>10, <1>14 DEF r, to

(* port__ctl_add: a socket that is there already leaves the groups as they *)
(* were, a new one waits in the queue.                                     *)
LEMMA AddSound ==
    ASSUME NEW out, NEW wait, NEW up, Sound(port, out, wait, up), port.sent = {}, port.stop = {},
           NEW r \in Reg, port.st[r].mem = "free", NEW s \in Sock, NEW want \in Wanted
    PROVE  Sound(CtlAdd(port, r, s, want), out, wait, up)
<1> DEFINE p == port
           n == Count(p.st)
           i == GroupId(p.groups)
           g == Acquire(p.groups)
           to == CtlAdd(p, r, s, want)
<1>1. PortFit(p) /\ p \in Port /\ Distinct(p.upd) /\ RegsFit(p.st)
  BY DEF Sound, PortFit
<1>2. p.st \in [Reg -> SockState] /\ p.sent \in SUBSET Reg /\ p.stop \in SUBSET Reg /\ p.groups \in Seq(Group)
      /\ Range(p.upd) \subseteq Reg
  BY <1>1, PortParts
<1>3. n \in [Id -> Nat] /\ GroupsFit(p.groups, n)
  BY <1>1, CountType DEF PortFit
<1> DEFINE m == [n EXCEPT ![i] = @ + 1]
<1>4. i \in Id /\ g \in Seq(Group) /\ GroupsFit(g, m)
  <2> HIDE DEF n
  <2> QED  BY <1>2, <1>3, AcquireFits
<1>5. p.st[r] = NoReg /\ p.st[r].poll = "idle" /\ p.st[r].group = 0
  BY <1>1 DEF RegsFit, NoReg
<1>6. CASE Find(s) # {}
  <2> DEFINE h == Release(g, i)
             k == [m EXCEPT ![i] = @ - 1]
  <2>1. to = [p EXCEPT !.groups = h]
    BY <1>6 DEF CtlAdd
  <2>2. m \in [Id -> Nat] /\ m[i] # 0 /\ k = n
    <3>1. n[i] \in Nat
      BY <1>3, <1>4
    <3>2. m \in [Id -> Nat] /\ m[i] = n[i] + 1
      BY <1>3, <1>4
    <3>3. k \in [Id -> Nat] /\ \A j \in Id : k[j] = n[j]
      BY <1>3, <1>4
    <3> HIDE DEF m, n, k
    <3>4. k = n
      BY <1>3, <3>3
    <3> QED  BY <3>1, <3>2, <3>4
  <2> HIDE DEF m, g, i, n
  <2>3. h \in Seq(Group) /\ GroupsFit(h, k)
    BY <1>4, <2>2, ReleaseFits
  <2> HIDE DEF h, k, to
  <2>4. to \in Port /\ to.st = p.st /\ to.upd = p.upd /\ to.sent = p.sent /\ to.stop = p.stop /\ to.groups = h
    <3>1. h \in Lists
      BY <2>3 DEF Lists
    <3> QED  BY <1>1, <2>1, <3>1 DEF Port
  <2>5. PortFit(to)
    BY <1>1, <2>2, <2>3, <2>4 DEF PortFit, n
  <2>6. Others(p, to, r) /\ LookedAfter(p, r) /\ Linked(p, r, out, wait, up)
    BY <2>4 DEF Others, Sound
  <2>7. LookedAfter(to, r) /\ Linked(to, r, out, wait, up)
    BY <2>4, <2>6 DEF LookedAfter, Linked
  <2>8. Sound(to, out, wait, up)
    BY <2>5, <2>6, <2>7, OthersSound
  <2> QED  BY <2>8 DEF to
<1>7. CASE Find(s) = {}
  <2> DEFINE y == [NoReg EXCEPT !.mem = "live", !.sock = s, !.want = want, !.group = i]
             d == [p EXCEPT !.groups = g, !.st[r] = y]
             st == [p.st EXCEPT ![r] = y]
  <2>1. to = Request(d, r)
    BY <1>7 DEF CtlAdd
  <2>2. y \in SockState /\ y.mem = "live" /\ y.sock = s /\ y.poll = "idle" /\ y.group = i /\ i # 0
    <3> HIDE DEF i
    <3>1. i \in Nat /\ i # 0 /\ want \in SUBSET Event
      BY <1>4 DEF Id, Wanted, Event
    <3> QED  BY <3>1 DEF SockState, NoReg
  <2> HIDE DEF y, m, g, i, n
  <2>3. st \in [Reg -> SockState] /\ \A k \in Reg : st[k] = IF k = r THEN y ELSE p.st[k]
    BY <1>2, <2>2
  <2>4. Count(st) = m
    <3>1. Count(st) = [Count(p.st) EXCEPT ![y.group] = @ + 1]
      <4>1. y.group # 0
        BY <2>2
      <4> HIDE DEF st
      <4> QED  BY <1>2, <1>5, <2>2, <4>1, CountMore, SMTT(30) DEF st
    <3> HIDE DEF st
    <3> QED  BY <2>2, <3>1 DEF m, n
  <2> HIDE DEF st
  <2>5. d \in Port /\ d.st = st /\ d.upd = p.upd /\ d.sent = p.sent /\ d.stop = p.stop /\ d.groups = g
    <3>1. g \in Lists
      BY <1>4 DEF Lists
    <3>2. d = [p EXCEPT !.groups = g, !.st = st]
      BY <1>1 DEF Port, st
    <3> HIDE DEF d
    <3> QED  BY <1>1, <2>3, <3>1, <3>2 DEF Port
  <2> HIDE DEF d, to
  <2>6. RegsFit(st)
    <3>1. \A k \in Reg : p.st[k].mem = "live" => p.st[k].sock # s
      BY <1>7 DEF Find
    <3>2. \A k \in Reg : IF st[k].mem = "free" THEN st[k] = NoReg ELSE st[k].group # 0
      BY <1>1, <2>2, <2>3 DEF RegsFit
    <3>3. ASSUME NEW q \in Reg, NEW k \in Reg, st[q].mem = "live", st[k].mem = "live", st[q].sock = st[k].sock PROVE q = k
      <4>1. CASE q = r
        BY <2>2, <2>3, <3>1, <3>3, <4>1
      <4>2. CASE k = r
        BY <2>2, <2>3, <3>1, <3>3, <4>2
      <4>3. CASE q # r /\ k # r
        <5>1. st[q] = p.st[q] /\ st[k] = p.st[k]
          BY <2>3, <4>3
        <5> QED  BY <1>1, <3>3, <5>1, Zenon DEF RegsFit
      <4> QED  BY <4>1, <4>2, <4>3
    <3> QED  BY <3>2, <3>3 DEF RegsFit
  <2>7. /\ to \in Port /\ to.st = d.st /\ to.groups = d.groups /\ to.sent = d.sent /\ to.stop = d.stop
        /\ Distinct(to.upd) /\ Range(to.upd) = Range(d.upd) \cup {r}
    BY <1>1, <2>1, <2>5, RequestIs
  <2>8. \A k \in Range(to.upd) : to.st[k].mem = "live"
    BY <1>1, <1>2, <2>2, <2>3, <2>5, <2>7 DEF PortFit
  <2>9. GroupsFit(to.groups, Count(to.st))
    BY <1>4, <2>4, <2>5, <2>7
  <2>10. PortFit(to)
    BY <2>5, <2>6, <2>7, <2>8, <2>9 DEF PortFit
  <2>11. Others(p, to, r)
    BY <2>3, <2>5, <2>7 DEF Others
  <2>12. Linked(p, r, out, wait, up)
    BY DEF Sound
  <2>13. LookedAfter(to, r) /\ Linked(to, r, out, wait, up)
    <3>1. to.st[r].poll = "idle" /\ r \in Range(to.upd) /\ to.sent = {} /\ to.stop = {}
      BY <2>2, <2>3, <2>5, <2>7
    <3> QED  BY <1>5, <2>12, <3>1 DEF LookedAfter, Linked
  <2>14. Sound(to, out, wait, up)
    BY <2>10, <2>11, <2>13, OthersSound
  <2> QED  BY <2>14 DEF to
<1> QED  BY <1>6, <1>7

(* port__ctl_mod *)
LEMMA ModSound ==
    ASSUME NEW p, NEW out, NEW wait, NEW up, Sound(p, out, wait, up), p.sent = {}, p.stop = {},
           NEW r \in Reg, p.st[r].mem = "live", NEW want \in Wanted
    PROVE  Sound(CtlMod(p, r, want), out, wait, up)
<1> DEFINE y == [p.st[r] EXCEPT !.want = want]
           d == Set(p, r, y, p.sent, p.stop)
           to == CtlMod(p, r, want)
<1>1. PortFit(p) /\ p \in Port /\ Distinct(p.upd)
  BY DEF Sound, PortFit
<1>2. p.st \in [Reg -> SockState] /\ p.sent \in SUBSET Reg /\ p.stop \in SUBSET Reg
  BY <1>1, PortParts
<1>3. LookedAfter(p, r) /\ Linked(p, r, out, wait, up) /\ p.st[r] \in SockState
  BY <1>2 DEF Sound
<1>4. /\ y \in SockState /\ y.mem = "live" /\ y.poll = p.st[r].poll /\ y.group = p.st[r].group /\ y.sock = p.st[r].sock
      /\ y.mon = p.st[r].mon /\ y.want = want
  <2>1. want \in SUBSET Event
    BY DEF Wanted, Event
  <2> QED  BY <1>3, <2>1 DEF SockState
<1>5. to = IF want \subseteq p.st[r].mon THEN d ELSE Request(d, r)
  <2>1. [p EXCEPT !.st[r].want = want] = d
    BY <1>1, <1>2 DEF Port, Set
  <2> HIDE DEF d
  <2>2. d.st[r].mon = p.st[r].mon
    <3>1. d.st = [p.st EXCEPT ![r] = y]
      <4> HIDE DEF y
      <4> QED  BY <1>1, <1>2, <1>4, SetIs DEF d
    <3> HIDE DEF y
    <3> QED  BY <1>2, <1>4, <3>1
  <2> QED  BY <2>1, <2>2 DEF CtlMod
<1> HIDE DEF y
<1>6. d \in Port /\ d.st = [p.st EXCEPT ![r] = y] /\ d.upd = p.upd /\ d.groups = p.groups /\ d.sent = p.sent /\ d.stop = p.stop
  BY <1>1, <1>2, <1>4, SetIs
<1> HIDE DEF d, to
<1>7. PortFit(d)
  <2>1. \A k \in Range(d.upd) : IF k = r THEN y.mem = "live" ELSE k \in Range(p.upd)
    BY <1>4, <1>6
  <2>2. Distinct(d.upd) /\ p.st[r].mem # "free"
    BY <1>1, <1>6
  <2> QED  BY <1>1, <1>4, <1>6, <2>1, <2>2, ChangeFit
<1>8. d.st[r] = y /\ (\A k \in Reg : k # r => d.st[k] = p.st[k])
  BY <1>2, <1>4, <1>6
<1>9. CASE want \subseteq p.st[r].mon
  <2>1. to = d
    BY <1>5, <1>9
  <2>2. Others(p, to, r)
    BY <1>6, <1>8, <2>1 DEF Others
  <2>3. LookedAfter(to, r) /\ Linked(to, r, out, wait, up)
    BY <1>3, <1>4, <1>6, <1>8, <1>9, <2>1 DEF LookedAfter, Linked
  <2>4. Sound(to, out, wait, up)
    BY <1>7, <2>1, <2>2, <2>3, OthersSound
  <2> QED  BY <2>4 DEF to
<1>10. CASE ~(want \subseteq p.st[r].mon)
  <2>1. to = Request(d, r)
    BY <1>5, <1>10
  <2>2. /\ to \in Port /\ to.st = d.st /\ to.groups = d.groups /\ to.sent = d.sent /\ to.stop = d.stop
        /\ Distinct(to.upd) /\ Range(to.upd) = Range(d.upd) \cup {r}
    BY <1>6, <1>7, <2>1, RequestIs DEF PortFit
  <2>3. PortFit(to)
    BY <1>4, <1>7, <1>8, <2>2 DEF PortFit
  <2>4. Others(p, to, r)
    BY <1>6, <1>8, <2>2 DEF Others
  <2>5. LookedAfter(to, r) /\ Linked(to, r, out, wait, up)
    BY <1>3, <1>4, <1>6, <1>8, <2>2 DEF LookedAfter, Linked
  <2>6. Sound(to, out, wait, up)
    BY <2>3, <2>4, <2>5, OthersSound
  <2> QED  BY <2>6 DEF to
<1> QED  BY <1>9, <1>10

(* port__ctl_del *)
LEMMA DeleteSound ==
    ASSUME NEW p, NEW out, NEW wait, NEW up, Sound(p, out, wait, up), p.sent = {}, p.stop = {},
           NEW r \in Reg, p.st[r].mem = "live"
    PROVE  Sound(Delete(p, r), out, wait, up) /\ Len(Delete(p, r).upd) = IF r \in Range(p.upd) THEN Len(p.upd) - 1 ELSE Len(p.upd)
<1> DEFINE q == Delete(p, r)
<1>1. PortFit(p) /\ p.st[r].mem # "free"
  BY DEF Sound
<1>2. /\ PortFit(q) /\ Others(p, q, r) /\ r \notin Range(q.upd)
      /\ Len(q.upd) = (IF r \in Range(p.upd) THEN Len(p.upd) - 1 ELSE Len(p.upd))
      /\ q.sent = p.sent /\ q.stop = (IF p.st[r].mem = "live" /\ p.st[r].poll = "pending" THEN p.stop \cup {r} ELSE p.stop)
      /\ IF p.st[r].poll = "idle" THEN q.st[r] = NoReg
         ELSE q.st[r].mem = "deleted" /\ q.st[r].poll = IF p.st[r].mem = "live" /\ p.st[r].poll = "pending" THEN "cancelled" ELSE p.st[r].poll
  BY <1>1, DeleteIs, Zenon
<1> HIDE DEF q
<1>3. Linked(p, r, out, wait, up)
  BY DEF Sound
<1>4. LookedAfter(q, r)
  BY <1>2 DEF LookedAfter, NoReg
<1>5. Linked(q, r, out, wait, up)
  BY <1>2, <1>3 DEF Linked, NoReg
<1>6. Sound(q, out, wait, up)
  BY <1>2, <1>4, <1>5, OthersSound
<1> QED  BY <1>2, <1>6 DEF q

-----------------------------------------------------------------------------
(* The loops of the port, of n rounds over a port p *)

Round(loop, packets, p, n) == CASE loop = "update" -> Update(p, Head(p.upd))
                                [] loop = "feed"   -> FeedEvent(p, packets[n])
                                [] loop = "delete" -> ForceDelete(p, n)
RoundOf(f, loop, packets, p, n) == IF n = 0 THEN p ELSE Round(loop, packets, f[n - 1], n)
Rounds(f, loop, packets, p, m) == f = [n \in 0 .. m |-> RoundOf(f, loop, packets, p, n)]

(* There is a port after each round. *)
LEMMA RoundsExist == ASSUME NEW loop, NEW packets, NEW p, NEW n \in Nat PROVE \E f : Rounds(f, loop, packets, p, n)
<1> DEFINE T == {m \in Nat : ~\E f : Rounds(f, loop, packets, p, m)}
<1> SUFFICES ASSUME T # {} PROVE FALSE
  OBVIOUS
<1>1. PICK m \in T : \A c \in T : m <= c
  <2>1. T \in SUBSET Nat
    OBVIOUS
  <2> HIDE DEF T
  <2> QED  BY <2>1, LeastNat
<1>2. m \in Nat /\ ~\E f : Rounds(f, loop, packets, p, m)
  BY <1>1
<1>3. CASE m = 0
  <2> DEFINE e == [i \in 0 .. 0 |-> p]
  <2>1. e = [i \in 0 .. 0 |-> RoundOf(e, loop, packets, p, i)]
    BY DEF RoundOf
  <2> HIDE DEF e
  <2> QED  BY <1>2, <1>3, <2>1 DEF Rounds
<1>4. CASE m # 0
  <2>1. PICK l \in Nat : m = l + 1
    <3>1. m - 1 \in Nat /\ m = (m - 1) + 1
      BY <1>2, <1>4
    <3> QED  BY <3>1
  <2>2. l \notin T
    <3> HIDE DEF T
    <3> QED  BY <1>1, <1>2, <2>1
  <2>3. PICK f : Rounds(f, loop, packets, p, l)
    BY <2>2
  <2>4. \A i \in 0 .. l : f[i] = RoundOf(f, loop, packets, p, i)
    BY <2>3 DEF Rounds
  <2> DEFINE x == RoundOf(f, loop, packets, p, m)
             e == [i \in 0 .. m |-> IF i = m THEN x ELSE f[i]]
  <2> HIDE DEF x
  <2>5. \A i \in 0 .. m : e[i] = IF i = m THEN x ELSE f[i]
    OBVIOUS
  <2>6. e = [i \in 0 .. m |-> e[i]]
    OBVIOUS
  <2> HIDE DEF e
  <2>7. ASSUME NEW i \in 0 .. m PROVE e[i] = RoundOf(e, loop, packets, p, i)
    <3>1. i # 0 => i - 1 \in 0 .. m /\ e[i - 1] = f[i - 1]
      BY <2>1, <2>5
    <3>2. RoundOf(e, loop, packets, p, i) = RoundOf(f, loop, packets, p, i)
      BY <3>1 DEF RoundOf
    <3>3. CASE i = m
      BY <2>5, <3>2, <3>3 DEF x
    <3>4. CASE i # m
      <4>1. i \in 0 .. l
        BY <2>1, <3>4
      <4> QED  BY <2>4, <2>5, <3>2, <3>4, <4>1
    <3> QED  BY <3>3, <3>4
  <2>8. Rounds(e, loop, packets, p, m)
    BY <2>6, <2>7, Zenon DEF Rounds
  <2> QED  BY <1>2, <2>8
<1> QED  BY <1>3, <1>4

(* What is there before the first round and is kept by each is there at    *)
(* the end.                                                                *)
LEMMA RoundsKeep ==
    ASSUME NEW m \in Nat, NEW S \in SUBSET Nat, 0 \in S, \A n \in 0 .. m : n # 0 /\ n - 1 \in S => n \in S
    PROVE  m \in S
<1> DEFINE T == {n \in 0 .. m : n \notin S}
<1> SUFFICES ASSUME T # {} PROVE FALSE
  <2>1. m \in 0 .. m
    OBVIOUS
  <2> QED  BY <2>1
<1>1. PICK n \in T : \A c \in T : n <= c
  <2>1. T \in SUBSET Nat
    OBVIOUS
  <2> HIDE DEF T
  <2> QED  BY <2>1, LeastNat
<1>2. n \in 0 .. m /\ n # 0 /\ n \notin S
  BY <1>1
<1>3. n - 1 \in 0 .. m /\ n - 1 \notin T
  <2>1. n - 1 \in 0 .. m /\ n - 1 < n
    BY <1>2
  <2> HIDE DEF T
  <2> QED  BY <1>1, <1>2, <2>1
<1> QED  BY <1>2, <1>3

(* port__update_events empties the queue. *)
LEMMA UpdatesSound ==
    ASSUME NEW p, NEW out, NEW wait, NEW up, Sound(p, out, wait, up)
    PROVE  Sound(UpdateEvents(p), out, wait, up) /\ UpdateEvents(p).upd = <<>>
<1>1. p \in Port /\ p.upd \in Seq(Reg)
  BY PortParts DEF Sound, PortFit
<1>2. PICK m \in Nat : m = Len(p.upd)
  BY <1>1
<1> DEFINE f == CHOOSE g : Rounds(g, "update", <<>>, p, m)
<1>3. Rounds(f, "update", <<>>, p, m)
  BY RoundsExist
<1>4. UpdateEvents(p) = f[m]
  <2>1. \A g : Rounds(g, "update", <<>>, p, m)
               <=> g = [n \in 0 .. m |-> IF n = 0 THEN p ELSE Update(g[n - 1], Head(g[n - 1].upd))]
    BY DEF Rounds, RoundOf, Round
  <2>2. f = CHOOSE g : g = [n \in 0 .. m |-> IF n = 0 THEN p ELSE Update(g[n - 1], Head(g[n - 1].upd))]
    BY <2>1
  <2> HIDE DEF f
  <2> QED  BY <1>2, <2>2, Zenon DEF UpdateEvents
<1> HIDE DEF f
<1>5. \A n \in 0 .. m : f[n] = IF n = 0 THEN p ELSE Update(f[n - 1], Head(f[n - 1].upd))
  BY <1>3 DEF Rounds, RoundOf, Round
<1> DEFINE Good(n) == Sound(f[n], out, wait, up) /\ Len(f[n].upd) = m - n
           S == {n \in Nat : n <= m => Good(n)}
<1>6. 0 \in S
  <2>1. f[0] = p
    BY <1>5
  <2> QED  BY <1>2, <2>1
<1>7. ASSUME NEW n \in 0 .. m, n # 0, n - 1 \in S PROVE n \in S
  <2> DEFINE q == f[n - 1]
             r == Head(q.upd)
  <2>1. Sound(q, out, wait, up) /\ Len(q.upd) = m - (n - 1) /\ n - 1 <= m
    BY <1>7
  <2>2. q.upd \in Seq(Reg) /\ Len(q.upd) # 0
    <3>1. q \in Port
      BY <2>1, Zenon DEF Sound, PortFit
    <3> HIDE DEF q
    <3> QED  BY <2>1, <3>1, PortParts
  <2> HIDE DEF q
  <2>3. r \in Range(q.upd)
    <3>1. 1 \in 1 .. Len(q.upd) /\ r = q.upd[1]
      BY <2>2
    <3> QED  BY <2>2, <3>1, InRange
  <2> HIDE DEF r
  <2>4. Sound(Update(q, r), out, wait, up) /\ Len(Update(q, r).upd) = Len(q.upd) - 1
    BY <2>1, <2>3, UpdateSound
  <2>5. f[n] = Update(q, r)
    BY <1>5, <1>7 DEF q, r
  <2>6. Good(n)
    BY <2>1, <2>4, <2>5
  <2> HIDE DEF Good
  <2> QED  BY <2>6
<1> HIDE DEF S
<1>8. m \in S
  <2>1. S \in SUBSET Nat
    BY DEF S
  <2> QED  BY <1>6, <1>7, <2>1, RoundsKeep
<1>9. Sound(f[m], out, wait, up) /\ Len(f[m].upd) = 0
  BY <1>8 DEF S
<1>10. f[m].upd \in Seq(Reg)
  <2>1. f[m] \in Port
    BY <1>9, Zenon DEF Sound, PortFit
  <2> QED  BY <2>1, PortParts
<1>11. f[m].upd = <<>>
  BY <1>9, <1>10
<1> QED  BY <1>4, <1>9, <1>11

(* port__feed_events takes one packet after the other. *)
Fed(packets, n) == {packets[k].r : k \in 1 .. n}

(* After all of them nothing of these objects is outstanding. *)
LEMMA FeedsSound ==
    ASSUME NEW p, NEW out, NEW wait, NEW up, Sound(p, out, wait, up), p.sent = {}, p.stop = {},
           NEW packets \in Seq(Packet),
           \A j, k \in 1 .. Len(packets) : packets[j].r = packets[k].r => j = k,
           \A k \in 1 .. Len(packets) : packets[k].r \in out /\ packets[k].r \notin wait
    PROVE  LET q == FeedEvents(p, packets)
           IN  Sound(q, out \ Fed(packets, Len(packets)), wait, up) /\ q.sent = {} /\ q.stop = {}
<1>1. PICK m \in Nat : m = Len(packets)
  OBVIOUS
<1>2. \A k \in 1 .. m : packets[k] \in Packet
  BY <1>1
<1> DEFINE f == CHOOSE g : Rounds(g, "feed", packets, p, m)
<1>3. Rounds(f, "feed", packets, p, m)
  BY RoundsExist
<1>4. FeedEvents(p, packets) = f[m]
  <2>1. \A g : Rounds(g, "feed", packets, p, m)
               <=> g = [n \in 0 .. m |-> IF n = 0 THEN p ELSE FeedEvent(g[n - 1], packets[n])]
    BY DEF Rounds, RoundOf, Round
  <2>2. f = CHOOSE g : g = [n \in 0 .. m |-> IF n = 0 THEN p ELSE FeedEvent(g[n - 1], packets[n])]
    BY <2>1
  <2> HIDE DEF f
  <2> QED  BY <1>1, <2>2, Zenon DEF FeedEvents
<1> HIDE DEF f
<1>5. \A n \in 0 .. m : f[n] = IF n = 0 THEN p ELSE FeedEvent(f[n - 1], packets[n])
  BY <1>3 DEF Rounds, RoundOf, Round
<1> DEFINE Good(n) == Sound(f[n], out \ Fed(packets, n), wait, up) /\ f[n].sent = {} /\ f[n].stop = {}
           S == {n \in Nat : n <= m => Good(n)}
<1>6. 0 \in S
  <2>1. f[0] = p /\ Fed(packets, 0) = {}
    <3>1. 0 \in 0 .. m /\ 1 .. 0 = {}
      OBVIOUS
    <3>2. f[0] = p
      BY <1>5, <3>1
    <3>3. Fed(packets, 0) = {}
      BY <3>1 DEF Fed
    <3> QED  BY <3>2, <3>3
  <2>2. out \ Fed(packets, 0) = out
    BY <2>1
  <2>3. Good(0)
    BY <2>1, <2>2
  <2> HIDE DEF Good
  <2> QED  BY <2>3
<1>7. ASSUME NEW n \in 0 .. m, n # 0, n - 1 \in S PROVE n \in S
  <2> DEFINE q == f[n - 1]
             c == packets[n]
             left == out \ Fed(packets, n - 1)
  <2>1. Sound(q, left, wait, up) /\ q.sent = {} /\ q.stop = {}
    BY <1>7
  <2>2. n \in 1 .. m /\ \A k \in 1 .. n : k = n \/ k \in 1 .. n - 1
    BY <1>7
  <2>3. c \in Packet /\ c.r \in left /\ c.r \notin wait
    <3>1. \A k \in 1 .. n - 1 : k \in 1 .. m /\ k # n
      BY <2>2
    <3> QED  BY <1>1, <1>2, <2>2, <3>1 DEF Fed
  <2>4. out \ Fed(packets, n) = left \ {c.r}
    <3>1. 1 .. n = (1 .. n - 1) \cup {n}
      BY <2>2
    <3>2. Fed(packets, n) = Fed(packets, n - 1) \cup {c.r}
      BY <3>1, Zenon DEF Fed
    <3> QED  BY <3>2
  <2> HIDE DEF left
  <2>5. f[n] = FeedEvent(q, c)
    BY <1>5, <1>7
  <2> HIDE DEF q, c
  <2>6. Sound(FeedEvent(q, c), left \ {c.r}, wait, up) /\ FeedEvent(q, c).sent = {} /\ FeedEvent(q, c).stop = {}
    BY <2>1, <2>3, FeedSound
  <2>7. Good(n)
    BY <2>4, <2>5, <2>6
  <2> HIDE DEF Good
  <2> QED  BY <2>7
<1> HIDE DEF S
<1>8. m \in S
  <2>1. S \in SUBSET Nat
    BY DEF S
  <2> QED  BY <1>6, <1>7, <2>1, RoundsKeep
<1>9. Good(m)
  BY <1>8 DEF S
<1> QED  BY <1>1, <1>4, <1>9

(* port_delete frees every object. *)
LEMMA DeletesAll ==
    ASSUME PortFit(port), DeletePort, port.sent = {}, port.stop = {}, req \in [Reg -> {"none", "wait", "cancel"}],
           \A r \in Reg : req[r] = "wait" => port.st[r].mem = "live" /\ port.st[r].poll = "pending"
    PROVE  /\ PortFit(port') /\ port'.upd = <<>> /\ port'.sent = {} /\ port'.stop = {}
           /\ req' \in [Reg -> {"none", "wait", "cancel"}]
           /\ \A r \in Reg : port'.st[r] = NoReg /\ req'[r] # "wait"
<1> DEFINE m == MaxReg
           p == port
           Asked(r) == p.st[r].mem = "live" /\ p.st[r].poll = "pending"
<1>1. m \in Nat /\ Reg = 1 .. m
  BY WepollAssumption DEF Reg
<1> DEFINE f == CHOOSE g : Rounds(g, "delete", <<>>, p, m)
<1>2. Rounds(f, "delete", <<>>, p, m)
  BY <1>1, RoundsExist
<1>3. Becomes(f[m])
  <2>1. \A g : Rounds(g, "delete", <<>>, p, m)
               <=> g = [n \in 0 .. m |-> IF n = 0 THEN p ELSE ForceDelete(g[n - 1], n)]
    BY DEF Rounds, RoundOf, Round
  <2>2. f = CHOOSE g : g = [n \in 0 .. m |-> IF n = 0 THEN p ELSE ForceDelete(g[n - 1], n)]
    BY <2>1
  <2> HIDE DEF f
  <2> QED  BY <2>2, Zenon DEF DeletePort
<1> HIDE DEF f
<1>4. \A n \in 0 .. m : f[n] = IF n = 0 THEN p ELSE ForceDelete(f[n - 1], n)
  BY <1>2 DEF Rounds, RoundOf, Round
<1> HIDE DEF Asked
<1> DEFINE Good(n) == /\ PortFit(f[n]) /\ f[n].sent = {}
                      /\ \A r \in Reg : IF r <= n THEN f[n].st[r] = NoReg /\ (Asked(r) => r \in f[n].stop)
                                       ELSE f[n].st[r] = p.st[r]
           S == {n \in Nat : n <= m => Good(n)}
<1>5. 0 \in S
  <2>1. f[0] = p
    BY <1>1, <1>4
  <2> QED  BY <1>1, <2>1
<1>6. ASSUME NEW n \in 0 .. m, n # 0, n - 1 \in S PROVE n \in S
  <2> DEFINE q == f[n - 1]
  <2>1. /\ PortFit(q) /\ q.sent = {}
        /\ \A r \in Reg : IF r <= n - 1 THEN q.st[r] = NoReg /\ (Asked(r) => r \in q.stop) ELSE q.st[r] = p.st[r]
    BY <1>1, <1>6
  <2>2. n \in Reg /\ n \in Nat /\ (\A r \in Reg : r # n => (r <= n <=> r <= n - 1)) /\ q.st[n] = p.st[n]
    <3>1. n \in Reg /\ n \in Nat /\ \A r \in Reg : r # n => (r <= n <=> r <= n - 1)
      BY <1>1, <1>6
    <3>2. ~(n <= n - 1)
      BY <3>1
    <3> QED  BY <2>1, <3>1, <3>2
  <2>3. f[n] = ForceDelete(q, n)
    BY <1>4, <1>6
  <2> HIDE DEF q
  <2>4. q.st \in [Reg -> SockState] /\ RegsFit(q.st)
    BY <2>1, PortParts DEF PortFit
  <2>5. CASE q.st[n].mem = "free"
    <3>1. f[n] = q /\ q.st[n] = NoReg /\ ~Asked(n)
      BY <2>2, <2>3, <2>4, <2>5 DEF ForceDelete, RegsFit, Asked
    <3>2. Good(n)
      BY <2>1, <2>2, <3>1
    <3> HIDE DEF Good
    <3> QED  BY <3>2
  <2>6. CASE q.st[n].mem # "free"
    <3> DEFINE c == Dismiss(q, n)
    <3>1. f[n] = Free(c, n)
      BY <2>3, <2>6 DEF ForceDelete
    <3>2. /\ PortFit(c) /\ Others(q, c, n) /\ n \notin Range(c.upd) /\ c.st \in [Reg -> SockState] /\ c.sent = q.sent
          /\ c.stop = (IF q.st[n].mem = "live" /\ q.st[n].poll = "pending" THEN q.stop \cup {n} ELSE q.stop)
          /\ c.st[n].mem = "deleted"
      BY <2>1, <2>2, <2>6, DismissIs, ZenonT(40)
    <3> HIDE DEF c
    <3> DEFINE d == Free(c, n)
    <3>3. PortFit(d) /\ d.st = [c.st EXCEPT ![n] = NoReg] /\ d.sent = c.sent /\ d.stop = c.stop
      BY <2>2, <3>2, FreeIs
    <3> HIDE DEF d
    <3>4. d.st[n] = NoReg /\ (Asked(n) => n \in d.stop) /\ n <= n
      BY <2>2, <3>2, <3>3 DEF Asked
    <3>5. ASSUME NEW r \in Reg, r # n PROVE d.st[r] = q.st[r] /\ (r \in q.stop => r \in d.stop)
      BY <3>2, <3>3, <3>5 DEF Others
    <3>6. f[n] = d
      BY <3>1 DEF d
    <3>7. Good(n)
      BY <2>1, <2>2, <3>2, <3>3, <3>4, <3>5, <3>6
    <3> HIDE DEF Good
    <3> QED  BY <3>7
  <2> QED  BY <2>5, <2>6
<1> HIDE DEF S
<1>7. m \in S
  <2>1. S \in SUBSET Nat
    BY DEF S
  <2> QED  BY <1>1, <1>5, <1>6, <2>1, RoundsKeep
<1> DEFINE e == f[m]
<1>8. PortFit(e) /\ e.sent = {} /\ \A r \in Reg : e.st[r] = NoReg /\ (Asked(r) => r \in e.stop)
  <2>1. Good(m) /\ \A r \in Reg : r <= m
    BY <1>1, <1>7 DEF S
  <2> QED  BY <2>1
<1>9. Becomes(e)
  BY <1>3
<1> HIDE DEF e
<1>10. e.upd = <<>>
  <2>1. e.upd \in Seq(Reg) /\ \A r \in Range(e.upd) : r \in Reg /\ e.st[r].mem = "live"
    BY <1>8, PortParts DEF PortFit
  <2>2. Range(e.upd) = {}
    BY <1>8, <2>1 DEF NoReg
  <2>3. e.upd # <<>> => e.upd[1] \in Range(e.upd)
    BY <2>1, InRange
  <2> QED  BY <2>2, <2>3
<1>11. /\ port' \in Port /\ port'.st = e.st /\ port'.upd = e.upd /\ port'.groups = e.groups
       /\ port'.sent = {} /\ port'.stop = {}
  <2>1. e \in Port
    BY <1>8 DEF PortFit
  <2> QED  BY <1>9, <2>1 DEF Becomes, Port
<1>12. PortFit(port')
  BY <1>8, <1>11 DEF PortFit
<1>13. \A r \in Reg : req'[r] = IF r \in e.stop /\ req[r] = "wait" THEN "cancel" ELSE req[r]
  BY <1>8, <1>9 DEF Becomes
<1>14. \A r \in Reg : req'[r] # "wait"
  BY <1>8, <1>13 DEF Asked
<1>15. req' \in [Reg -> {"none", "wait", "cancel"}]
  BY <1>9 DEF Becomes
<1> QED  BY <1>8, <1>10, <1>11, <1>12, <1>14, <1>15

(* The port after a step: the requests it has started are with the driver, *)
(* and those it has stopped will come back.                                *)
LEMMA BecomesSound ==
    ASSUME req \in [Reg -> {"none", "wait", "cancel"}], NEW p, NEW q, NEW up, Becomes(p),
           \A r \in Reg : r \in q => req[r] = "none",
           Sound(p, {r \in Reg : req[r] # "none"} \cup q, Waits, up)
    PROVE  /\ Sound(port', {r \in Reg : req'[r] # "none"} \cup q, Waits', up)
           /\ port'.sent = {} /\ port'.stop = {} /\ port'.upd = p.upd
           /\ req' \in [Reg -> {"none", "wait", "cancel"}] /\ \A r \in Reg : r \in q => req'[r] = "none"
<1> DEFINE out == {r \in Reg : req[r] # "none"} \cup q
           left == {r \in Reg : req'[r] # "none"} \cup q
<1>1. PortFit(p) /\ p \in Port
  BY DEF Sound, PortFit
<1>2. port' \in Port /\ port'.st = p.st /\ port'.upd = p.upd /\ port'.groups = p.groups /\ port'.sent = {} /\ port'.stop = {}
  BY <1>1 DEF Becomes, Port
<1>3. PortFit(port')
  BY <1>1, <1>2 DEF PortFit
<1>4. \A r \in Reg : req'[r] = IF r \in p.sent THEN "wait" ELSE IF r \in p.stop /\ req[r] = "wait" THEN "cancel" ELSE req[r]
  BY DEF Becomes
<1>5. req' \in [Reg -> {"none", "wait", "cancel"}]
  BY DEF Becomes
<1>6. ASSUME NEW r \in Reg PROVE LookedAfter(port', r) /\ Linked(port', r, left, Waits', up) /\ (r \in q => req'[r] = "none")
  <2>1. LookedAfter(p, r) /\ Linked(p, r, out, Waits, up)
    BY DEF Sound
  <2>2. LookedAfter(port', r)
    BY <1>2, <2>1 DEF LookedAfter
  <2>3. (r \in Waits <=> req[r] = "wait") /\ (r \in Waits' <=> req'[r] = "wait")
    BY DEF Waits
  <2>4. (r \in out <=> req[r] # "none" \/ r \in q) /\ (r \in left <=> req'[r] # "none" \/ r \in q)
    OBVIOUS
  <2> HIDE DEF out, left
  <2>5. req'[r] = IF r \in p.sent THEN "wait" ELSE IF r \in p.stop /\ req[r] = "wait" THEN "cancel" ELSE req[r]
    BY <1>4
  <2>6. req[r] \in {"none", "wait", "cancel"} /\ (r \in q => req[r] = "none")
    OBVIOUS
  <2>7. r \in q => req'[r] = "none"
    BY <2>1, <2>4, <2>5, <2>6 DEF Linked
  <2>8. Linked(port', r, left, Waits', up)
    BY <1>2, <2>1, <2>3, <2>4, <2>5, <2>6 DEF Linked
  <2> QED  BY <2>2, <2>7, <2>8
<1>7. Sound(port', left, Waits', up)
  BY <1>3, <1>6 DEF Sound
<1> QED  BY <1>2, <1>5, <1>6, <1>7

-----------------------------------------------------------------------------
(* Packets are of objects. *)
LEMMA PacketedReg == ASSUME PollTypes PROVE Packeted \subseteq Reg
<1>1. ASSUME NEW k \in 1 .. Len(cq) PROVE cq[k].r \in Reg
  <2>1. cq[k] \in Packet
    BY DEF PollTypes
  <2> QED  BY <2>1 DEF Packet
<1>2. ASSUME NEW t \in Waiter, NEW k \in 1 .. Len(taken[t]) PROVE taken[t][k].r \in Reg
  <2>1. taken[t] \in Seq(Packet)
    BY DEF PollTypes, Actor
  <2>2. taken[t][k] \in Packet
    BY <2>1
  <2> QED  BY <2>2 DEF Packet
<1> QED  BY <1>1, <1>2 DEF Packeted

(* port__update_events_if_polling *)
LEMMA UpdatesIfPolling ==
    ASSUME NEW p, NEW out, NEW wait, NEW up, Sound(p, out, wait, up), NEW t
    PROVE  Sound(UpdateIfPolling(p, t), out, wait, up) /\ (Polling \ {t} # {} => UpdateIfPolling(p, t).upd = <<>>)
<1>1. CASE Polling \ {t} = {}
  BY <1>1 DEF UpdateIfPolling
<1>2. CASE Polling \ {t} # {}
  <2>1. UpdateIfPolling(p, t) = UpdateEvents(p)
    BY <1>2 DEF UpdateIfPolling
  <2> QED  BY <2>1, UpdatesSound
<1> QED  BY <1>1, <1>2

-----------------------------------------------------------------------------
(* What the steps have in common *)

(* The parts of the invariant *)
LEMMA PollFacts == ASSUME PollIInv
                   PROVE  /\ PollTypes /\ PacketsApart /\ (\A r \in Packeted : req[r] = "none") /\ ThreadsKept /\ PortKept
                          /\ Sound(port, Outstanding, Waits, Up) /\ port.sent = {} /\ port.stop = {}
                          /\ life # "gone" => Outstanding = {r \in Reg : req[r] # "none"} \cup Packeted
                          /\ req \in [Reg -> {"none", "wait", "cancel"}]
BY DEF PollIInv, PacketsOnce, PortKept, Outstanding, PollTypes

(* Fewer objects are under way, and nobody else. *)
LEMMA SoundLess ==
    ASSUME NEW p, NEW out, NEW wait, NEW up, NEW out2, NEW wait2, NEW up2, Sound(p, out, wait, up),
           \A r \in Reg : /\ r \in out2 => r \in out
                          /\ r \in wait2 => r \in wait /\ r \in out2
                          /\ up2 => up /\ (r \in out => r \in out2)
    PROVE  Sound(p, out2, wait2, up2)
<1>1. ASSUME NEW r \in Reg PROVE LookedAfter(p, r) /\ Linked(p, r, out2, wait2, up2)
  <2>1. LookedAfter(p, r) /\ Linked(p, r, out, wait, up)
    BY DEF Sound
  <2> QED  BY <2>1 DEF Linked
<1> QED  BY <1>1 DEF Sound

(* The port stays; what is under way stays or ends. *)
LEMMA PortStays ==
    ASSUME PollIInv, port' = port, \A r \in Reg : req'[r] = req[r] \/ req'[r] = "none",
           \A r \in Reg : r \in Outstanding' => r \in Outstanding,
           Up' => Up /\ \A r \in Reg : r \in Outstanding => r \in Outstanding',
           Polling' # {} => Polling # {}, life' = "gone" => life = "gone"
    PROVE  PortKept'
<1>1. Sound(port, Outstanding, Waits, Up) /\ port.sent = {} /\ port.stop = {} /\ (Polling # {} => port.upd = <<>>)
  BY PollFacts DEF PortKept
<1>2. ASSUME NEW r \in Reg PROVE r \in Waits' => r \in Waits /\ r \in Outstanding'
  <2> SUFFICES ASSUME r \in Waits' PROVE r \in Waits /\ r \in Outstanding'
    OBVIOUS
  <2>1. req[r] = "wait" /\ req'[r] = "wait"
    BY DEF Waits
  <2>2. life # "gone"
    BY <2>1 DEF PollIInv, ThreadsKept
  <2> QED  BY <2>1, <2>2 DEF Waits, Outstanding
<1>3. Sound(port, Outstanding', Waits', Up')
  <2> DEFINE out == Outstanding
             wait == Waits
             out2 == Outstanding'
             wait2 == Waits'
             up == Up
             up2 == Up'
  <2>1. \A r \in Reg : /\ r \in out2 => r \in out
                       /\ r \in wait2 => r \in wait /\ r \in out2
                       /\ up2 => up /\ (r \in out => r \in out2)
    BY <1>2
  <2>2. Sound(port, out, wait, up)
    BY <1>1
  <2> HIDE DEF out, wait, out2, wait2, up, up2
  <2>3. Sound(port, out2, wait2, up2)
    BY <2>1, <2>2, SoundLess
  <2> QED  BY <2>3, Zenon DEF out2, wait2, up2
<1>4. Sound(port', Outstanding', Waits', Up')
  BY <1>3, Zenon
<1> QED  BY <1>1, <1>4 DEF PortKept

(* The port becomes another; packets may have been taken away. *)
LEMMA PortBecomes ==
    ASSUME PollIInv, NEW p, Becomes(p), life' = life, life # "gone", \A r \in Packeted' : r \in Packeted, PacketsApart',
           Sound(p, {r \in Reg : req[r] # "none"} \cup Packeted', Waits, Up),
           Polling' # {} => p.upd = <<>>
    PROVE  PortKept' /\ PacketsOnce' /\ port' \in Port /\ req' \in [Reg -> {"none", "wait", "cancel"}]
<1> DEFINE q == Packeted'
           up == Up
<1>1. req \in [Reg -> {"none", "wait", "cancel"}] /\ \A r \in Packeted : req[r] = "none"
  BY PollFacts
<1>3. \A r \in Reg : r \in q => req[r] = "none"
  BY <1>1
<1>4. Sound(p, {r \in Reg : req[r] # "none"} \cup q, Waits, up)
  OBVIOUS
<1>5. /\ Sound(port', {r \in Reg : req'[r] # "none"} \cup q, Waits', up)
      /\ port'.sent = {} /\ port'.stop = {} /\ port'.upd = p.upd
      /\ req' \in [Reg -> {"none", "wait", "cancel"}] /\ \A r \in Reg : r \in q => req'[r] = "none"
  <2> HIDE DEF q, up
  <2> QED  BY <1>1, <1>3, <1>4, BecomesSound
<1>6. Up' = up /\ Outstanding' = {r \in Reg : req'[r] # "none"} \cup q
  BY DEF Up, Outstanding
<1>7. Sound(port', Outstanding', Waits', Up')
  BY <1>5, <1>6, Zenon
<1>8. PortKept'
  BY <1>5, <1>7 DEF PortKept
<1>9. PacketsOnce'
  <2>1. \A r \in q : r \in Reg
    <3>1. Packeted \subseteq Reg
      BY PollFacts, PacketedReg
    <3> QED  BY <3>1
  <2>2. \A r \in q : req'[r] = "none"
    BY <1>5, <2>1
  <2> QED  BY <2>2 DEF PacketsOnce
<1>10. port' \in Port
  BY <1>7, Zenon DEF Sound, PortFit
<1> QED  BY <1>5, <1>8, <1>9, <1>10

(* The threads that are inside the port *)
Inside == {t \in Actor : where[t] \notin {"out", "signal"}}

(* There are finitely many of them. *)
LEMMA InsideFinite == IsFiniteSet(Actor) /\ IsFiniteSet(Inside) /\ Cardinality(Inside) \in Nat
<1>1. IsFiniteSet(Actor)
  BY WepollAssumption, FS_Union DEF Actor
<1>2. IsFiniteSet(Inside)
  BY <1>1, FS_Subset DEF Inside
<1> QED  BY <1>1, <1>2, FS_CardinalityType

(* A thread that moves is one more or one less of them. *)
LEMMA InsideMoves ==
    ASSUME PollTypes, NEW t \in Actor, NEW to \in Where, Goes(t, to)
    PROVE  /\ where' \in [Actor -> Where] /\ where'[t] = to /\ \A u \in Actor : u # t => where'[u] = where[u]
           /\ Cardinality(Inside') = Cardinality(Inside)
                + (IF to \in {"out", "signal"} THEN 0 ELSE 1) - (IF where[t] \in {"out", "signal"} THEN 0 ELSE 1)
<1>1. where \in [Actor -> Where]
  BY DEF PollTypes
<1>2. where' \in [Actor -> Where] /\ where'[t] = to /\ \A u \in Actor : u # t => where'[u] = where[u]
  BY <1>1 DEF Goes
<1>3. IsFiniteSet(Inside) /\ Cardinality(Inside) \in Nat
  BY InsideFinite
<1>4. CASE to \in {"out", "signal"} /\ where[t] \in {"out", "signal"}
  <2>1. Inside' = Inside
    BY <1>2, <1>4 DEF Inside
  <2> QED  BY <1>2, <1>3, <1>4, <2>1
<1>5. CASE to \notin {"out", "signal"} /\ where[t] \notin {"out", "signal"}
  <2>1. Inside' = Inside
    BY <1>2, <1>5 DEF Inside
  <2> QED  BY <1>2, <1>3, <1>5, <2>1
<1>6. CASE to \notin {"out", "signal"} /\ where[t] \in {"out", "signal"}
  <2>1. Inside' = Inside \cup {t} /\ t \notin Inside
    BY <1>2, <1>6 DEF Inside
  <2>2. Cardinality(Inside') = Cardinality(Inside) + 1
    BY <1>3, <2>1, FS_AddElement
  <2> QED  BY <1>2, <1>3, <1>6, <2>2
<1>7. CASE to \in {"out", "signal"} /\ where[t] \notin {"out", "signal"}
  <2>1. Inside' = Inside \ {t} /\ t \in Inside
    BY <1>2, <1>7 DEF Inside
  <2>2. Cardinality(Inside') = Cardinality(Inside) - 1
    BY <1>3, <2>1, FS_RemoveElement
  <2> QED  BY <1>2, <1>3, <1>7, <2>2
<1> QED  BY <1>4, <1>5, <1>6, <1>7

(* A thread that is inside, and stays *)
LEMMA ThreadsMove ==
    ASSUME PollTypes, ThreadsKept, NEW t \in Actor, where[t] \in {"in", "poll", "got"}, NEW to \in {"poll", "got", "unref"},
           Goes(t, to), life' = life, refs' = refs, ~Up => cq' = <<>>,
           \A u \in Waiter : where'[u] # "got" => taken'[u] = <<>>
    PROVE  ThreadsKept' /\ where' \in [Actor -> Where]
<1>1. /\ where' \in [Actor -> Where] /\ where'[t] = to /\ \A u \in Actor : u # t => where'[u] = where[u]
      /\ Cardinality(Inside') = Cardinality(Inside)
                + (IF to \in {"out", "signal"} THEN 0 ELSE 1) - (IF where[t] \in {"out", "signal"} THEN 0 ELSE 1)
  <2>1. to \in Where
    BY DEF Where
  <2> QED  BY <2>1, InsideMoves
<1>2. Cardinality(Inside') = Cardinality(Inside)
  BY <1>1, InsideFinite
<1>3. refs = Cardinality(Inside) + (IF life \in {"removed", "closed"} THEN 1 ELSE 0)
  BY DEF ThreadsKept, Inside
<1>4. refs' = Cardinality(Inside') + (IF life' \in {"removed", "closed"} THEN 1 ELSE 0)
  BY <1>2, <1>3
<1>5. \A u \in Actor : where'[u] = "signal" => where[u] = "signal"
  BY <1>1
<1>6. \A u \in Actor : where'[u] = "signal" => life' = "destroying" /\ refs' = 0
  BY <1>5 DEF ThreadsKept
<1>7. \A u, v \in Actor : where'[u] = "signal" /\ where'[v] = "signal" => u = v
  BY <1>5 DEF ThreadsKept
<1>8. life' # "gone"
  BY DEF ThreadsKept
<1>9. ~Up' => cq' = <<>>
  BY DEF Up
<1> QED  BY <1>1, <1>4, <1>6, <1>7, <1>8, <1>9 DEF ThreadsKept, Inside

-----------------------------------------------------------------------------
(* Each step keeps the invariant: the threads that wait, ... *)

(* Nothing but a thread, the reference count and the life of the port *)
LEMMA PacketsStay ==
    ASSUME PollIInv, UNCHANGED <<port, req, cq, taken>>, Up' = Up, Polling' # {} => Polling # {},
           life' = "gone" <=> life = "gone"
    PROVE  PortKept' /\ PacketsOnce'
<1>1. Packeted' = Packeted /\ Outstanding' = Outstanding
  BY DEF Packeted, Outstanding
<1>2. \A r \in Reg : req'[r] = req[r]
  OBVIOUS
<1>3. PortKept'
  BY <1>1, <1>2, PortStays
<1>4. PacketsOnce'
  BY <1>1 DEF PollIInv, PacketsOnce, PacketsApart
<1> QED  BY <1>3, <1>4

(* ... when they enter, ... *)
LEMMA EnterKeeps == ASSUME PollIInv, NEW t \in Actor, Enter(t) PROVE PollIInv'
<1>0. PollTypes /\ ThreadsKept /\ life = "open" /\ where[t] = "out" /\ Goes(t, "in") /\ refs' = refs + 1
      /\ UNCHANGED <<port, req, cq, taken, life>>
  BY DEF PollIInv, Enter, outside
<1>1. /\ where' \in [Actor -> Where] /\ where'[t] = "in" /\ (\A u \in Actor : u # t => where'[u] = where[u])
      /\ Cardinality(Inside') = Cardinality(Inside) + 1
  <2>1. "in" \in Where
    BY DEF Where
  <2>2. Cardinality(Inside') = Cardinality(Inside)
                + (IF "in" \in {"out", "signal"} THEN 0 ELSE 1) - (IF where[t] \in {"out", "signal"} THEN 0 ELSE 1)
    BY <1>0, <2>1, InsideMoves
  <2>3. Cardinality(Inside) \in Nat
    BY InsideFinite
  <2>4. where' \in [Actor -> Where] /\ where'[t] = "in" /\ \A u \in Actor : u # t => where'[u] = where[u]
    BY <1>0, <2>1, InsideMoves
  <2> QED  BY <1>0, <2>2, <2>3, <2>4
<1>2. PollTypes'
  BY <1>0, <1>1 DEF PollTypes
<1>3. PortKept' /\ PacketsOnce'
  <2>1. Polling' # {} => Polling # {}
    BY <1>1 DEF Polling, Actor
  <2>2. Up' = Up
    BY <1>0 DEF Up
  <2> QED  BY <1>0, <2>1, <2>2, PacketsStay
<1>4. ThreadsKept'
  <2>1. refs = Cardinality(Inside) + (IF life \in {"removed", "closed"} THEN 1 ELSE 0)
    BY <1>0 DEF ThreadsKept, Inside
  <2>2. refs' = Cardinality(Inside') + (IF life' \in {"removed", "closed"} THEN 1 ELSE 0)
    BY <1>0, <1>1, <2>1, InsideFinite
  <2>3. \A u \in Actor : where'[u] # "signal"
    BY <1>0, <1>1 DEF ThreadsKept
  <2>4. \A u \in Waiter : where'[u] # "got" => taken'[u] = <<>>
    BY <1>0, <1>1 DEF ThreadsKept, Actor
  <2>5. ~Up' => cq' = <<>>
    BY <1>0 DEF Up
  <2>6. life' # "gone"
    BY <1>0
  <2> QED  BY <2>2, <2>3, <2>4, <2>5, <2>6 DEF ThreadsKept, Inside
<1> QED  BY <1>2, <1>3, <1>4 DEF PollIInv

(* ... when they leave, ... *)
LEMMA UnrefKeeps == ASSUME PollIInv, NEW t \in Actor, Unref(t) PROVE PollIInv'
<1> DEFINE to == IF refs = 1 /\ life = "destroying" THEN "signal" ELSE "out"
<1>0. PollTypes /\ ThreadsKept /\ where[t] = "unref" /\ Goes(t, to) /\ refs' = refs - 1
      /\ UNCHANGED <<port, req, cq, taken, life>>
  BY DEF PollIInv, Unref, outside
<1>1. /\ where' \in [Actor -> Where] /\ where'[t] = to /\ (\A u \in Actor : u # t => where'[u] = where[u])
      /\ Cardinality(Inside') = Cardinality(Inside) - 1
  <2>1. to \in Where /\ to \in {"out", "signal"}
    BY DEF Where
  <2> HIDE DEF to
  <2>2. Cardinality(Inside') = Cardinality(Inside)
                + (IF to \in {"out", "signal"} THEN 0 ELSE 1) - (IF where[t] \in {"out", "signal"} THEN 0 ELSE 1)
    BY <1>0, <2>1, InsideMoves
  <2>3. Cardinality(Inside) \in Nat
    BY InsideFinite
  <2>4. where' \in [Actor -> Where] /\ where'[t] = to /\ \A u \in Actor : u # t => where'[u] = where[u]
    BY <1>0, <2>1, InsideMoves
  <2> QED  BY <1>0, <2>1, <2>2, <2>3, <2>4
<1>2. Cardinality(Inside) \in Nat /\ Cardinality(Inside) # 0 /\ refs \in Nat
  <2>1. t \in Inside
    BY <1>0 DEF Inside
  <2> QED  BY <1>0, <2>1, InsideFinite, FS_EmptySet DEF PollTypes
<1>3. refs = Cardinality(Inside) + (IF life \in {"removed", "closed"} THEN 1 ELSE 0)
  BY <1>0 DEF ThreadsKept, Inside
<1>4. refs' = Cardinality(Inside') + (IF life' \in {"removed", "closed"} THEN 1 ELSE 0) /\ refs' \in Nat /\ refs # 0
  BY <1>0, <1>1, <1>2, <1>3
<1>5. PollTypes'
  BY <1>0, <1>1, <1>4 DEF PollTypes
<1>6. PortKept' /\ PacketsOnce'
  <2>1. Polling' # {} => Polling # {}
    BY <1>1 DEF Polling, Actor
  <2>2. Up' = Up
    BY <1>0 DEF Up
  <2> QED  BY <1>0, <2>1, <2>2, PacketsStay
<1>7. ThreadsKept'
  <2>1. \A u \in Actor : where[u] # "signal"
    BY <1>0, <1>4 DEF ThreadsKept
  <2>2. \A u \in Actor : where'[u] = "signal" => u = t /\ life' = "destroying" /\ refs' = 0
    BY <1>0, <1>1, <1>2, <2>1
  <2>3. \A u \in Waiter : where'[u] # "got" => taken'[u] = <<>>
    BY <1>0, <1>1 DEF ThreadsKept, Actor
  <2>4. ~Up' => cq' = <<>>
    BY <1>0 DEF Up, ThreadsKept
  <2>5. life' # "gone"
    BY <1>0 DEF ThreadsKept
  <2> QED  BY <1>4, <2>2, <2>3, <2>4, <2>5 DEF ThreadsKept, Inside
<1> QED  BY <1>5, <1>6, <1>7 DEF PollIInv

(* A step of a thread inside that changes the port and no packet *)
LEMMA StepKeeps ==
    ASSUME PollIInv, NEW t \in Actor, where[t] \in {"in", "poll"}, NEW to \in {"poll", "unref"}, Goes(t, to),
           NEW p, Sound(p, Outstanding, Waits, Up), Becomes(p), UNCHANGED <<cq, taken, life, refs>>,
           Polling' # {} => p.upd = <<>>
    PROVE  PollIInv'
<1>0. PollTypes /\ ThreadsKept /\ PacketsApart /\ life # "gone" /\ Outstanding = {r \in Reg : req[r] # "none"} \cup Packeted
  <2>1. life # "gone"
    BY DEF PollIInv, ThreadsKept
  <2> QED  BY <2>1, PollFacts
<1>1. Packeted' = Packeted
  BY DEF Packeted
<1>2. PacketsApart'
  BY <1>0 DEF PacketsApart
<1>3. Sound(p, {r \in Reg : req[r] # "none"} \cup Packeted', Waits, Up)
  BY <1>0, <1>1
<1>4. PortKept' /\ PacketsOnce' /\ port' \in Port /\ req' \in [Reg -> {"none", "wait", "cancel"}]
  BY <1>0, <1>1, <1>2, <1>3, PortBecomes
<1>5. ~Up => cq' = <<>>
  BY <1>0 DEF ThreadsKept
<1>6. \A u \in Waiter : where'[u] # "got" => taken'[u] = <<>>
  <2>1. \A u \in Actor : u # t => where'[u] = where[u]
    BY <1>0 DEF Goes, PollTypes
  <2> QED  BY <1>0, <2>1 DEF ThreadsKept, Actor
<1>7. ThreadsKept' /\ where' \in [Actor -> Where]
  BY <1>0, <1>5, <1>6, ThreadsMove
<1>8. PollTypes'
  BY <1>0, <1>4, <1>7 DEF PollTypes
<1> QED  BY <1>4, <1>7, <1>8 DEF PollIInv

(* ... when they begin to wait, ... *)
LEMMA WaitBeginKeeps == ASSUME PollIInv, NEW t \in Waiter, WaitBegin(t) PROVE PollIInv'
<1>1. where[t] = "in" /\ Becomes(UpdateEvents(port)) /\ Goes(t, "poll") /\ UNCHANGED <<cq, taken, life, refs>> /\ t \in Actor
  BY DEF WaitBegin, outside, Actor
<1> DEFINE p == UpdateEvents(port)
<1>2. Sound(p, Outstanding, Waits, Up) /\ p.upd = <<>>
  BY PollFacts, UpdatesSound
<1>3. Becomes(p)
  BY <1>1
<1> HIDE DEF p
<1> QED  BY <1>1, <1>2, <1>3, StepKeeps

(* ... when the completion port has been closed, ... *)
LEMMA WaitFailsKeeps == ASSUME PollIInv, NEW t \in Waiter, WaitFails(t) PROVE PollIInv'
<1> DEFINE p == UpdateIfPolling(port, t)
<1>1. where[t] = "poll" /\ Becomes(p) /\ Goes(t, "unref") /\ UNCHANGED <<cq, taken, life, refs>> /\ t \in Actor
  BY DEF WaitFails, outside, Actor
<1>2. Sound(p, Outstanding, Waits, Up) /\ (Polling \ {t} # {} => p.upd = <<>>)
  BY PollFacts, UpdatesIfPolling
<1>3. Polling' = Polling \ {t}
  <2>1. where \in [Actor -> Where]
    BY DEF PollIInv, PollTypes
  <2> QED  BY <1>1, <2>1 DEF Goes, Polling, Actor
<1> HIDE DEF p
<1> QED  BY <1>1, <1>2, <1>3, StepKeeps

(* The packets that a thread gets were the first of the queue. *)
LEMMA DequeueKeeps == ASSUME PollIInv, NEW t \in Waiter, Dequeue(t) PROVE PollIInv'
<1> DEFINE n == IF Len(cq) < MaxEvents THEN Len(cq) ELSE MaxEvents
           got == SubSeq(cq, 1, n)
           rest == SubSeq(cq, n + 1, Len(cq))
<1>0. /\ PollTypes /\ ThreadsKept /\ PacketsApart /\ (\A r \in Packeted : req[r] = "none")
      /\ where[t] = "poll" /\ t \in Actor /\ Up
      /\ taken' = [taken EXCEPT ![t] = got] /\ cq' = rest /\ Goes(t, "got") /\ UNCHANGED <<port, req, refs, life>>
  BY PollFacts DEF Dequeue, outside, Actor, Up
<1>1. PICK l \in Nat : l = Len(cq) /\ cq \in Seq(Packet)
  BY <1>0 DEF PollTypes
<1>2. n \in 0 .. l
  BY <1>1, WepollAssumption
<1> HIDE DEF n
<1>3. got \in Seq(Packet) /\ Len(got) = n /\ \A k \in 1 .. n : got[k] = cq[k]
  <2>1. 1 \in Nat \ {0} /\ n \in Nat /\ n <= Len(cq) /\ 1 <= n + 1
    BY <1>1, <1>2
  <2>2. got \in Seq(Packet) /\ Len(got) = n - 1 + 1 /\ \A k \in 1 .. n - 1 + 1 : got[k] = cq[1 + k - 1]
    BY <1>1, <2>1, PieceIs
  <2> HIDE DEF got
  <2>3. n - 1 + 1 = n /\ \A k \in 1 .. n : 1 + k - 1 = k
    BY <1>2
  <2> QED  BY <2>2, <2>3
<1>4. rest \in Seq(Packet) /\ Len(rest) = l - n /\ \A k \in 1 .. l - n : rest[k] = cq[n + k]
  <2>1. n + 1 \in Nat \ {0} /\ l \in Nat /\ l <= Len(cq) /\ n + 1 <= l + 1
    BY <1>1, <1>2
  <2>2. rest \in Seq(Packet) /\ Len(rest) = l - (n + 1) + 1 /\ \A k \in 1 .. l - (n + 1) + 1 : rest[k] = cq[n + 1 + k - 1]
    BY <1>1, <2>1, PieceIs
  <2> HIDE DEF rest
  <2>3. l - (n + 1) + 1 = l - n /\ \A k \in 1 .. l - n : n + 1 + k - 1 = n + k
    BY <1>2
  <2> QED  BY <2>2, <2>3
<1> HIDE DEF got, rest
<1>5. taken \in [Actor -> Seq(Packet)] /\ taken[t] = <<>>
  BY <1>0 DEF PollTypes, ThreadsKept
<1>6. taken' \in [Actor -> Seq(Packet)] /\ taken'[t] = got /\ \A u \in Waiter : u # t => taken'[u] = taken[u]
  BY <1>0, <1>3, <1>5 DEF Actor
<1>7. \A k \in 1 .. l : k \in 1 .. n \/ (k - n \in 1 .. l - n /\ n + (k - n) = k)
  BY <1>2
<1>8. (\A k \in 1 .. n : k \in 1 .. l) /\ \A k \in 1 .. l - n : n + k \in 1 .. l /\ n + k \notin 1 .. n
  BY <1>2
<1>9. Len(taken[t]) = 0 /\ Len(taken'[t]) = n /\ Len(cq') = l - n
  BY <1>0, <1>3, <1>4, <1>5, <1>6
<1>10. (\A k \in 1 .. n : taken'[t][k] = cq[k]) /\ \A k \in 1 .. l - n : cq'[k] = cq[n + k]
  BY <1>0, <1>3, <1>4, <1>6
<1>11. PacketsApart'
  <2>1. /\ \A j, k \in 1 .. l : cq[j].r = cq[k].r => j = k
        /\ \A j \in 1 .. l, u \in Waiter : \A k \in 1 .. Len(taken[u]) : cq[j].r # taken[u][k].r
        /\ \A u, v \in Waiter : \A j \in 1 .. Len(taken[u]), k \in 1 .. Len(taken[v]) :
                taken[u][j].r = taken[v][k].r => u = v /\ j = k
    BY <1>0, <1>1 DEF PacketsApart
  <2>2. \A j, k \in 1 .. l - n : cq'[j].r = cq'[k].r => j = k
    <3> SUFFICES ASSUME NEW j \in 1 .. l - n, NEW k \in 1 .. l - n, cq'[j].r = cq'[k].r PROVE j = k
      OBVIOUS
    <3>1. n + j = n + k
      BY <1>8, <1>10, <2>1
    <3> QED  BY <1>2, <3>1
  <2>3. ASSUME NEW j \in 1 .. l - n, NEW u \in Waiter, NEW k \in 1 .. Len(taken'[u]) PROVE cq'[j].r # taken'[u][k].r
    <3>1. CASE u = t
      <4>1. k \in 1 .. n /\ taken'[u][k] = cq[k]
        BY <1>9, <1>10, <3>1
      <4> QED  BY <1>8, <1>10, <2>1, <4>1
    <3>2. CASE u # t
      <4>1. taken'[u] = taken[u]
        BY <1>6, <3>2
      <4> QED  BY <1>8, <1>10, <2>1, <4>1
    <3> QED  BY <3>1, <3>2
  <2>4. ASSUME NEW u \in Waiter, NEW v \in Waiter, NEW j \in 1 .. Len(taken'[u]), NEW k \in 1 .. Len(taken'[v]),
               taken'[u][j].r = taken'[v][k].r
        PROVE  u = v /\ j = k
    <3>1. CASE u = t /\ v = t
      <4>1. j \in 1 .. n /\ k \in 1 .. n /\ taken'[u][j] = cq[j] /\ taken'[v][k] = cq[k]
        BY <1>9, <1>10, <3>1
      <4> QED  BY <1>8, <2>1, <2>4, <3>1, <4>1
    <3>2. CASE u = t /\ v # t
      <4>1. j \in 1 .. l /\ taken'[u][j] = cq[j] /\ taken'[v] = taken[v]
        BY <1>6, <1>8, <1>9, <1>10, <3>2
      <4> QED  BY <2>1, <2>4, <4>1
    <3>3. CASE u # t /\ v = t
      <4>1. k \in 1 .. l /\ taken'[v][k] = cq[k] /\ taken'[u] = taken[u]
        BY <1>6, <1>8, <1>9, <1>10, <3>3
      <4> QED  BY <2>1, <2>4, <4>1
    <3>4. CASE u # t /\ v # t
      <4>1. taken'[v] = taken[v] /\ taken'[u] = taken[u]
        BY <1>6, <3>4
      <4> QED  BY <2>1, <2>4, <4>1
    <3> QED  BY <3>1, <3>2, <3>3, <3>4
  <2> QED  BY <1>9, <2>2, <2>3, <2>4, Zenon DEF PacketsApart
<1>12. Packeted' = Packeted
  <2>1. ASSUME NEW x \in Packeted PROVE x \in Packeted'
    <3>1. CASE \E k \in 1 .. l : x = cq[k].r
      <4>1. PICK k \in 1 .. l : x = cq[k].r
        BY <3>1
      <4>2. CASE k \in 1 .. n
        <5>1. x = taken'[t][k].r /\ k \in 1 .. Len(taken'[t])
          BY <1>9, <1>10, <4>1, <4>2
        <5>2. \E u \in Waiter : \E i \in 1 .. Len(taken'[u]) : x = taken'[u][i].r
          BY <5>1, Zenon
        <5> QED  BY <5>2 DEF Packeted
      <4>3. CASE k - n \in 1 .. l - n /\ n + (k - n) = k
        <5>1. cq'[k - n] = cq[k]
          BY <1>10, <4>3
        <5> QED  BY <1>9, <4>1, <4>3, <5>1 DEF Packeted
      <4> QED  BY <1>7, <4>2, <4>3
    <3>2. CASE \E u \in Waiter : \E k \in 1 .. Len(taken[u]) : x = taken[u][k].r
      <4>1. PICK u \in Waiter : \E k \in 1 .. Len(taken[u]) : x = taken[u][k].r
        BY <3>2
      <4>2. u # t
        BY <1>9, <4>1
      <4> QED  BY <1>6, <4>1, <4>2 DEF Packeted
    <3> QED  BY <1>1, <3>1, <3>2 DEF Packeted
  <2>2. ASSUME NEW x \in Packeted' PROVE x \in Packeted
    <3>1. CASE \E k \in 1 .. l - n : x = cq'[k].r
      <4>1. PICK k \in 1 .. l - n : x = cq'[k].r
        BY <3>1
      <4>2. n + k \in 1 .. l /\ x = cq[n + k].r
        BY <1>8, <1>10, <4>1
      <4> QED  BY <1>1, <4>2 DEF Packeted
    <3>2. CASE \E u \in Waiter : \E k \in 1 .. Len(taken'[u]) : x = taken'[u][k].r
      <4>1. PICK u \in Waiter : \E k \in 1 .. Len(taken'[u]) : x = taken'[u][k].r
        BY <3>2
      <4>2. CASE u = t
        <5>1. PICK k \in 1 .. n : x = cq[k].r
          BY <1>9, <1>10, <4>1, <4>2
        <5> QED  BY <1>1, <1>8, <5>1 DEF Packeted
      <4>3. CASE u # t
        BY <1>6, <4>1, <4>3 DEF Packeted
      <4> QED  BY <4>2, <4>3
    <3> QED  BY <1>9, <2>2, <3>1, <3>2 DEF Packeted
  <2> QED  BY <2>1, <2>2
<1>13. PacketsOnce'
  BY <1>0, <1>11, <1>12 DEF PacketsOnce
<1>14. PortKept'
  <2>1. Outstanding' = Outstanding /\ \A r \in Reg : req'[r] = req[r]
    BY <1>0, <1>12 DEF Outstanding
  <2>2. Up' = Up
    BY <1>0 DEF Up
  <2>3. Polling # {}
    BY <1>0 DEF Polling
  <2> QED  BY <1>0, <2>1, <2>2, <2>3, PortStays
<1>15. ThreadsKept' /\ where' \in [Actor -> Where]
  <2>1. \A u \in Waiter : where'[u] # "got" => taken'[u] = <<>>
    <3>1. where'[t] = "got" /\ \A u \in Actor : u # t => where'[u] = where[u]
      BY <1>0 DEF Goes, PollTypes
    <3> QED  BY <1>0, <1>6, <3>1 DEF ThreadsKept, Actor
  <2> QED  BY <1>0, <2>1, ThreadsMove
<1>16. PollTypes'
  BY <1>0, <1>4, <1>6, <1>15 DEF PollTypes
<1> QED  BY <1>13, <1>14, <1>15, <1>16 DEF PollIInv

(* What a thread feeds is gone, and nothing else. *)
LEMMA FeedKeeps == ASSUME PollIInv, NEW t \in Waiter, Feed(t) PROVE PollIInv'
<1> DEFINE packets == taken[t]
           fed == FeedEvents(port, packets)
           gone == Fed(packets, Len(packets))
           left == {r \in Reg : req[r] # "none"} \cup Packeted'
<1>0. /\ PollTypes /\ ThreadsKept /\ PacketsApart /\ (\A r \in Packeted : req[r] = "none")
      /\ where[t] = "got" /\ t \in Actor /\ taken' = [taken EXCEPT ![t] = <<>>] /\ UNCHANGED <<cq, life, refs>>
      /\ Sound(port, Outstanding, Waits, Up) /\ port.sent = {} /\ port.stop = {}
      /\ life # "gone" /\ Outstanding = {r \in Reg : req[r] # "none"} \cup Packeted
  <2>1. life # "gone"
    BY DEF PollIInv, ThreadsKept, Feed, Actor
  <2> QED  BY <2>1, PollFacts DEF Feed, outside, Actor
<1>1. packets \in Seq(Packet) /\ taken \in [Actor -> Seq(Packet)]
  BY <1>0 DEF PollTypes
<1>2. \A j, k \in 1 .. Len(packets) : packets[j].r = packets[k].r => j = k
  BY <1>0 DEF PacketsApart
<1>3. \A k \in 1 .. Len(packets) : packets[k].r \in Packeted
  BY DEF Packeted
<1>4. \A k \in 1 .. Len(packets) : packets[k].r \in Outstanding /\ packets[k].r \notin Waits
  BY <1>0, <1>3 DEF Waits
<1>5. taken' \in [Actor -> Seq(Packet)] /\ taken'[t] = <<>> /\ \A u \in Waiter : u # t => taken'[u] = taken[u]
  BY <1>0, <1>1 DEF Actor
<1> HIDE DEF packets
<1>6. Sound(fed, Outstanding \ gone, Waits, Up)
  BY <1>0, <1>1, <1>2, <1>4, FeedsSound
<1>7. Outstanding \ gone = left
  <2>1. gone = {taken[t][k].r : k \in 1 .. Len(taken[t])}
    BY DEF Fed, packets
  <2>2. ASSUME NEW x \in Packeted, x \notin gone PROVE x \in Packeted'
    <3>1. CASE \E k \in 1 .. Len(cq) : x = cq[k].r
      BY <1>0, <3>1 DEF Packeted
    <3>2. CASE \E u \in Waiter : \E k \in 1 .. Len(taken[u]) : x = taken[u][k].r
      <4>1. PICK u \in Waiter : \E k \in 1 .. Len(taken[u]) : x = taken[u][k].r
        BY <3>2
      <4>2. u # t
        BY <2>1, <2>2, <4>1
      <4> QED  BY <1>5, <4>1, <4>2 DEF Packeted
    <3> QED  BY <3>1, <3>2 DEF Packeted
  <2>3. ASSUME NEW x \in Packeted' PROVE x \in Packeted /\ x \notin gone
    <3>1. CASE \E k \in 1 .. Len(cq) : x = cq[k].r
      <4>1. PICK k \in 1 .. Len(cq) : x = cq[k].r
        BY <3>1
      <4>2. x \in Packeted
        BY <4>1 DEF Packeted
      <4>3. x \notin gone
        BY <1>0, <2>1, <4>1 DEF PacketsApart
      <4> QED  BY <4>2, <4>3
    <3>2. CASE \E u \in Waiter : \E k \in 1 .. Len(taken'[u]) : x = taken'[u][k].r
      <4>1. PICK u \in Waiter : \E k \in 1 .. Len(taken'[u]) : x = taken'[u][k].r
        BY <3>2
      <4>2. u # t /\ taken'[u] = taken[u]
        BY <1>5, <4>1
      <4>3. PICK k \in 1 .. Len(taken[u]) : x = taken[u][k].r
        BY <4>1, <4>2
      <4>4. x \in Packeted
        BY <4>3 DEF Packeted
      <4>5. x \notin gone
        BY <1>0, <2>1, <4>2, <4>3 DEF PacketsApart
      <4> QED  BY <4>4, <4>5
    <3> QED  BY <1>0, <2>3, <3>1, <3>2 DEF Packeted
  <2>4. \A x \in gone : x \in Packeted
    BY <1>3 DEF Fed
  <2>5. \A x \in gone : req[x] = "none"
    BY <1>0, <2>4
  <2> HIDE DEF gone
  <2> QED  BY <1>0, <2>2, <2>3, <2>5
<1>8. \A r \in Packeted' : r \in Packeted
  <2>1. \A r \in Packeted' : r \in Outstanding /\ r \notin gone
    BY <1>7
  <2>2. ASSUME NEW x \in Packeted' PROVE x \in Packeted
    <3>1. CASE \E k \in 1 .. Len(cq) : x = cq[k].r
      BY <3>1 DEF Packeted
    <3>2. CASE \E u \in Waiter : \E k \in 1 .. Len(taken'[u]) : x = taken'[u][k].r
      <4>1. PICK u \in Waiter : \E k \in 1 .. Len(taken'[u]) : x = taken'[u][k].r
        BY <3>2
      <4>2. u # t /\ taken'[u] = taken[u]
        BY <1>5, <4>1
      <4> QED  BY <4>1, <4>2 DEF Packeted
    <3> QED  BY <1>0, <2>2, <3>1, <3>2 DEF Packeted
  <2> QED  BY <2>2
<1>9. PacketsApart'
  <2>1. ASSUME NEW u \in Waiter PROVE \A k \in 1 .. Len(taken'[u]) : k \in 1 .. Len(taken[u]) /\ taken'[u][k] = taken[u][k]
    BY <1>5
  <2>2. \A j, k \in 1 .. Len(cq') : cq'[j].r = cq'[k].r => j = k
    BY <1>0 DEF PacketsApart
  <2>3. \A j \in 1 .. Len(cq'), u \in Waiter : \A k \in 1 .. Len(taken'[u]) : cq'[j].r # taken'[u][k].r
    BY <1>0, <2>1 DEF PacketsApart
  <2>4. \A u, v \in Waiter : \A j \in 1 .. Len(taken'[u]), k \in 1 .. Len(taken'[v]) :
                taken'[u][j].r = taken'[v][k].r => u = v /\ j = k
    BY <1>0, <2>1 DEF PacketsApart
  <2> QED  BY <2>2, <2>3, <2>4, Zenon DEF PacketsApart
<1> HIDE DEF fed, gone, left
<1>10. PICK p : /\ Becomes(p) /\ (Goes(t, "poll") \/ Goes(t, "unref")) /\ Sound(p, left, Waits, Up)
                /\ (Polling' # {} => p.upd = <<>>)
  <2>1. Sound(fed, left, Waits, Up)
    BY <1>6, <1>7
  <2>2. CASE Becomes(UpdateEvents(fed)) /\ Goes(t, "poll")
    <3> DEFINE q == UpdateEvents(fed)
    <3>1. Sound(q, left, Waits, Up) /\ q.upd = <<>>
      BY <2>1, UpdatesSound
    <3> HIDE DEF q
    <3>2. Becomes(q) /\ Goes(t, "poll")
      BY <2>2 DEF q
    <3> QED  BY <3>1, <3>2
  <2>3. CASE Becomes(UpdateIfPolling(fed, t)) /\ Goes(t, "unref")
    <3>1. Polling' = Polling \ {t}
      <4>1. where \in [Actor -> Where]
        BY <1>0 DEF PollTypes
      <4> QED  BY <2>3, <4>1 DEF Goes, Polling, Actor
    <3> DEFINE q == UpdateIfPolling(fed, t)
    <3>2. Sound(q, left, Waits, Up) /\ (Polling \ {t} # {} => q.upd = <<>>)
      BY <2>1, UpdatesIfPolling
    <3> HIDE DEF q
    <3>3. Becomes(q) /\ Goes(t, "unref")
      BY <2>3 DEF q
    <3> QED  BY <3>1, <3>2, <3>3
  <2> QED  BY <2>2, <2>3 DEF Feed, fed, packets
<1>11. PortKept' /\ PacketsOnce' /\ port' \in Port /\ req' \in [Reg -> {"none", "wait", "cancel"}]
  BY <1>0, <1>8, <1>9, <1>10, PortBecomes DEF left
<1>12. ThreadsKept' /\ where' \in [Actor -> Where]
  <2>1. \A u \in Waiter : where'[u] # "got" => taken'[u] = <<>>
    <3>1. \A u \in Actor : u # t => where'[u] = where[u]
      BY <1>0, <1>10 DEF Goes, PollTypes
    <3> QED  BY <1>0, <1>5, <3>1 DEF ThreadsKept, Actor
  <2>2. ~Up => cq' = <<>>
    BY <1>0 DEF ThreadsKept
  <2> QED  BY <1>0, <1>10, <2>1, <2>2, ThreadsMove
<1>13. PollTypes'
  BY <1>0, <1>5, <1>11, <1>12 DEF PollTypes
<1> QED  BY <1>11, <1>12, <1>13 DEF PollIInv

(* ... those that call epoll_ctl, ... *)
LEMMA CtlKeeps == ASSUME PollIInv, NEW t \in Caller, Ctl(t) PROVE PollIInv'
<1>0. /\ where[t] = "in" /\ Goes(t, "unref") /\ UNCHANGED <<cq, taken, life, refs>> /\ t \in Actor
      /\ PollTypes /\ Sound(port, Outstanding, Waits, Up) /\ port.sent = {} /\ port.stop = {}
  BY PollFacts DEF Ctl, Actor
<1>1. \A r \in Reg, s \in Sock : r \in Find(s) => port.st[r].mem = "live"
  BY DEF Find
<1>2. Polling' = Polling /\ Polling \ {t} = Polling
  <2>1. where \in [Actor -> Where]
    BY <1>0 DEF PollTypes
  <2> QED  BY <1>0, <2>1 DEF Goes, Polling, Actor
<1>3. PICK p : Becomes(p) /\ Sound(p, Outstanding, Waits, Up) /\ (Polling' # {} => p.upd = <<>>)
  <2>1. CASE \E s \in Sock, r \in Reg, want \in Wanted :
                port.st[r].mem = "free" /\ Becomes(UpdateIfPolling(CtlAdd(port, r, s, want), t))
    <3>1. PICK s \in Sock, r \in Reg, want \in Wanted :
                port.st[r].mem = "free" /\ Becomes(UpdateIfPolling(CtlAdd(port, r, s, want), t))
      BY <2>1
    <3>2. Sound(CtlAdd(port, r, s, want), Outstanding, Waits, Up)
      BY <1>0, <3>1, AddSound
    <3> QED  BY <1>2, <3>1, <3>2, UpdatesIfPolling
  <2>2. CASE \E s \in Sock : \E r \in Find(s), want \in Wanted : Becomes(UpdateIfPolling(CtlMod(port, r, want), t))
    <3>0. PICK s \in Sock : \E r \in Find(s), want \in Wanted : Becomes(UpdateIfPolling(CtlMod(port, r, want), t))
      BY <2>2
    <3>1. PICK r \in Find(s), want \in Wanted : Becomes(UpdateIfPolling(CtlMod(port, r, want), t))
      BY <3>0
    <3>2. r \in Reg /\ port.st[r].mem = "live"
      BY <3>1 DEF Find
    <3>3. Sound(CtlMod(port, r, want), Outstanding, Waits, Up)
      BY <1>0, <3>1, <3>2, ModSound
    <3> QED  BY <1>2, <3>1, <3>3, UpdatesIfPolling
  <2>3. CASE \E s \in Sock : \E r \in Find(s) : Becomes(Delete(port, r))
    <3>0. PICK s \in Sock : \E r \in Find(s) : Becomes(Delete(port, r))
      BY <2>3
    <3>1. PICK r \in Find(s) : Becomes(Delete(port, r))
      BY <3>0
    <3>2. r \in Reg /\ port.st[r].mem = "live"
      BY <3>1 DEF Find
    <3>3. /\ Sound(Delete(port, r), Outstanding, Waits, Up)
          /\ Len(Delete(port, r).upd) = IF r \in Range(port.upd) THEN Len(port.upd) - 1 ELSE Len(port.upd)
      BY <1>0, <3>1, <3>2, DeleteSound
    <3>4. Polling # {} => Delete(port, r).upd = <<>>
      <4> DEFINE q == Delete(port, r)
      <4>1. q.upd \in Seq(Reg)
        <5>1. q \in Port
          BY <3>3, Zenon DEF Sound, PortFit
        <5> HIDE DEF q
        <5> QED  BY <5>1, PortParts
      <4> HIDE DEF q
      <4> SUFFICES ASSUME Polling # {} PROVE q.upd = <<>>
        BY DEF q
      <4>2. port.upd = <<>>
        BY DEF PollIInv, PortKept
      <4>3. r \notin Range(port.upd) /\ Len(port.upd) = 0
        BY <4>2 DEF Range
      <4>4. Len(q.upd) = 0
        BY <3>3, <4>3 DEF q
      <4> QED  BY <4>1, <4>4
    <3> QED  BY <1>2, <3>1, <3>3, <3>4
  <2> QED  BY <2>1, <2>2, <2>3, Zenon DEF Ctl
<1> QED  BY <1>0, <1>3, StepKeeps

(* ... the one that closes the port, ... *)
LEMMA CloseBeginKeeps == ASSUME PollIInv, CloseBegin PROVE PollIInv'
<1>0. PollTypes /\ ThreadsKept /\ life = "open" /\ life' = "removed" /\ refs' = refs + 1 /\ UNCHANGED <<port, req, cq, where, taken>>
  BY DEF PollIInv, CloseBegin
<1>1. PollTypes'
  BY <1>0 DEF PollTypes
<1>2. PortKept' /\ PacketsOnce'
  <2>1. Up' = Up /\ Polling' = Polling
    BY <1>0 DEF Up, Polling
  <2> QED  BY <1>0, <2>1, PacketsStay
<1>3. ThreadsKept'
  <2>1. refs = Cardinality(Inside) + (IF life \in {"removed", "closed"} THEN 1 ELSE 0)
    BY <1>0 DEF ThreadsKept, Inside
  <2>2. Inside' = Inside
    BY <1>0 DEF Inside
  <2>3. refs' = Cardinality(Inside') + (IF life' \in {"removed", "closed"} THEN 1 ELSE 0)
    BY <1>0, <2>1, <2>2, InsideFinite
  <2>4. \A u \in Actor : where'[u] # "signal"
    BY <1>0 DEF ThreadsKept
  <2>5. Up' /\ life' # "gone" /\ \A u \in Waiter : where'[u] # "got" => taken'[u] = <<>>
    BY <1>0 DEF Up, ThreadsKept
  <2> QED  BY <2>3, <2>4, <2>5 DEF ThreadsKept, Inside
<1> QED  BY <1>1, <1>2, <1>3 DEF PollIInv

(* ... with its packets, ... *)
LEMMA CloseIocpKeeps == ASSUME PollIInv, CloseIocp PROVE PollIInv'
<1>0. PollTypes /\ ThreadsKept /\ life = "removed" /\ life' = "closed" /\ cq' = <<>> /\ UNCHANGED <<port, req, where, taken, refs>>
  BY DEF PollIInv, CloseIocp
<1>1. PollTypes'
  BY <1>0 DEF PollTypes
<1>2. \A r \in Packeted' : r \in Packeted
  BY <1>0 DEF Packeted
<1>3. PortKept'
  <2>1. \A r \in Reg : (req'[r] = req[r]) /\ (r \in Outstanding' => r \in Outstanding)
    BY <1>0, <1>2 DEF Outstanding
  <2>2. ~Up' /\ Polling' = Polling
    BY <1>0 DEF Up, Polling
  <2> QED  BY <1>0, <2>1, <2>2, PortStays
<1>4. PacketsOnce'
  <2>1. PacketsApart /\ \A r \in Packeted : req[r] = "none"
    BY PollFacts
  <2>2. Len(cq') = 0
    BY <1>0
  <2>3. PacketsApart'
    BY <1>0, <2>1, <2>2 DEF PacketsApart
  <2> QED  BY <1>0, <1>2, <2>1, <2>3 DEF PacketsOnce
<1>5. ThreadsKept'
  <2>1. refs = Cardinality(Inside) + (IF life \in {"removed", "closed"} THEN 1 ELSE 0)
    BY <1>0 DEF ThreadsKept, Inside
  <2>2. Inside' = Inside
    BY <1>0 DEF Inside
  <2>3. refs' = Cardinality(Inside') + (IF life' \in {"removed", "closed"} THEN 1 ELSE 0)
    BY <1>0, <2>1, <2>2
  <2>4. \A u \in Actor : where'[u] # "signal"
    BY <1>0 DEF ThreadsKept
  <2>5. cq' = <<>> /\ life' # "gone" /\ \A u \in Waiter : where'[u] # "got" => taken'[u] = <<>>
    BY <1>0 DEF ThreadsKept
  <2> QED  BY <2>3, <2>4, <2>5 DEF ThreadsKept, Inside
<1> QED  BY <1>1, <1>3, <1>4, <1>5 DEF PollIInv


(* ... the one that frees it, once nobody is inside, ... *)
LEMMA DeletePortKeeps ==
    ASSUME PollIInv, DeletePort, ~Up, UNCHANGED <<cq, taken>>, where' \in [Actor -> Where], refs' = 0,
           \A u \in Actor : where'[u] = "out" /\ where[u] # "got"
    PROVE  PollIInv'
<1>0. PollTypes /\ ThreadsKept /\ PortFit(port) /\ port.sent = {} /\ port.stop = {}
  BY PollFacts, Zenon DEF Sound
<1>1. life' = "gone"
  BY DEF DeletePort
<1>2. cq' = <<>> /\ \A u \in Waiter : taken'[u] = <<>>
  BY <1>0 DEF ThreadsKept, Actor
<1>3. Len(cq') = 0 /\ \A u \in Waiter : Len(taken'[u]) = 0
  BY <1>2
<1>4. Packeted' = {}
  <2>1. 1 .. 0 = {}
    OBVIOUS
  <2> QED  BY <1>3, <2>1 DEF Packeted
<1>5. /\ PortFit(port') /\ port'.upd = <<>> /\ port'.sent = {} /\ port'.stop = {}
      /\ req' \in [Reg -> {"none", "wait", "cancel"}]
      /\ \A r \in Reg : port'.st[r] = NoReg /\ req'[r] # "wait"
  <2>1. ASSUME NEW r \in Reg, req[r] = "wait" PROVE port.st[r].mem = "live" /\ port.st[r].poll = "pending"
    <3>1. LookedAfter(port, r) /\ Linked(port, r, Outstanding, Waits, Up) /\ r \in Waits /\ port.st[r] \in SockState
      BY <2>1, PollFacts, PortParts DEF Sound, Waits, PollTypes
    <3>2. port.st[r].poll = "pending"
      BY <1>0, <3>1 DEF Linked
    <3>3. port.st[r].mem # "free"
      BY <1>0, <3>2 DEF PortFit, RegsFit, NoReg
    <3> QED  BY <3>1, <3>2, <3>3 DEF LookedAfter, SockState
  <2>2. req \in [Reg -> {"none", "wait", "cancel"}]
    BY PollFacts
  <2> QED  BY <1>0, <2>1, <2>2, DeletesAll
<1>6. Outstanding' = {} /\ Waits' = {} /\ ~Up' /\ Polling' = {}
  BY <1>1, <1>4, <1>5 DEF Outstanding, Waits, Up, Polling, Actor
<1>7. ASSUME NEW r \in Reg PROVE LookedAfter(port', r) /\ Linked(port', r, {}, {}, FALSE)
  <2>1. port'.st[r].mem = "free" /\ port'.st[r].poll = "idle"
    BY <1>5 DEF NoReg
  <2> QED  BY <1>5, <2>1 DEF LookedAfter, Linked
<1>8. Sound(port', {}, {}, FALSE)
  BY <1>5, <1>7 DEF Sound
<1>9. Sound(port', Outstanding', Waits', Up')
  <2>1. Up' = FALSE
    BY <1>6 DEF Up
  <2> QED  BY <1>6, <1>8, <2>1, Zenon
<1>10. PortKept'
  BY <1>6, <1>5, <1>9 DEF PortKept
<1>11. PacketsOnce'
  <2>1. PacketsApart'
    BY <1>3 DEF PacketsApart
  <2> QED  BY <1>4, <2>1 DEF PacketsOnce
<1>12. PollTypes'
  <2>1. port' \in Port
    BY <1>5 DEF PortFit
  <2> QED  BY <1>0, <1>1, <1>5, <2>1 DEF PollTypes
<1>13. ThreadsKept'
  <2>1. Inside' = {}
    BY DEF Inside
  <2>2. refs' = Cardinality(Inside') + (IF life' \in {"removed", "closed"} THEN 1 ELSE 0)
    BY <1>1, <2>1, FS_EmptySet
  <2>3. \A u \in Waiter : where'[u] # "got" => taken'[u] = <<>>
    BY <1>2
  <2> QED  BY <1>1, <1>2, <1>5, <2>2, <2>3 DEF ThreadsKept, Inside
<1> QED  BY <1>10, <1>11, <1>12, <1>13 DEF PollIInv

(* ... at once, ... *)
LEMMA DestroyKeeps == ASSUME PollIInv, Destroy PROVE PollIInv'
<1>0. PollTypes /\ ThreadsKept /\ life = "closed" /\ refs' = refs - 1 /\ UNCHANGED <<cq, where, taken>> /\ ~Up
  BY DEF PollIInv, Destroy, Up
<1>1. refs = Cardinality(Inside) + 1
  BY <1>0 DEF ThreadsKept, Inside
<1>2. IsFiniteSet(Inside) /\ Cardinality(Inside) \in Nat
  BY InsideFinite
<1>3. \A u \in Actor : where[u] # "signal"
  BY <1>0 DEF ThreadsKept
<1>4. CASE refs = 1
  <2>1. DeletePort
    BY <1>4 DEF Destroy
  <2>2. Inside = {}
    BY <1>1, <1>2, <1>4, FS_EmptySet
  <2>3. \A u \in Actor : where'[u] = "out" /\ where[u] # "got"
    BY <1>0, <1>3, <2>2 DEF Inside
  <2>4. where' \in [Actor -> Where]
    BY <1>0 DEF PollTypes
  <2> QED  BY <1>0, <1>4, <2>1, <2>3, <2>4, DeletePortKeeps
<1>5. CASE refs # 1
  <2>1. life' = "destroying" /\ UNCHANGED <<port, req>>
    BY <1>5 DEF Destroy
  <2>2. PortKept' /\ PacketsOnce'
    <3>1. Up' = Up /\ Polling' = Polling
      BY <1>0, <2>1 DEF Up, Polling
    <3> QED  BY <1>0, <2>1, <3>1, PacketsStay
  <2>3. Inside' = Inside
    BY <1>0 DEF Inside
  <2>4. refs' = Cardinality(Inside') + (IF life' \in {"removed", "closed"} THEN 1 ELSE 0) /\ refs' \in Nat
    BY <1>0, <1>1, <1>2, <2>1, <2>3
  <2>5. PollTypes'
    BY <1>0, <2>1, <2>4 DEF PollTypes
  <2>6. cq' = <<>> /\ \A u \in Waiter : where'[u] # "got" => taken'[u] = <<>>
    BY <1>0 DEF ThreadsKept
  <2>7. life' # "gone" /\ \A u \in Actor : where'[u] # "signal"
    BY <1>0, <1>3, <2>1
  <2>8. ThreadsKept'
    BY <2>4, <2>6, <2>7 DEF ThreadsKept, Inside
  <2> QED  BY <2>2, <2>5, <2>8 DEF PollIInv
<1> QED  BY <1>4, <1>5

(* ... or when the last one has left, ... *)
LEMMA RendezvousKeeps == ASSUME PollIInv, NEW t \in Actor, Rendezvous(t) PROVE PollIInv'
<1>0. /\ PollTypes /\ ThreadsKept /\ life = "destroying" /\ where[t] = "signal" /\ DeletePort /\ Goes(t, "out")
      /\ UNCHANGED <<cq, taken, refs>> /\ ~Up
  BY DEF PollIInv, Rendezvous, Up
<1>1. refs = 0 /\ \A u \in Actor : where[u] = "signal" => u = t
  BY <1>0 DEF ThreadsKept
<1>2. Inside = {}
  <2>1. refs = Cardinality(Inside)
    BY <1>0, InsideFinite DEF ThreadsKept, Inside
  <2> QED  BY <1>1, <2>1, InsideFinite, FS_EmptySet
<1>3. where' \in [Actor -> Where] /\ where'[t] = "out" /\ \A u \in Actor : u # t => where'[u] = where[u]
  BY <1>0 DEF Goes, PollTypes, Where
<1>4. \A u \in Actor : where'[u] = "out" /\ where[u] # "got"
  BY <1>0, <1>1, <1>2, <1>3 DEF Inside
<1>5. refs' = 0
  BY <1>0, <1>1
<1> QED  BY <1>0, <1>3, <1>4, <1>5, DeletePortKeeps

(* ... and the driver. *)
LEMMA CompleteKeeps == ASSUME PollIInv, NEW r \in Reg, Complete(r) PROVE PollIInv'
<1>0. PollTypes /\ ThreadsKept /\ PacketsApart /\ (\A q \in Packeted : req[q] = "none")
      /\ req[r] # "none" /\ req' = [req EXCEPT ![r] = "none"] /\ UNCHANGED <<port, where, taken, life, refs>>
  BY PollFacts DEF Complete, outside
<1>1. r \notin Packeted
  BY <1>0
<1>2. req' \in [Reg -> {"none", "wait", "cancel"}] /\ req'[r] = "none" /\ \A q \in Reg : q # r => req'[q] = req[q]
  BY <1>0 DEF PollTypes
<1>3. CASE ~Up
  <2>1. cq' = cq
    BY <1>3 DEF Complete, Up
  <2>2. Packeted' = Packeted
    BY <1>0, <2>1 DEF Packeted
  <2>3. PollTypes'
    BY <1>0, <1>2, <2>1 DEF PollTypes
  <2>4. PortKept'
    <3>1. \A q \in Reg : q \in Outstanding' => q \in Outstanding
      BY <1>0, <1>2, <2>2 DEF Outstanding
    <3>2. ~Up' /\ Polling' = Polling
      BY <1>0, <1>3 DEF Up, Polling
    <3> QED  BY <1>0, <1>2, <3>1, <3>2, PortStays
  <2>5. PacketsOnce'
    <3>1. PacketsApart'
      BY <1>0, <2>1 DEF PacketsApart
    <3>2. \A q \in Packeted' : req'[q] = "none"
      BY <1>0, <2>2 DEF PollTypes
    <3> QED  BY <3>1, <3>2 DEF PacketsOnce
  <2>6. ThreadsKept'
    BY <1>0, <1>2, <2>1 DEF ThreadsKept, Up
  <2> QED  BY <2>3, <2>4, <2>5, <2>6 DEF PollIInv
<1>4. CASE Up
  <2>1. PICK c \in Packet : c.r = r /\ cq' = Append(cq, c)
    <3> DEFINE ready == level[port.st[r].sock] \cap (port.st[r].mon \cup {"closed"})
               c(e) == [r |-> r, events |-> e]
    <3>1. cq' = Append(cq, c({})) \/ cq' = Append(cq, c(ready))
      BY <1>4 DEF Complete, Up
    <3>2. port.st[r].mon \subseteq Event
      <4>1. port.st[r] \in SockState
        BY <1>0, PortParts DEF PollTypes
      <4> QED  BY <4>1 DEF SockState
    <3>3. ready \in SUBSET (Event \cup {"closed"}) /\ {} \in SUBSET (Event \cup {"closed"})
      BY <3>2
    <3> HIDE DEF ready
    <3>4. c({}) \in Packet /\ c(ready) \in Packet /\ c({}).r = r /\ c(ready).r = r
      BY <3>3 DEF Packet
    <3> HIDE DEF c
    <3> QED  BY <3>1, <3>4
  <2>2. cq \in Seq(Packet)
    BY <1>0 DEF PollTypes
  <2>3. PICK l \in Nat : l = Len(cq)
    BY <2>2
  <2>4. /\ cq' \in Seq(Packet) /\ Len(cq') = l + 1
        /\ \A k \in 1 .. l + 1 : cq'[k] = IF k = l + 1 THEN c ELSE cq[k]
    BY <2>1, <2>2, <2>3, AppendIs
  <2>5. \A k \in 1 .. l : cq'[k] = cq[k] /\ k \in 1 .. l + 1
    BY <2>4
  <2>6. cq'[l + 1] = c /\ l + 1 \in 1 .. l + 1 /\ \A k \in 1 .. l + 1 : k = l + 1 \/ k \in 1 .. l
    BY <2>4
  <2>7. Packeted' = Packeted \cup {r}
    <3> DEFINE held == UNION {{taken[t][k].r : k \in 1 .. Len(taken[t])} : t \in Waiter}
               new == {cq'[k].r : k \in 1 .. l + 1}
               old == {cq[k].r : k \in 1 .. l}
    <3>1. Packeted = old \cup held /\ Packeted' = new \cup held
      BY <1>0, <2>3, <2>4 DEF Packeted
    <3>2. new = old \cup {r}
      <4>1. ASSUME NEW x \in new PROVE x \in old \cup {r}
        <5>1. PICK k \in 1 .. l + 1 : x = cq'[k].r
          OBVIOUS
        <5> QED  BY <2>1, <2>5, <2>6, <5>1
      <4>2. ASSUME NEW x \in old PROVE x \in new
        <5>1. PICK k \in 1 .. l : x = cq[k].r
          OBVIOUS
        <5> QED  BY <2>5, <5>1
      <4>3. r \in new
        BY <2>1, <2>6
      <4> HIDE DEF old, new
      <4> QED  BY <4>1, <4>2, <4>3
    <3> HIDE DEF held, new, old
    <3> QED  BY <3>1, <3>2
  <2>8. PollTypes'
    BY <1>0, <1>2, <2>4 DEF PollTypes
  <2>9. PortKept'
    <3>1. \A q \in Reg : (q \in Outstanding' <=> q \in Outstanding)
      BY <1>0, <1>2, <2>7, <1>4 DEF Outstanding, Up
    <3>2. Up' = Up /\ Polling' = Polling
      BY <1>0 DEF Up, Polling
    <3> QED  BY <1>0, <1>2, <1>4, <3>1, <3>2, PortStays
  <2>10. PacketsOnce'
    <3>1. \A k \in 1 .. l : cq[k].r # r
      BY <1>1, <2>3 DEF Packeted
    <3>2. \A t \in Waiter : \A k \in 1 .. Len(taken[t]) : taken[t][k].r # r
      BY <1>1 DEF Packeted
    <3>3. \A j, k \in 1 .. l + 1 : cq'[j].r = cq'[k].r => j = k
      <4>1. \A j, k \in 1 .. l : cq[j].r = cq[k].r => j = k
        BY <1>0, <2>3 DEF PacketsApart
      <4> QED  BY <2>1, <2>5, <2>6, <3>1, <4>1
    <3>4. \A j \in 1 .. l + 1, t \in Waiter : \A k \in 1 .. Len(taken[t]) : cq'[j].r # taken[t][k].r
      <4>1. \A j \in 1 .. l, t \in Waiter : \A k \in 1 .. Len(taken[t]) : cq[j].r # taken[t][k].r
        BY <1>0, <2>3 DEF PacketsApart
      <4>2. ASSUME NEW j \in 1 .. l + 1, NEW t \in Waiter, NEW k \in 1 .. Len(taken[t]) PROVE cq'[j].r # taken[t][k].r
        <5>1. CASE j = l + 1
          BY <2>1, <2>6, <3>2, <5>1, Zenon
        <5>2. CASE j \in 1 .. l
          BY <2>5, <4>1, <5>2, Zenon
        <5> QED  BY <2>6, <5>1, <5>2, Zenon
      <4> QED  BY <4>2, Zenon
    <3>5. \A t, u \in Waiter : \A j \in 1 .. Len(taken[t]), k \in 1 .. Len(taken[u]) :
            taken[t][j].r = taken[u][k].r => t = u /\ j = k
      BY <1>0 DEF PacketsApart
    <3>6. PacketsApart'
      BY <1>0, <2>4, <3>3, <3>4, <3>5 DEF PacketsApart
    <3>7. \A q \in Packeted' : req'[q] = "none"
      <4>1. Packeted \subseteq Reg
        BY <1>0, PacketedReg
      <4> QED  BY <1>0, <1>2, <2>7, <4>1
    <3> QED  BY <3>6, <3>7 DEF PacketsOnce
  <2>11. ThreadsKept'
    BY <1>0, <1>2, <1>4 DEF ThreadsKept, Up
  <2> QED  BY <2>8, <2>9, <2>10, <2>11 DEF PollIInv
<1> QED  BY <1>3, <1>4

(* What the invariant does not mention *)
LEMMA StaysKept == ASSUME PollIInv, UNCHANGED <<port, req, cq, where, taken, life, refs>> PROVE PollIInv'
<1>1. Up' = Up /\ Polling' = Polling
  BY DEF Up, Polling
<1>2. PortKept' /\ PacketsOnce'
  BY <1>1, PacketsStay
<1>3. PollTypes'
  BY DEF PollIInv, PollTypes
<1>4. ThreadsKept'
  BY <1>1 DEF PollIInv, ThreadsKept
<1> QED  BY <1>2, <1>3, <1>4 DEF PollIInv

(* A new port has nothing. *)
LEMMA PollStarts == ASSUME PollInit PROVE PollIInv
<1>0. /\ \A r \in Reg : port.st[r] = NoReg /\ req[r] = "none"
      /\ port.upd = <<>> /\ port.groups = <<>> /\ port.sent = {} /\ port.stop = {}
      /\ cq = <<>> /\ (\A t \in Actor : where[t] = "out" /\ taken[t] = <<>>) /\ life = "open" /\ refs = 0
  BY DEF PollInit
<1>1. PollTypes
  <2>1. NoReg \in SockState
    BY DEF NoReg, SockState
  <2>2. <<>> \in Seq(Reg) /\ <<>> \in Seq(Group) /\ <<>> \in Seq(Packet)
    OBVIOUS
  <2>3. port \in Port
    <3> HIDE DEF SockState, NoReg, Group
    <3>1. [r \in Reg |-> NoReg] \in [Reg -> SockState]
      BY <2>1
    <3> QED  BY <2>2, <3>1 DEF PollInit, Port, Queues, Lists
  <2> QED  BY <2>2, <2>3 DEF PollInit, PollTypes, Where
<1>2. Len(cq) = 0 /\ (\A t \in Waiter : Len(taken[t]) = 0) /\ 1 .. 0 = {}
  BY <1>0 DEF Actor
<1>3. Packeted = {} /\ Outstanding = {} /\ Waits = {} /\ Polling = {} /\ PacketsApart
  BY <1>0, <1>2 DEF Packeted, Outstanding, Waits, Polling, PacketsApart, Actor
<1>4. PortFit(port)
  <2>1. RegsFit(port.st)
    BY <1>0 DEF RegsFit, NoReg
  <2>2. GroupsFit(port.groups, Count(port.st))
    <3>1. ASSUME NEW i \in Id PROVE Count(port.st)[i] = 0
      <4>1. Members(port.st, i) = {}
        BY <1>0 DEF Members, NoReg, Id
      <4> QED  BY <4>1, CountType, FS_EmptySet
    <3>2. Len(port.groups) = 0
      BY <1>0
    <3> QED  BY <3>1, <3>2 DEF GroupsFit, Fits
  <2>3. Range(port.upd) = {} /\ Distinct(port.upd)
    BY <1>0 DEF Range, Distinct
  <2> QED  BY <1>1, <2>1, <2>2, <2>3 DEF PortFit, PollTypes
<1>5. ASSUME NEW r \in Reg PROVE LookedAfter(port, r) /\ Linked(port, r, {}, {}, Up)
  <2>1. port.st[r].mem = "free" /\ port.st[r].poll = "idle"
    BY <1>0 DEF NoReg
  <2> QED  BY <1>0, <2>1 DEF LookedAfter, Linked
<1>6. Sound(port, Outstanding, Waits, Up)
  <2>1. Sound(port, {}, {}, Up)
    BY <1>4, <1>5 DEF Sound
  <2> QED  BY <1>3, <2>1
<1>7. PortKept /\ PacketsOnce
  BY <1>0, <1>3, <1>6 DEF PortKept, PacketsOnce
<1>8. ThreadsKept
  <2>1. Inside = {}
    BY <1>0 DEF Inside
  <2>2. refs = Cardinality(Inside) + (IF life \in {"removed", "closed"} THEN 1 ELSE 0)
    BY <1>0, <2>1, FS_EmptySet
  <2> QED  BY <1>0, <2>2 DEF ThreadsKept, Inside, Up, Actor
<1> QED  BY <1>1, <1>7, <1>8 DEF PollIInv

-----------------------------------------------------------------------------
(* From the invariant, what PollInv says *)

(* The packets of an object: at most one *)
LEMMA PacketsCount ==
    ASSUME PollTypes, PacketsApart, NEW r \in Reg
    PROVE  /\ PacketsOf(r) # {} <=> r \in Packeted
           /\ PacketsOf(r) = {} \/ \E x : PacketsOf(r) = {x}
<1> DEFINE queued == {<<"queued", k>> : k \in Packets(cq, r)}
           held(t) == {<<"taken", t, k>> : k \in Packets(taken[t], r)}
<1>1. /\ \A k : k \in Packets(cq, r) <=> k \in 1 .. Len(cq) /\ cq[k].r = r
      /\ \A t \in Waiter : \A k : k \in Packets(taken[t], r) <=> k \in 1 .. Len(taken[t]) /\ taken[t][k].r = r
  <2>1. cq \in Seq(Packet) /\ \A t \in Waiter : taken[t] \in Seq(Packet)
    BY DEF PollTypes, Actor
  <2>2. DOMAIN cq = 1 .. Len(cq) /\ \A t \in Waiter : DOMAIN taken[t] = 1 .. Len(taken[t])
    BY <2>1
  <2> QED  BY <2>2 DEF Packets
<1>2. PacketsOf(r) = queued \cup UNION {held(t) : t \in Waiter}
  BY DEF PacketsOf
<1>3. \A x : x \in PacketsOf(r) <=> \/ \E k \in Packets(cq, r) : x = <<"queued", k>>
                                    \/ \E t \in Waiter : \E k \in Packets(taken[t], r) : x = <<"taken", t, k>>
  <2> DEFINE helds == {held(t) : t \in Waiter}
  <2>1. \A x : x \in queued <=> \E k \in Packets(cq, r) : x = <<"queued", k>>
    BY Zenon
  <2>2. ASSUME NEW x PROVE x \in UNION helds <=> \E t \in Waiter : x \in held(t)
    <3> HIDE DEF held
    <3> QED  OBVIOUS
  <2>3. \A x : \A t : x \in held(t) <=> \E k \in Packets(taken[t], r) : x = <<"taken", t, k>>
    BY Zenon
  <2> HIDE DEF queued, helds
  <2>4. \A x : x \in PacketsOf(r) <=> x \in queued \/ x \in UNION helds
    BY <1>2, Zenon DEF helds
  <2>5. \A x : x \in UNION helds <=> \E t \in Waiter : x \in held(t)
    BY <2>2
  <2> HIDE DEF held
  <2> QED  BY <2>1, <2>3, <2>4, <2>5
<1> HIDE DEF queued, held
<1>4. ASSUME NEW x \in PacketsOf(r), NEW y \in PacketsOf(r) PROVE x = y
  <2>1. CASE \E k \in Packets(cq, r) : x = <<"queued", k>>
    <3>1. PICK k \in Packets(cq, r) : x = <<"queued", k>>
      BY <2>1
    <3>2. CASE \E j \in Packets(cq, r) : y = <<"queued", j>>
      <4>1. PICK j \in Packets(cq, r) : y = <<"queued", j>>
        BY <3>2
      <4>2. j = k
        BY <1>1, <3>1, <4>1 DEF PacketsApart
      <4> QED  BY <3>1, <4>1, <4>2
    <3>3. CASE \E t \in Waiter : \E j \in Packets(taken[t], r) : y = <<"taken", t, j>>
      <4>1. PICK t \in Waiter : \E j \in Packets(taken[t], r) : y = <<"taken", t, j>>
        BY <3>3
      <4>2. PICK j \in Packets(taken[t], r) : y = <<"taken", t, j>>
        BY <4>1
      <4>3. k \in 1 .. Len(cq) /\ j \in 1 .. Len(taken[t]) /\ cq[k].r = taken[t][j].r
        BY <1>1, Zenon
      <4> QED  BY <4>3, Zenon DEF PacketsApart
    <3> QED  BY <1>3, <3>2, <3>3
  <2>2. CASE \E t \in Waiter : \E k \in Packets(taken[t], r) : x = <<"taken", t, k>>
    <3>1. PICK t \in Waiter : \E k \in Packets(taken[t], r) : x = <<"taken", t, k>>
      BY <2>2
    <3>2. PICK k \in Packets(taken[t], r) : x = <<"taken", t, k>>
      BY <3>1
    <3>3. CASE \E j \in Packets(cq, r) : y = <<"queued", j>>
      <4>1. PICK j \in Packets(cq, r) : y = <<"queued", j>>
        BY <3>3
      <4>2. j \in 1 .. Len(cq) /\ k \in 1 .. Len(taken[t]) /\ cq[j].r = taken[t][k].r
        BY <1>1, Zenon
      <4> QED  BY <4>2, Zenon DEF PacketsApart
    <3>4. CASE \E u \in Waiter : \E j \in Packets(taken[u], r) : y = <<"taken", u, j>>
      <4>1. PICK u \in Waiter : \E j \in Packets(taken[u], r) : y = <<"taken", u, j>>
        BY <3>4
      <4>2. PICK j \in Packets(taken[u], r) : y = <<"taken", u, j>>
        BY <4>1
      <4>3. t = u /\ j = k
        <5>1. k \in 1 .. Len(taken[t]) /\ j \in 1 .. Len(taken[u]) /\ taken[t][k].r = taken[u][j].r
          BY <1>1, Zenon
        <5> QED  BY <5>1, Zenon DEF PacketsApart
      <4> QED  BY <3>2, <4>2, <4>3
    <3> QED  BY <1>3, <3>3, <3>4
  <2> QED  BY <1>3, <2>1, <2>2
<1>5. PacketsOf(r) = {} \/ \E x : PacketsOf(r) = {x}
  BY <1>4
<1>6. PacketsOf(r) # {} => r \in Packeted
  <2>1. ASSUME NEW k \in Packets(cq, r) PROVE r \in Packeted
    BY <1>1, <2>1 DEF Packeted
  <2>2. ASSUME NEW t \in Waiter, NEW k \in Packets(taken[t], r) PROVE r \in Packeted
    <3>1. k \in 1 .. Len(taken[t]) /\ r = taken[t][k].r
      BY <1>1
    <3> QED  BY <3>1 DEF Packeted
  <2> QED  BY <1>3, <2>1, <2>2
<1>7. r \in Packeted => PacketsOf(r) # {}
  <2> SUFFICES ASSUME r \in Packeted PROVE PacketsOf(r) # {}
    OBVIOUS
  <2>1. CASE \E k \in 1 .. Len(cq) : r = cq[k].r
    BY <1>1, <1>3, <2>1
  <2>2. CASE \E t \in Waiter : \E k \in 1 .. Len(taken[t]) : r = taken[t][k].r
    <3>1. PICK t \in Waiter : \E k \in 1 .. Len(taken[t]) : r = taken[t][k].r
      BY <2>2
    <3>2. PICK k \in 1 .. Len(taken[t]) : r = taken[t][k].r
      BY <3>1
    <3>3. k \in Packets(taken[t], r)
      BY <1>1, <3>2
    <3>4. <<"taken", t, k>> \in PacketsOf(r)
      BY <1>3, <3>3, Zenon
    <3> QED  BY <3>4
  <2> QED  BY <2>1, <2>2 DEF Packeted
<1> QED  BY <1>5, <1>6, <1>7

(* An object whose poll_status is not idle has a packet or a request, not both. *)
LEMMA OwnedImplied == ASSUME PollIInv PROVE RequestsOwned
<1> SUFFICES ASSUME NEW r \in Reg
             PROVE  LET n == Cardinality(PacketsOf(r)) + (IF req[r] = "none" THEN 0 ELSE 1)
                    IN  /\ Up => n = IF port.st[r].poll = "idle" THEN 0 ELSE 1
                        /\ life # "gone" /\ n # 0 => port.st[r].mem # "free"
                        /\ life = "gone" => PacketsOf(r) = {} /\ req[r] # "wait"
  BY DEF RequestsOwned, Up
<1>0. PollTypes /\ PacketsApart /\ (\A q \in Packeted : req[q] = "none") /\ port.sent = {} /\ ThreadsKept
      /\ Sound(port, Outstanding, Waits, Up) /\ (life # "gone" => Outstanding = {q \in Reg : req[q] # "none"} \cup Packeted)
  BY PollFacts
<1>1. Linked(port, r, Outstanding, Waits, Up) /\ PortFit(port)
  BY <1>0 DEF Sound
<1>2. (r \in Outstanding => port.st[r].poll # "idle") /\ (Up /\ port.st[r].poll # "idle" => r \in Outstanding)
  BY <1>0, <1>1 DEF Linked
<1>3. port.st[r].poll # "idle" => port.st[r].mem # "free"
  BY <1>1 DEF PortFit, RegsFit, NoReg
<1>4. (PacketsOf(r) # {} <=> r \in Packeted) /\ (PacketsOf(r) = {} \/ \E x : PacketsOf(r) = {x})
  BY <1>0, PacketsCount
<1>5. Cardinality(PacketsOf(r)) = IF r \in Packeted THEN 1 ELSE 0
  BY <1>4, FS_EmptySet, FS_Singleton
<1>6. r \in Packeted => req[r] = "none"
  BY <1>0
<1>7. CASE life # "gone"
  <2>1. r \in Outstanding <=> req[r] # "none" \/ r \in Packeted
    BY <1>0, <1>7
  <2> QED  BY <1>2, <1>3, <1>5, <1>6, <1>7, <2>1
<1>8. CASE life = "gone"
  <2>1. port.st[r] = NoReg /\ req[r] # "wait" /\ ~Up
    BY <1>0, <1>8 DEF ThreadsKept, Up
  <2>2. r \notin Outstanding
    BY <1>2, <2>1 DEF NoReg
  <2>3. r \notin Packeted
    BY <2>2 DEF Outstanding
  <2> QED  BY <1>4, <1>8, <2>1, <2>3
<1> QED  BY <1>7, <1>8

(* Fits says what GroupsExact does, with the members counted. *)
LEMMA GroupsImplied == ASSUME PollIInv PROVE GroupsExact
<1> DEFINE g == port.groups
           n == Count(port.st)
<1>0. port \in Port /\ PortFit(port)
  BY PollFacts, Zenon DEF PollTypes, Sound
<1>1. g \in Seq(Group) /\ Fits(g, Len(g), n) /\ RegsFit(port.st) /\ \A r \in Range(port.upd) : port.st[r].mem = "live"
  BY <1>0, PortParts DEF PortFit, GroupsFit
<1>2. PICK l \in Nat : l = Len(g) /\ DOMAIN g = 1 .. l
  BY <1>1
<1>3. \A k \in 1 .. l : g[k] \in Group /\ g[k].id \in Id
  <2>1. \A e \in Group : e.id \in Id
    BY DEF Group
  <2> HIDE DEF g
  <2> QED  BY <1>1, <1>2, <2>1
<1>4. ASSUME NEW k \in 1 .. l PROVE g[k].size = Cardinality({r \in Reg : port.st[r].group = g[k].id})
  <2>1. g[k].size = n[g[k].id]
    BY <1>1, <1>2 DEF Fits
  <2>2. n[g[k].id] = Cardinality(Members(port.st, g[k].id))
    BY <1>3, CountType
  <2> QED  BY <2>1, <2>2 DEF Members
<1>5. ASSUME NEW k \in 1 .. l, k > 1, g[k].size = GroupSize PROVE g[k - 1].size = GroupSize
  <2>1. k - 1 \in 1 .. k - 1
    BY <1>5
  <2> QED  BY <1>1, <1>2, <1>5, <2>1 DEF Fits
<1>6. ASSUME NEW s \in Sock PROVE Cardinality(Find(s)) <= 1
  <2>1. \A q, r \in Find(s) : q = r
    BY <1>1 DEF Find, RegsFit
  <2>2. Find(s) = {} \/ \E x : Find(s) = {x}
    BY <2>1
  <2>3. Cardinality(Find(s)) = 0 \/ Cardinality(Find(s)) = 1
    BY <2>2, FS_EmptySet, FS_Singleton, Zenon
  <2> QED  BY <2>3
<1> QED  BY <1>1, <1>2, <1>4, <1>5, <1>6 DEF GroupsExact

(* The queue is empty while a thread waits: who is pending watches everything. *)
LEMMA CoveredImplied == ASSUME PollIInv PROVE InterestCovered
<1>0. /\ PollTypes /\ PacketsApart /\ PortKept /\ Sound(port, Outstanding, Waits, Up) /\ port.sent = {} /\ port.stop = {}
      /\ life # "gone" => Outstanding = {r \in Reg : req[r] # "none"} \cup Packeted
  BY PollFacts
<1>1. ASSUME NEW r \in Reg PROVE LookedAfter(port, r) /\ Linked(port, r, Outstanding, Waits, Up)
  BY <1>0 DEF Sound
<1>2. ASSUME NEW r \in Reg, port.st[r].mem = "live", port.st[r].poll = "idle" PROVE r \in Range(port.upd)
  BY <1>1, <1>2 DEF LookedAfter
<1>3. ASSUME Polling # {}, Up, NEW r \in Reg, port.st[r].mem = "live"
      PROVE  (req[r] = "wait" /\ port.st[r].want \subseteq port.st[r].mon) \/ req[r] = "cancel" \/ PacketsOf(r) # {}
  <2>1. Range(port.upd) = {}
    BY <1>0, <1>3 DEF PortKept, Range
  <2>2. port.st[r].poll # "idle" /\ r \in Outstanding /\ life # "gone"
    BY <1>0, <1>1, <1>2, <1>3, <2>1 DEF Linked, Up
  <2>3. CASE r \in Packeted
    BY <1>0, <2>3, PacketsCount
  <2>4. CASE req[r] = "cancel"
    BY <2>4
  <2>5. CASE req[r] = "wait"
    <3>1. r \in Waits
      BY <2>5 DEF Waits
    <3>2. port.st[r].poll = "pending"
      BY <1>0, <1>1, <3>1 DEF Linked
    <3>3. port.st[r].want \subseteq port.st[r].mon
      BY <1>1, <1>3, <2>1, <3>2 DEF LookedAfter
    <3> QED  BY <2>5, <3>3
  <2>6. req[r] \in {"none", "wait", "cancel"}
    BY <1>0 DEF PollTypes
  <2> QED  BY <1>0, <2>2, <2>3, <2>4, <2>5, <2>6
<1> QED  BY <1>2, <1>3 DEF InterestCovered, Up

(* A port that is gone has no members left to count. *)
LEMMA OutlivesImplied == ASSUME PollIInv PROVE PortOutlivesCalls
<1>0. PortFit(port) /\ ThreadsKept /\ port \in Port
  BY PollFacts, Zenon DEF Sound, PollTypes
<1>1. ASSUME life = "gone", NEW k \in DOMAIN port.groups PROVE port.groups[k].size = 0
  <2> DEFINE g == port.groups
  <2>1. g \in Seq(Group) /\ Fits(g, Len(g), Count(port.st)) /\ k \in 1 .. Len(g)
    BY <1>0, <1>1, PortParts DEF PortFit, GroupsFit
  <2>2. g[k].id \in Id
    <3>1. \A e \in Group : e.id \in Id
      BY DEF Group
    <3> HIDE DEF g
    <3> QED  BY <2>1, <3>1
  <2>3. Members(port.st, g[k].id) = {}
    BY <1>0, <1>1, <2>2 DEF ThreadsKept, Members, NoReg, Id
  <2>4. Count(port.st)[g[k].id] = 0
    BY <2>2, <2>3, CountType, FS_EmptySet
  <2> QED  BY <2>1, <2>4 DEF Fits
<1> QED  BY <1>0, <1>1 DEF ThreadsKept, PortOutlivesCalls

(* All of it *)
LEMMA PollImplied == ASSUME PollIInv PROVE PollInv
<1>1. PollTypeOK
  <2>1. PollTypes
    BY DEF PollIInv
  <2>2. \A r \in Reg : port.st[r] \in SockState
    BY <2>1, PortParts DEF PollTypes
  <2> QED  BY <2>1, <2>2 DEF PollTypes, PollTypeOK, SockState
<1> QED  BY <1>1, OwnedImplied, GroupsImplied, CoveredImplied, OutlivesImplied DEF PollInv

-----------------------------------------------------------------------------
(***************************************************************************)
(* Until the port is deleted a sock_state is freed when its request has    *)
(* come back and not before, and what is left under way then has been      *)
(* asked to end; the poll groups count their sockets, what epoll_ctl wants *)
(* is watched while a thread waits, and nobody is inside a port that is    *)
(* gone.                                                                   *)
(***************************************************************************)
THEOREM PollHolds == PollSpec => []PollInv
<1>1. PollInit => PollIInv
  BY PollStarts
<1>2. PollIInv /\ [PollNext]_pollVars => PollIInv'
  <2> SUFFICES ASSUME PollIInv, [PollNext]_pollVars PROVE PollIInv'
    OBVIOUS
  <2>1. ASSUME NEW t \in Waiter, WaitStep(t) PROVE PollIInv'
    <3>1. t \in Actor
      BY DEF Actor
    <3> QED  BY <2>1, <3>1, EnterKeeps, UnrefKeeps, WaitBeginKeeps, DequeueKeeps, WaitFailsKeeps, FeedKeeps DEF WaitStep
  <2>2. ASSUME NEW t \in Caller, Enter(t) \/ Ctl(t) \/ Unref(t) PROVE PollIInv'
    <3>1. t \in Actor
      BY DEF Actor
    <3> QED  BY <2>2, <3>1, EnterKeeps, CtlKeeps, UnrefKeeps
  <2>3. ASSUME NEW t \in Actor, Rendezvous(t) PROVE PollIInv'
    BY <2>3, RendezvousKeeps
  <2>4. CASE CloseBegin \/ CloseIocp \/ Destroy
    BY <2>4, CloseBeginKeeps, CloseIocpKeeps, DestroyKeeps
  <2>5. ASSUME NEW r \in Reg, Complete(r) PROVE PollIInv'
    BY <2>5, CompleteKeeps
  <2>6. ASSUME NEW s \in Sock, Ready(s) \/ CloseSocket(s) PROVE PollIInv'
    <3>1. UNCHANGED <<port, req, cq, where, taken, life, refs>>
      BY <2>6 DEF Ready, CloseSocket
    <3> QED  BY <3>1, StaysKept
  <2>7. CASE UNCHANGED pollVars
    <3>1. UNCHANGED <<port, req, cq, where, taken, life, refs>>
      BY <2>7 DEF pollVars
    <3> QED  BY <3>1, StaysKept
  <2> QED  BY <2>1, <2>2, <2>3, <2>4, <2>5, <2>6, <2>7, Zenon DEF PollNext
<1>3. PollIInv => PollInv
  BY PollImplied
<1> QED  BY <1>1, <1>2, <1>3, PTL DEF PollSpec
=============================================================================
