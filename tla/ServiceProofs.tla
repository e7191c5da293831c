----------------------------- MODULE ServiceProofs -----------------------------
(***************************************************************************)
(* Proofs about the services: CriticalSection for every set of coroutines  *)
(* and every depth of calls inside each other, then Stm for every number   *)
(* of readers, updates and reads, and SharedData for every number of       *)
(* clients, objects, queries and exits.                                    *)
(***************************************************************************)
EXTENDS CriticalSection, Stm, SharedData, SequenceTheorems, FiniteSetTheorems, FunctionTheorems, TLAPS

(* Nobody is inside or waits before the first call. *)
LEMMA QueueInvInit == Init => QueueInv
BY NoThreadIsNone DEF Init, QueueInv, TypeOK, Owned, Waiting, Queued

(* Who is first in the queue of a section that is given up. *)
LEMMA HeadWaits ==
    ASSUME QueueInv, thread_queue # <<>>
    PROVE  /\ Head(thread_queue) \in Coroutine /\ pc[Head(thread_queue)] = "waiting"
           /\ Tail(thread_queue) \in Seq(Coroutine)
           /\ Len(Tail(thread_queue)) = Len(thread_queue) - 1
           /\ \A i \in 1 .. Len(Tail(thread_queue)) : Tail(thread_queue)[i] = thread_queue[i + 1]
           /\ Len(thread_queue) \in Nat \ {0}
           /\ Head(thread_queue) = thread_queue[1]
<1>1. thread_queue \in Seq(Coroutine) /\ Len(thread_queue) \in Nat \ {0}
  BY DEF QueueInv, TypeOK
<1>2. Head(thread_queue) = thread_queue[1] /\ thread_queue[1] \in Queued
  BY <1>1 DEF Queued
<1> QED  BY <1>1, <1>2 DEF QueueInv, Waiting

(* The section is entered, or entered again. *)
LEMMA EnterKeeps == ASSUME QueueInv, NEW t \in Coroutine, Enter(t) PROVE QueueInv'
<1> USE DEF QueueInv
<1>1. TypeOK'
  BY DEF Enter, Begin, TypeOK
<1>2. Owned'
  BY NoThreadIsNone DEF Enter, Begin, TypeOK, Owned
<1>3. pc[t] \in {"out", "in"} /\ pc'[t] = "in" /\ \A u \in Coroutine \ {t} : pc'[u] = pc[u]
  BY DEF Enter, Begin, TypeOK
<1>4. Waiting'
  BY <1>3 DEF Enter, Waiting, Queued
<1> QED  BY <1>1, <1>2, <1>4

(* A coroutine goes to the end of the queue. *)
LEMMA WaitKeeps == ASSUME QueueInv, NEW t \in Coroutine, Wait(t) PROVE QueueInv'
<1> USE DEF QueueInv
<1>1. TypeOK'
  BY DEF Wait, TypeOK
<1>2. Owned'
  BY NoThreadIsNone DEF Wait, TypeOK, Owned
<1>3. t \notin Queued
  BY DEF Wait, Waiting
<1>4. /\ Len(thread_queue) \in Nat /\ Len(thread_queue') = Len(thread_queue) + 1
      /\ \A i \in 1 .. Len(thread_queue) : thread_queue'[i] = thread_queue[i]
      /\ thread_queue'[Len(thread_queue) + 1] = t
  BY DEF Wait, TypeOK
<1>5. Queued' = Queued \cup {t}
  BY <1>4 DEF Queued
<1>6. {u \in Coroutine : pc'[u] = "waiting"} = {u \in Coroutine : pc[u] = "waiting"} \cup {t}
  BY DEF Wait, TypeOK
<1>7. \A i, j \in 1 .. Len(thread_queue') : thread_queue'[i] = thread_queue'[j] => i = j
  BY <1>3, <1>4 DEF Queued, Waiting
<1> QED  BY <1>1, <1>2, <1>5, <1>6, <1>7 DEF Waiting

(* The coroutine that was woken takes what is its own already. *)
LEMMA ResumeKeeps == ASSUME QueueInv, NEW t \in Coroutine, Resume(t) PROVE QueueInv'
<1> USE DEF QueueInv
<1>1. TypeOK'
  BY DEF Resume, Begin, TypeOK
<1>2. Owned'
  BY NoThreadIsNone DEF Resume, Begin, TypeOK, Owned
<1>3. pc[t] = "woken" /\ pc'[t] = "in" /\ \A u \in Coroutine \ {t} : pc'[u] = pc[u]
  BY DEF Resume, Begin, TypeOK
<1>4. Waiting'
  BY <1>3 DEF Resume, Waiting, Queued
<1> QED  BY <1>1, <1>2, <1>4

(* The outermost call ends with somebody in the queue. *)
LEMMA HandOver ==
    ASSUME QueueInv, NEW t \in Coroutine, Leave(t), ref = 1, thread_queue # <<>>
    PROVE  QueueInv'
<1> USE DEF QueueInv
<1> DEFINE h == Head(thread_queue)
<1>1. /\ ref' = 0 /\ current_thread' = h /\ thread_queue' = Tail(thread_queue)
      /\ pc' = [pc EXCEPT ![t] = "out", ![h] = "woken"]
      /\ depth' = [depth EXCEPT ![t] = @ - 1] /\ pc[t] = "in"
  BY DEF Leave, Last
<1>2. /\ h \in Coroutine /\ pc[h] = "waiting" /\ h # t
      /\ current_thread = t /\ depth[t] = 1
  BY <1>1, HeadWaits DEF Owned
<1>3. TypeOK'
  BY <1>1, <1>2, HeadWaits DEF TypeOK
<1>4. Owned'
  BY <1>1, <1>2, NoThreadIsNone DEF Owned, TypeOK
<1>5. /\ Len(thread_queue') = Len(thread_queue) - 1 /\ Len(thread_queue) \in Nat \ {0}
      /\ \A i \in 1 .. Len(thread_queue') : thread_queue'[i] = thread_queue[i + 1]
      /\ h = thread_queue[1]
  BY <1>1, HeadWaits
<1>6. Queued' = Queued \ {h}
  <2>1. Queued' \subseteq Queued \ {h}
    BY <1>5 DEF Queued, Waiting
  <2>2. ASSUME NEW u \in Queued, u # h PROVE u \in Queued'
    <3>1. PICK i \in 1 .. Len(thread_queue) : u = thread_queue[i]
      BY DEF Queued
    <3>2. i # 1 /\ i - 1 \in 1 .. Len(thread_queue')
      BY <1>5, <2>2, <3>1
    <3>3. u = thread_queue'[i - 1]
      BY <1>5, <3>1, <3>2
    <3> QED  BY <3>2, <3>3 DEF Queued
  <2> QED  BY <2>1, <2>2
<1>7. {u \in Coroutine : pc'[u] = "waiting"} = {u \in Coroutine : pc[u] = "waiting"} \ {h}
  BY <1>1, <1>2 DEF TypeOK
<1>8. \A i, j \in 1 .. Len(thread_queue') : thread_queue'[i] = thread_queue'[j] => i = j
  BY <1>5 DEF Waiting
<1> QED  BY <1>3, <1>4, <1>6, <1>7, <1>8 DEF Waiting

(* A call ends, the outermost one or one inside of it. *)
LEMMA LeaveKeeps == ASSUME QueueInv, NEW t \in Coroutine, Leave(t) PROVE QueueInv'
<1> USE DEF QueueInv
<1>1. CASE ref = 1 /\ thread_queue # <<>>
  BY <1>1, HandOver
<1>2. CASE ref = 1 /\ thread_queue = <<>>
  <2>1. /\ ref' = 0 /\ current_thread' = NoThread /\ UNCHANGED thread_queue /\ pc[t] = "in"
        /\ pc' = [pc EXCEPT ![t] = "out"] /\ depth' = [depth EXCEPT ![t] = @ - 1]
    BY <1>2 DEF Leave, Last
  <2>2. current_thread = t /\ depth[t] = 1
    BY <1>2, <2>1 DEF Owned
  <2>3. TypeOK'
    BY <2>1, <2>2 DEF TypeOK
  <2>4. Owned'
    BY <1>2, <2>1, <2>2, NoThreadIsNone DEF Owned, TypeOK
  <2>5. Waiting'
    BY <2>1 DEF Waiting, Queued, TypeOK
  <2> QED  BY <2>3, <2>4, <2>5
<1>3. CASE ref # 1
  <2>1. /\ ref' = ref - 1 /\ UNCHANGED <<current_thread, thread_queue, pc>>
        /\ pc[t] = "in" /\ depth' = [depth EXCEPT ![t] = @ - 1]
    BY <1>3 DEF Leave
  <2>2. current_thread = t /\ depth[t] = ref /\ ref \in Nat /\ ref > 1
    BY <1>3, <2>1 DEF Owned, TypeOK
  <2>3. TypeOK'
    BY <2>1, <2>2 DEF TypeOK
  <2>4. Owned'
    BY <2>1, <2>2, NoThreadIsNone DEF Owned, TypeOK
  <2>5. Waiting'
    BY <2>1 DEF Waiting, Queued
  <2> QED  BY <2>3, <2>4, <2>5
<1> QED  BY <1>1, <1>2, <1>3

(* Every step keeps the owner and the queue in accord. *)
LEMMA QueueInvStep == QueueInv /\ [Next]_vars => QueueInv'
<1> SUFFICES ASSUME QueueInv, [Next]_vars PROVE QueueInv'
  OBVIOUS
<1>1. CASE UNCHANGED vars
  BY <1>1 DEF vars, QueueInv, TypeOK, Owned, Waiting, Queued
<1>2. CASE Next
  <2> PICK t \in Coroutine : Enter(t) \/ Wait(t) \/ Resume(t) \/ Leave(t)
    BY <1>2 DEF Next
  <2> QED  BY EnterKeeps, WaitKeeps, ResumeKeeps, LeaveKeeps
<1> QED  BY <1>1, <1>2

(* What the section promises follows from its owner and its queue. *)
LEMMA QueueInvImplies == QueueInv => SectionInv
<1> SUFFICES ASSUME QueueInv PROVE SectionInv
  OBVIOUS
<1> USE DEF QueueInv
<1>1. \A t, u \in Coroutine : depth[t] > 0 /\ depth[u] > 0 => t = u
  BY DEF TypeOK, Owned
<1>2. \A t \in Coroutine : pc[t] = "woken" => ref = 0 /\ current_thread = t
  BY DEF Owned
<1>3. ASSUME NEW t \in Coroutine, pc[t] = "waiting"
      PROVE  t \in Queued /\ \E u \in Coroutine : u = current_thread /\ pc[u] \in {"in", "woken"}
  <2>1. t \in Queued
    BY <1>3 DEF Waiting
  <2>2. thread_queue # <<>>
    BY <2>1 DEF Queued
  <2>3. current_thread \in Coroutine
    BY <2>2 DEF TypeOK, Owned
  <2> QED  BY <2>1, <2>3 DEF Owned, TypeOK
<1> QED  BY <1>1, <1>2, <1>3 DEF SectionInv

(***************************************************************************)
(* skynet.queue (queue.lua:13-34) excludes: for any number of coroutines   *)
(* and calls inside each other, one coroutine at most is inside, the       *)
(* assertion after skynet.wait holds, and nobody waits for nothing.        *)
(***************************************************************************)
THEOREM SectionHolds == Spec => []SectionInv
<1>1. Spec => []QueueInv
  BY QueueInvInit, QueueInvStep, PTL DEF Spec
<1> QED  BY <1>1, QueueInvImplies, PTL

-----------------------------------------------------------------------------
(***************************************************************************)
(* lua-stm.c: the parts of StmInv that are inductive together              *)
(***************************************************************************)
Places == {"idle", "grab", "grabbing", "grabbed", "update", "swap", "updated", "delete", "deleting", "gone",
           "copy", "copying", "copied", "compare", "release", "releasing", "left", "drop"}
(* Inside stm_copy or lread, and from stm_releasereader on *)
Reading == {"copy", "copying", "copied", "compare"}
Leaving == {"release", "releasing", "left", "drop", "gone"}

(* What the fields of the object, of its copies and of the boxes hold *)
StmTypeOK ==
    /\ freed \in BOOLEAN /\ reference \in Int /\ copy \in Copy \cup {Nil}
    /\ refs \in [Copy -> Int] /\ dead \subseteq Copy
    /\ place \in [Service -> Places] /\ tmp \in [Service -> Copy \cup {Nil}]
    /\ box \in [Reader -> {"none", "promised", "sent", "open", "gone"}]
    /\ last \in [Reader -> Copy \cup {Nil}]

(* A reader is in stm.c only with an open box, or on its way out. *)
Boxes ==
    /\ place[Writer] \notin Reading \cup {"release", "releasing", "left", "drop"}
    /\ \A r \in Reader : /\ place[r] \in {"idle"} \cup Reading \cup Leaving
                         /\ place[r] \in Reading => box[r] = "open"
                         /\ place[r] \in Leaving <=> box[r] = "gone"
                         /\ box[r] = "promised" => place[Writer] = "grabbed"

(* Who has a copy at hand, and how long the object has one *)
Hands ==
    /\ copy = Nil <=> place[Writer] = "gone"
    /\ tmp[Writer] # Nil <=> place[Writer] \in {"update", "swap", "updated"}
    /\ \A r \in Reader : tmp[r] # Nil => place[r] \in {"copied", "compare"}

(* The count of the object, which is freed when nobody owns it *)
ObjectInv == reference = Cardinality(Owners) /\ (freed <=> Owners = {})

(* The count of a copy, and of one that is not made yet *)
Exact(c) == IF refs[c] = -1 THEN Holds(c) = 0 /\ c \notin dead
            ELSE refs[c] = Holds(c) /\ (c \in dead <=> Holds(c) = 0)

CopiesInv == \A c \in Copy : Exact(c)

(* The inductive invariant *)
ObjectsInv == StmTypeOK /\ Boxes /\ Hands /\ ObjectInv /\ CopiesInv /\ fault \subseteq {"left"}

(* 1 if a and b are the same, to be added up *)
Same(a, b) == IF a = b THEN 1 ELSE 0

(* Those of S that have c *)
Having(S, f, c) == {x \in S : f[x] = c}

(* g is f, but for k. *)
Replaces(S, f, k, v, g) == \A x \in S : g[x] = IF x = k THEN v ELSE f[x]

(* How many have c, when one of them takes another value. *)
LEMMA HavingStep ==
    ASSUME NEW S, IsFiniteSet(S), NEW f, NEW k \in S, NEW v, NEW g, Replaces(S, f, k, v, g), NEW c
    PROVE  /\ Cardinality(Having(S, f, c)) \in Nat /\ Cardinality(Having(S, g, c)) \in Nat
           /\ Cardinality(Having(S, g, c)) + Same(f[k], c) = Cardinality(Having(S, f, c)) + Same(v, c)
<1> DEFINE A == Having(S, f, c)
           B == Having(S, g, c)
           R == Having(S \ {k}, f, c)
<1>1. IsFiniteSet(A) /\ IsFiniteSet(B) /\ IsFiniteSet(R)
  BY FS_Subset DEF Having
<1>2. k \notin R /\ A = (IF f[k] = c THEN R \cup {k} ELSE R) /\ B = (IF v = c THEN R \cup {k} ELSE R)
  BY DEF Having, Replaces
<1> HIDE DEF A, B, R
<1>3. Cardinality(R) \in Nat /\ Cardinality(R \cup {k}) = Cardinality(R) + 1
  BY <1>1, <1>2, FS_AddElement, FS_CardinalityType
<1>4. Cardinality(A) = Cardinality(R) + Same(f[k], c)
  BY <1>2, <1>3 DEF Same
<1>5. Cardinality(B) = Cardinality(R) + Same(v, c)
  BY <1>2, <1>3 DEF Same
<1>6. Same(f[k], c) \in Nat /\ Same(v, c) \in Nat
  BY DEF Same
<1>7. Cardinality(B) + Same(f[k], c) = Cardinality(A) + Same(v, c) /\ Cardinality(A) \in Nat /\ Cardinality(B) \in Nat
  BY <1>3, <1>4, <1>5, <1>6
<1> QED  BY <1>7 DEF A, B

(* The services, and those that own the object, are finitely many. *)
LEMMA Finite == IsFiniteSet(Reader) /\ IsFiniteSet(Service) /\ Writer \notin Reader /\ IsFiniteSet(Owners)
<1>1. IsFiniteSet(Service)
  BY StmAssumption, FS_AddElement DEF Service
<1>2. Owners \subseteq Service
  BY DEF Owners, Service
<1> QED  BY <1>1, <1>2, FS_Subset, StmAssumption

(* The references to a copy, as a sum *)
InHands(f, c) == Cardinality(Having(Service, f, c))
InBoxes(f, c) == Cardinality(Having(Reader, f, c))

(* The references to a copy lie in boxes, in hands and in the object. *)
LEMMA HoldsIs ==
    /\ \A c : Holds(c) = InBoxes(last, c) + InHands(tmp, c) + Same(copy, c)
    /\ \A c : Holds(c)' = InBoxes(last', c) + InHands(tmp', c) + Same(copy', c)
BY DEF Holds, InBoxes, InHands, Having, Same

(* The references to a copy are a number. *)
LEMMA HoldsNat ==
    ASSUME NEW c
    PROVE  /\ InBoxes(last, c) \in Nat /\ InHands(tmp, c) \in Nat /\ Same(copy, c) \in Nat
           /\ Holds(c) \in Nat
<1>1. IsFiniteSet(Having(Service, tmp, c)) /\ IsFiniteSet(Having(Reader, last, c))
  BY Finite, FS_Subset DEF Having
<1>2. InBoxes(last, c) \in Nat /\ InHands(tmp, c) \in Nat /\ Same(copy, c) \in Nat
  BY <1>1, FS_CardinalityType DEF InBoxes, InHands, Same
<1> QED  BY <1>2, HoldsIs

(* A step in which one service takes another copy in its hand, and the     *)
(* object perhaps another one.                                             *)
LEMMA HandStep ==
    ASSUME NEW s \in Service, NEW v, Replaces(Service, tmp, s, v, tmp'), NEW c
    PROVE  /\ InHands(tmp, c) \in Nat /\ InHands(tmp', c) \in Nat
           /\ InHands(tmp', c) + Same(tmp[s], c) = InHands(tmp, c) + Same(v, c)
BY Finite, HavingStep DEF InHands

(* A step in which one reader takes another copy into its box *)
LEMMA BoxStep ==
    ASSUME NEW r \in Reader, NEW v, Replaces(Reader, last, r, v, last'), NEW c
    PROVE  /\ InBoxes(last, c) \in Nat /\ InBoxes(last', c) \in Nat
           /\ InBoxes(last', c) + Same(last[r], c) = InBoxes(last, c) + Same(v, c)
BY Finite, HavingStep DEF InBoxes

(* A step in which nobody lets go of a copy and nobody takes one keeps the *)
(* counts.                                                                 *)
LEMMA SameCopies ==
    ASSUME CopiesInv, UNCHANGED copies, \A c \in Copy : Holds(c)' = Holds(c)
    PROVE  CopiesInv'
BY DEF CopiesInv, Exact, copies

(* stm_releasecopy on a copy that had one reference more *)
LEMMA ReleaseKeeps ==
    ASSUME StmTypeOK, CopiesInv, NEW x \in Copy \cup {Nil}, ReleaseCopy(x),
           \A c \in Copy : Holds(c)' + Same(x, c) = Holds(c), \A c \in Copy : Holds(c)' \in Nat
    PROVE  CopiesInv' /\ refs' \in [Copy -> Int] /\ dead' \subseteq Copy
<1>1. CASE x = Nil
  <2>1. UNCHANGED <<refs, dead>>
    BY <1>1 DEF ReleaseCopy, copies
  <2>2. \A c \in Copy : Same(x, c) = 0
    BY <1>1, StmAssumption DEF Same, Copy, Nil
  <2>3. \A c \in Copy : Holds(c)' = Holds(c)
    BY <2>2
  <2> QED  BY <2>1, <2>3 DEF CopiesInv, Exact, StmTypeOK
<1>2. CASE x \in Copy
  <2>0. x # Nil
    BY <1>2, StmAssumption DEF Copy, Nil
  <2>1. refs' = [refs EXCEPT ![x] = refs[x] - 1] /\ dead' = IF refs[x] = 1 THEN dead \cup {x} ELSE dead
    BY <2>0 DEF ReleaseCopy
  <2>2. refs' \in [Copy -> Int] /\ dead' \subseteq Copy
    BY <1>2, <2>1 DEF StmTypeOK
  <2>3. Holds(x) = Holds(x)' + 1 /\ Holds(x)' \in Nat
    BY <1>2 DEF Same
  <2>4. refs[x] = Holds(x) /\ x \notin dead
    BY <1>2, <2>3 DEF CopiesInv, Exact
  <2>5. refs'[x] = refs[x] - 1 /\ (x \in dead' <=> refs[x] = 1)
    BY <1>2, <2>1, <2>4 DEF StmTypeOK
  <2>6. Exact(x)'
    BY <2>3, <2>4, <2>5 DEF Exact
  <2>7. ASSUME NEW c \in Copy, c # x PROVE Exact(c)'
    <3>1. refs'[c] = refs[c] /\ (c \in dead' <=> c \in dead)
      BY <2>1, <2>7 DEF StmTypeOK
    <3>2. Holds(c)' = Holds(c)
      BY <2>7 DEF Same
    <3> QED  BY <3>1, <3>2 DEF CopiesInv, Exact
  <2> QED  BY <2>2, <2>6, <2>7 DEF CopiesInv
<1> QED  BY <1>1, <1>2


(* At first the writer has the object and its first copy. *)
LEMMA ObjectsInit == StmInit => ObjectsInv
<1> SUFFICES ASSUME StmInit PROVE ObjectsInv
  OBVIOUS
<1>0. 1 \in Copy /\ 1 # Nil /\ Writer \in Service /\ Nil \notin Copy
  BY StmAssumption DEF Copy, Nil, Service
<1>1. StmTypeOK
  <2>1. refs \in [Copy -> Int]
    BY DEF StmInit
  <2>2. /\ place \in [Service -> Places] /\ tmp \in [Service -> Copy \cup {Nil}]
        /\ box \in [Reader -> {"none", "promised", "sent", "open", "gone"}]
        /\ last \in [Reader -> Copy \cup {Nil}]
    BY DEF StmInit, Places
  <2>3. freed \in BOOLEAN /\ reference \in Int /\ copy \in Copy \cup {Nil} /\ dead \subseteq Copy
    <3>1. freed = FALSE /\ reference = 1 /\ copy = 1 /\ dead = {}
      BY DEF StmInit
    <3>2. freed \in BOOLEAN
      BY <3>1
    <3>3. reference \in Int /\ copy \in Copy \cup {Nil}
      BY <1>0, <3>1
    <3>4. dead \subseteq Copy
      BY <3>1
    <3> QED  BY <3>2, <3>3, <3>4
  <2> QED  BY <2>1, <2>2, <2>3 DEF StmTypeOK
<1>2. /\ \A s \in Service : place[s] = "idle" /\ tmp[s] = Nil
      /\ \A r \in Reader : r \in Service /\ box[r] = "none" /\ last[r] = Nil
  BY DEF StmInit, Service
<1>3. Boxes /\ Hands
  BY <1>0, <1>2 DEF Boxes, Hands, StmInit, Reading, Leaving
<1>4. Owners = {Writer}
  BY <1>0, <1>2 DEF Owners, At
<1>5. ObjectInv
  BY <1>4, FS_Singleton DEF ObjectInv, StmInit
<1>6. ASSUME NEW c \in Copy PROVE Exact(c)
  <2>1. Having(Service, tmp, c) = {} /\ Having(Reader, last, c) = {}
    BY <1>0, <1>2 DEF Having
  <2>2. InHands(tmp, c) = 0 /\ InBoxes(last, c) = 0
    BY <2>1, FS_EmptySet DEF InHands, InBoxes
  <2>3. Holds(c) = Same(copy, c)
    BY <2>2, HoldsIs DEF Same
  <2>4. refs[c] = (IF c = 1 THEN 1 ELSE -1) /\ dead = {} /\ copy = 1
    BY DEF StmInit
  <2> QED  BY <2>3, <2>4 DEF Exact, Same
<1> QED  BY <1>1, <1>3, <1>5, <1>6 DEF ObjectsInv, CopiesInv, StmInit

(* The object is there for everyone who owns it. *)
LEMMA TouchOwned ==
    ASSUME ObjectsInv, NEW s, Touch(s), s \in Owners \/ place[s] = "left"
    PROVE  fault' \subseteq {"left"}
<1>1. CASE s \in Owners
  BY <1>1 DEF ObjectsInv, ObjectInv, Touch
<1>2. CASE place[s] = "left"
  BY <1>2 DEF ObjectsInv, Touch
<1> QED  BY <1>1, <1>2

(* A service that goes on *)
LEMMA GoesOn ==
    ASSUME StmTypeOK, NEW s \in Service, NEW p \in Places, Goto(s, p)
    PROVE  place' \in [Service -> Places] /\ place'[s] = p /\ \A x \in Service : x # s => place'[x] = place[x]
BY DEF StmTypeOK, Goto

(* A step that leaves the object and its copies alone *)
LEMMA QuietStep ==
    ASSUME ObjectsInv, UNCHANGED <<object, copies, tmp, last>>,
           place' \in [Service -> Places], box' \in [Reader -> {"none", "promised", "sent", "open", "gone"}],
           Boxes', Hands', Owners' = Owners, fault' \subseteq {"left"}
    PROVE  ObjectsInv'
<1>1. StmTypeOK'
  BY DEF ObjectsInv, StmTypeOK, object, copies
<1>2. ObjectInv'
  BY DEF ObjectsInv, ObjectInv, object
<1>3. \A c \in Copy : Holds(c)' = Holds(c)
  BY DEF Holds, object
<1>4. CopiesInv'
  BY <1>3, SameCopies DEF ObjectsInv
<1> QED  BY <1>1, <1>2, <1>4 DEF ObjectsInv

(* A quiet step of the writer, which stays one *)
LEMMA WriterGoes ==
    ASSUME ObjectsInv, NEW p \in {"grab", "grabbing", "swap", "delete", "deleting"}, Goto(Writer, p),
           place[Writer] \in {"idle", "grab", "update", "delete"}, p = "swap" <=> place[Writer] = "update",
           UNCHANGED <<object, copies, tmp, last, box>>, fault' \subseteq {"left"}
    PROVE  ObjectsInv'
<1>0. Writer \in Service /\ Writer \notin Reader /\ \A r \in Reader : r \in Service /\ r # Writer
  BY Finite DEF Service
<1>1. p \in Places /\ StmTypeOK /\ Boxes /\ Hands
  BY DEF Places, ObjectsInv
<1>2. place' \in [Service -> Places] /\ place'[Writer] = p /\ \A r \in Reader : place'[r] = place[r]
  BY <1>0, <1>1, GoesOn
<1>3. Boxes'
  BY <1>1, <1>2 DEF Boxes, Reading, Leaving
<1>4. Hands'
  BY <1>1, <1>2 DEF Hands, object
<1>5. Owners' = Owners
  BY <1>1, <1>2 DEF Owners, At
<1> QED  BY <1>1, <1>2, <1>3, <1>4, <1>5, QuietStep DEF StmTypeOK

(* Where a reader may go, and what of its box *)
MayGo(r, p, b) ==
    /\ p \in {"idle"} \cup Reading \cup Leaving /\ b \in {"none", "promised", "sent", "open", "gone"}
    /\ b = "promised" => place[Writer] = "grabbed"
    /\ p \in Reading => b = "open"
    /\ p \in Leaving <=> b = "gone"
    /\ tmp[r] = Nil \/ p \in {"copied", "compare"}

(* A quiet step of a reader *)
LEMMA ReaderGoes ==
    ASSUME ObjectsInv, NEW r \in Reader, NEW p, NEW b, MayGo(r, p, b), Goto(r, p), box' = [box EXCEPT ![r] = b],
           UNCHANGED <<object, copies, tmp, last>>,
           b \in {"promised", "sent", "open"} \/ p \in {"release", "releasing"} <=> r \in Owners,
           fault' \subseteq {"left"}
    PROVE  ObjectsInv'
<1>0. Writer \in Service /\ Writer \notin Reader /\ \A x \in Reader : x \in Service /\ x # Writer
  BY Finite DEF Service
<1>1. /\ p \in Places /\ StmTypeOK /\ Boxes /\ Hands
      /\ p \in {"idle"} \cup Reading \cup Leaving /\ b \in {"none", "promised", "sent", "open", "gone"}
      /\ b = "promised" => place[Writer] = "grabbed"
      /\ p \in Reading => b = "open"
      /\ p \in Leaving <=> b = "gone"
      /\ tmp[r] = Nil \/ p \in {"copied", "compare"}
  BY DEF MayGo, Places, Reading, Leaving, ObjectsInv
<1>2. place' \in [Service -> Places] /\ place'[r] = p /\ \A x \in Service : x # r => place'[x] = place[x]
  BY <1>0, <1>1, GoesOn
<1>3. /\ box' \in [Reader -> {"none", "promised", "sent", "open", "gone"}] /\ box'[r] = b
      /\ \A x \in Reader : x # r => box'[x] = box[x]
  BY <1>1 DEF StmTypeOK
<1>4. place'[Writer] = place[Writer]
  BY <1>0, <1>2
<1>5. Boxes'
  <2>1. \A x \in Reader : /\ place'[x] \in {"idle"} \cup Reading \cup Leaving
                          /\ place'[x] \in Reading => box'[x] = "open"
                          /\ place'[x] \in Leaving <=> box'[x] = "gone"
                          /\ box'[x] = "promised" => place'[Writer] = "grabbed"
    BY <1>0, <1>1, <1>2, <1>3, <1>4 DEF Boxes
  <2> QED  BY <1>1, <1>4, <2>1 DEF Boxes
<1>6. Hands'
  <2>1. \A x \in Reader : tmp'[x] # Nil => place'[x] \in {"copied", "compare"}
    BY <1>0, <1>1, <1>2 DEF Hands
  <2> QED  BY <1>1, <1>4, <2>1 DEF Hands, object
<1>7. Owners' = Owners
  <2>1. \A x \in Reader : box'[x] \in {"promised", "sent", "open"} \/ place'[x] \in {"release", "releasing"} <=> x \in Owners
    BY <1>0, <1>2, <1>3 DEF Owners
  <2>2. Writer \in Owners <=> place[Writer] # "gone"
    BY <1>0 DEF Owners, At
  <2>3. Writer \in Owners' <=> place'[Writer] # "gone"
    BY <1>0 DEF Owners, At
  <2>4. \A x \in Reader : x \in Owners' <=> box'[x] \in {"promised", "sent", "open"} \/ place'[x] \in {"release", "releasing"}
    BY <1>0 DEF Owners
  <2>5. Owners \subseteq Service /\ Owners' \subseteq Service
    BY DEF Owners, Service
  <2> QED  BY <1>4, <2>1, <2>2, <2>3, <2>4, <2>5 DEF Service
<1> QED  BY <1>2, <1>3, <1>5, <1>6, <1>7, QuietStep


(* rwlock_rlock, of a service that owns the object *)
LEMMA ReadLockKeeps == ASSUME ObjectsInv, NEW s \in Service, ReadLock(s) PROVE ObjectsInv'
<1>0. Writer \in Service /\ Writer \notin Reader /\ Service = Reader \cup {Writer} /\ StmTypeOK /\ Boxes /\ Hands
  BY Finite DEF Service, ObjectsInv
<1>1. UNCHANGED <<object, copies, tmp, last, box>> /\ Touch(s)
  BY DEF ReadLock, readers
<1>2. CASE s = Writer
  <2>1. place[Writer] = "grab" /\ Goto(Writer, "grabbing")
    BY <1>0, <1>2 DEF ReadLock, At, Boxes, Reading
  <2>2. Writer \in Owners
    BY <2>1 DEF Owners, At
  <2>3. fault' \subseteq {"left"}
    BY <1>1, <1>2, <2>2, TouchOwned
  <2> QED  BY <1>1, <2>1, <2>3, WriterGoes
<1>3. CASE s \in Reader
  <2>1. \/ place[s] = "copy" /\ Goto(s, "copying")
        \/ place[s] = "release" /\ Goto(s, "releasing")
    BY <1>0, <1>3 DEF ReadLock, At, Boxes, Reading, Leaving
  <2>2. s \in Owners /\ tmp[s] = Nil
    BY <1>0, <1>3, <2>1 DEF Owners, Boxes, Reading, Hands
  <2>3. fault' \subseteq {"left"}
    BY <1>1, <2>2, TouchOwned
  <2>4. box' = [box EXCEPT ![s] = box[s]] /\ box[s] \in {"none", "promised", "sent", "open", "gone"}
    BY <1>0, <1>1, <1>3 DEF StmTypeOK
  <2>5. CASE place[s] = "copy" /\ Goto(s, "copying")
    <3>1. box[s] = "open"
      BY <1>0, <1>3, <2>5 DEF Boxes, Reading
    <3> QED
      <4>1. MayGo(s, "copying", "open")
        BY <1>0, <1>1, <1>3, <2>2, <2>3, <2>4, <2>5, <3>1 DEF MayGo, Reading, Leaving
      <4> QED  BY <1>1, <1>3, <2>2, <2>3, <2>4, <2>5, <3>1, <4>1, ReaderGoes
  <2>6. CASE place[s] = "release" /\ Goto(s, "releasing")
    <3>1. box[s] = "gone"
      BY <1>0, <1>3, <2>6 DEF Boxes, Leaving
    <3> QED
      <4>1. MayGo(s, "releasing", "gone")
        BY <1>0, <1>1, <1>3, <2>2, <2>3, <2>4, <2>6, <3>1 DEF MayGo, Reading, Leaving
      <4> QED  BY <1>1, <1>3, <2>2, <2>3, <2>4, <2>6, <3>1, <4>1, ReaderGoes
  <2> QED  BY <2>1, <2>5, <2>6
<1> QED  BY <1>0, <1>2, <1>3

(* The pointer that the writer was promised is in a message. *)
LEMMA GrabbedKeeps ==
    ASSUME ObjectsInv, place[Writer] = "grabbed", Goto(Writer, "idle"), Touch(Writer), UNCHANGED <<object, copies, tmp, last>>,
           box' = [r \in Reader |-> IF box[r] = "promised" THEN "sent" ELSE box[r]]
    PROVE  ObjectsInv'
<1>0. Writer \in Service /\ Writer \notin Reader /\ Service = Reader \cup {Writer} /\ StmTypeOK /\ Boxes /\ Hands
  BY Finite DEF Service, ObjectsInv
<1>1. "idle" \in Places
  BY DEF Places
<1>2. place' \in [Service -> Places] /\ place'[Writer] = "idle" /\ \A r \in Reader : place'[r] = place[r]
  BY <1>0, <1>1, GoesOn
<1>3. /\ box' \in [Reader -> {"none", "promised", "sent", "open", "gone"}]
      /\ \A r \in Reader : /\ box'[r] \in {"promised", "sent", "open"} <=> box[r] \in {"promised", "sent", "open"}
                           /\ box'[r] # "promised" /\ (box'[r] = "gone" <=> box[r] = "gone")
                           /\ box[r] = "open" => box'[r] = "open"
  BY <1>0 DEF StmTypeOK
<1>4. Boxes'
  BY <1>0, <1>2, <1>3 DEF Boxes, Reading, Leaving
<1>5. Hands'
  BY <1>0, <1>2 DEF Hands, object
<1>6. Owners' = Owners /\ Writer \in Owners
  BY <1>2, <1>3 DEF Owners, At
<1>7. fault' \subseteq {"left"}
  BY <1>6, TouchOwned
<1> QED  BY <1>2, <1>3, <1>4, <1>5, <1>6, <1>7, QuietStep

(* rwlock_runlock: the last touch of a reader may come after the object   *)
(* was freed, and of nobody else.                                          *)
LEMMA ReadUnlockKeeps == ASSUME ObjectsInv, NEW s \in Service, ReadUnlock(s) PROVE ObjectsInv'
<1>0. Writer \in Service /\ Writer \notin Reader /\ Service = Reader \cup {Writer} /\ StmTypeOK /\ Boxes /\ Hands
  BY Finite DEF Service, ObjectsInv
<1>1. UNCHANGED <<object, copies, tmp, last>> /\ Touch(s)
  BY DEF ReadUnlock
<1>2. CASE s = Writer
  <2>1. /\ place[Writer] = "grabbed" /\ Goto(Writer, "idle")
        /\ box' = [r \in Reader |-> IF box[r] = "promised" THEN "sent" ELSE box[r]]
    BY <1>0, <1>2 DEF ReadUnlock, At, Boxes, Reading
  <2> QED  BY <1>1, <1>2, <2>1, GrabbedKeeps
<1>3. CASE s \in Reader
  <2>1. /\ UNCHANGED box
        /\ \/ place[s] = "copied" /\ Goto(s, "compare")
           \/ place[s] = "left" /\ Goto(s, "drop")
    BY <1>0, <1>3 DEF ReadUnlock, At, Boxes, Reading, Leaving
  <2>2. place[s] = "left" \/ s \in Owners
    BY <1>0, <1>3, <2>1 DEF Owners, Boxes, Reading
  <2>3. fault' \subseteq {"left"}
    BY <1>1, <2>2, TouchOwned
  <2>4. box' = [box EXCEPT ![s] = box[s]] /\ box[s] \in {"none", "promised", "sent", "open", "gone"}
    BY <1>0, <2>1, <1>3 DEF StmTypeOK
  <2>5. CASE place[s] = "copied" /\ Goto(s, "compare")
    <3>1. box[s] = "open" /\ s \in Owners
      BY <1>0, <1>3, <2>5 DEF Boxes, Reading, Owners
    <3> QED
      <4>1. MayGo(s, "compare", "open")
        BY <1>0, <1>1, <1>3, <2>3, <2>4, <2>5, <3>1 DEF MayGo, Reading, Leaving
      <4> QED  BY <1>1, <1>3, <2>3, <2>4, <2>5, <3>1, <4>1, ReaderGoes
  <2>6. CASE place[s] = "left" /\ Goto(s, "drop")
    <3>1. box[s] = "gone" /\ tmp[s] = Nil /\ s \notin Owners
      BY <1>0, <1>3, <2>6 DEF Boxes, Leaving, Hands, Owners
    <3> QED
      <4>1. MayGo(s, "drop", "gone")
        BY <1>0, <1>1, <1>3, <2>3, <2>4, <2>6, <3>1 DEF MayGo, Reading, Leaving
      <4> QED  BY <1>1, <1>3, <2>3, <2>4, <2>6, <3>1, <4>1, ReaderGoes
  <2> QED  BY <2>1, <2>5, <2>6
<1> QED  BY <1>0, <1>2, <1>3

(* The writer starts a call, or waits for readers to go. *)
LEMMA WriterKeeps == ASSUME ObjectsInv, WriteLock \/ Share \/ Delete PROVE ObjectsInv'
<1>1. \E p \in {"grab", "swap", "delete", "deleting"} :
         /\ Goto(Writer, p) /\ place[Writer] \in {"idle", "update", "delete"}
         /\ p = "swap" <=> place[Writer] = "update"
  BY DEF WriteLock, Share, Delete, At
<1>2. UNCHANGED <<object, copies, tmp, last, box>> /\ (Touch(Writer) \/ UNCHANGED fault)
  BY DEF WriteLock, Share, Delete, readers
<1>3. Writer \in Owners /\ fault \subseteq {"left"}
  BY <1>1 DEF Owners, At, ObjectsInv
<1>4. fault' \subseteq {"left"}
  BY <1>2, <1>3, TouchOwned
<1> QED  BY <1>1, <1>2, <1>4, WriterGoes

(* A reader opens its box, starts to read, or is closed. *)
LEMMA ReaderKeeps == ASSUME ObjectsInv, NEW r \in Reader, NewReader(r) \/ Read(r) \/ Close(r) PROVE ObjectsInv'
<1>0. Writer \in Service /\ Writer \notin Reader /\ Service = Reader \cup {Writer} /\ StmTypeOK /\ Boxes /\ Hands
  BY Finite DEF Service, ObjectsInv
<1>1. UNCHANGED <<object, copies, tmp, last>> /\ fault' \subseteq {"left"}
  BY DEF NewReader, Read, Close, readers, ObjectsInv
<1>2. CASE NewReader(r)
  <2>1. box[r] = "sent" /\ box' = [box EXCEPT ![r] = "open"] /\ place' = place
    BY <1>2 DEF NewReader
  <2>2. r \in Owners /\ place[r] = "idle"
    BY <1>0, <2>1 DEF Owners, Boxes
  <2>3. Goto(r, "idle")
    BY <1>0, <2>1, <2>2 DEF Goto, StmTypeOK
  <2>4. tmp[r] = Nil
    BY <1>0, <2>2 DEF Hands
  <2> QED
    <3>1. MayGo(r, "idle", "open")
      BY <1>0, <1>1, <2>1, <2>2, <2>3, <2>4 DEF MayGo, Reading, Leaving
    <3> QED  BY <1>1, <2>1, <2>2, <2>3, <2>4, <3>1, ReaderGoes
<1>3. CASE Read(r)
  <2>1. box[r] = "open" /\ place[r] = "idle" /\ Goto(r, "copy") /\ UNCHANGED box
    BY <1>3 DEF Read, At
  <2>2. box' = [box EXCEPT ![r] = "open"]
    BY <1>0, <2>1 DEF StmTypeOK
  <2>3. tmp[r] = Nil /\ r \in Owners
    BY <1>0, <2>1 DEF Hands, Owners
  <2> QED
    <3>1. MayGo(r, "copy", "open")
      BY <1>0, <1>1, <2>1, <2>2, <2>3 DEF MayGo, Reading, Leaving
    <3> QED  BY <1>1, <2>1, <2>2, <2>3, <3>1, ReaderGoes
<1>4. CASE Close(r)
  <2>1. box[r] = "open" /\ place[r] = "idle" /\ Goto(r, "release") /\ box' = [box EXCEPT ![r] = "gone"]
    BY <1>4 DEF Close, At
  <2>3. tmp[r] = Nil /\ r \in Owners
    BY <1>0, <2>1 DEF Hands, Owners
  <2> QED
    <3>1. MayGo(r, "release", "gone")
      BY <1>0, <1>1, <2>1, <2>3 DEF MayGo, Reading, Leaving
    <3> QED  BY <1>1, <2>1, <2>3, <3>1, ReaderGoes
<1> QED  BY <1>2, <1>3, <1>4


(* lcopy: reader r gets a reference to the object. *)
LEMMA GrabKeeps == ASSUME ObjectsInv, NEW r \in Reader, Grab(r) PROVE ObjectsInv'
<1>0. Writer \in Service /\ Writer \notin Reader /\ Service = Reader \cup {Writer} /\ StmTypeOK /\ Boxes /\ Hands
  BY Finite DEF Service, ObjectsInv
<1>1. /\ place[Writer] = "grabbing" /\ Goto(Writer, "grabbed") /\ box[r] = "none" /\ box' = [box EXCEPT ![r] = "promised"]
      /\ reference' = reference + 1 /\ Touch(Writer) /\ UNCHANGED <<freed, copy, refs, dead, tmp, last>>
  BY DEF Grab, At, copies
<1>2. place' \in [Service -> Places] /\ place'[Writer] = "grabbed" /\ \A x \in Reader : place'[x] = place[x]
  <2>1. "grabbed" \in Places
    BY DEF Places
  <2> QED  BY <1>0, <1>1, <2>1, GoesOn
<1>3. /\ box' \in [Reader -> {"none", "promised", "sent", "open", "gone"}] /\ box'[r] = "promised"
      /\ \A x \in Reader : x # r => box'[x] = box[x]
  BY <1>0, <1>1 DEF StmTypeOK
<1>4. Writer \in Owners /\ r \notin Owners /\ Owners' = Owners \cup {r}
  <2>1. Writer \in Owners /\ Writer \in Owners'
    BY <1>1, <1>2 DEF Owners, At
  <2>2. place[r] \notin {"release", "releasing"}
    BY <1>0, <1>1 DEF Boxes, Leaving
  <2>3. \A x \in Reader : x \in Owners' <=> x \in Owners \/ x = r
    BY <1>0, <1>1, <1>2, <1>3 DEF Owners
  <2>4. Owners \subseteq Service /\ Owners' \subseteq Service
    BY DEF Owners, Service
  <2> QED  BY <1>0, <1>1, <2>1, <2>2, <2>3, <2>4 DEF Owners
<1>5. ObjectInv'
  <2>1. Cardinality(Owners \cup {r}) = Cardinality(Owners) + 1
    BY <1>4, Finite, FS_AddElement
  <2> QED  BY <1>1, <1>4, <2>1 DEF ObjectsInv, ObjectInv
<1>6. fault' \subseteq {"left"}
  BY <1>1, <1>4, TouchOwned
<1>7. StmTypeOK'
  <2>1. reference' \in Int
    BY <1>0, <1>1 DEF StmTypeOK
  <2> QED  BY <1>0, <1>1, <1>2, <1>3, <2>1 DEF StmTypeOK
<1>8. Boxes'
  BY <1>0, <1>1, <1>2, <1>3 DEF Boxes, Reading, Leaving
<1>9. Hands'
  BY <1>0, <1>1, <1>2 DEF Hands
<1>10. CopiesInv'
  <2>1. \A c \in Copy : Holds(c)' = Holds(c)
    BY <1>1 DEF Holds
  <2> QED  BY <1>1, <2>1, SameCopies DEF ObjectsInv, copies
<1> QED  BY <1>5, <1>6, <1>7, <1>8, <1>9, <1>10 DEF ObjectsInv

(* A step of the writer that leaves the object to its owners *)
LEMMA WriterStays ==
    ASSUME ObjectsInv, NEW p \in {"idle", "update", "updated"}, Goto(Writer, p), place[Writer] # "gone",
           place[Writer] # "grabbed", UNCHANGED <<freed, reference, box, last>>,
           copy' \in Copy, tmp' \in [Service -> Copy \cup {Nil}], tmp'[Writer] # Nil <=> p # "idle",
           \A r \in Reader : tmp'[r] = tmp[r], refs' \in [Copy -> Int], dead' \subseteq Copy, CopiesInv',
           fault' \subseteq {"left"}
    PROVE  ObjectsInv'
<1>0. Writer \in Service /\ Writer \notin Reader /\ Service = Reader \cup {Writer} /\ StmTypeOK /\ Boxes /\ Hands
  BY Finite DEF Service, ObjectsInv
<1>2. place' \in [Service -> Places] /\ place'[Writer] = p /\ \A x \in Reader : place'[x] = place[x]
  <2>1. p \in Places
    BY DEF Places
  <2> QED  BY <1>0, <2>1, GoesOn
<1>3. StmTypeOK'
  BY <1>0, <1>2 DEF StmTypeOK
<1>4. Boxes'
  BY <1>0, <1>2 DEF Boxes, Reading, Leaving
<1>5. Hands'
  <2>1. copy' # Nil
    BY StmAssumption DEF Copy, Nil
  <2> QED  BY <1>0, <1>2, <2>1 DEF Hands
<1>6. Owners' = Owners
  BY <1>2 DEF Owners, At
<1>7. ObjectInv'
  BY <1>6 DEF ObjectsInv, ObjectInv
<1> QED  BY <1>3, <1>4, <1>5, <1>7 DEF ObjectsInv

(* stm_newcopy: a copy that nobody had is in the hand of the writer. *)
LEMMA UpdateKeeps == ASSUME ObjectsInv, Update PROVE ObjectsInv'
<1>0. Writer \in Service /\ Writer \notin Reader /\ Service = Reader \cup {Writer} /\ StmTypeOK /\ Boxes /\ Hands /\ Nil \notin Copy
  BY Finite, StmAssumption DEF Service, ObjectsInv, Copy, Nil
<1>1. /\ place[Writer] = "idle" /\ Goto(Writer, "update")
      /\ UNCHANGED <<freed, reference, copy, dead, box, last, fault>>
  BY DEF Update, At, object, readers
<1>2. PICK c \in Copy : refs[c] = -1 /\ refs' = [refs EXCEPT ![c] = 1] /\ tmp' = [tmp EXCEPT ![Writer] = c]
  BY DEF Update
<1>3. tmp[Writer] = Nil /\ copy \in Copy
  BY <1>0, <1>1 DEF Hands, StmTypeOK
<1>4. tmp' \in [Service -> Copy \cup {Nil}] /\ tmp'[Writer] = c /\ \A r \in Reader : tmp'[r] = tmp[r]
  BY <1>0, <1>2 DEF StmTypeOK
<1>5. refs' \in [Copy -> Int] /\ refs'[c] = 1 /\ \A d \in Copy : d # c => refs'[d] = refs[d]
  BY <1>0, <1>2 DEF StmTypeOK
<1>6. \A d \in Copy : Holds(d)' = Holds(d) + Same(c, d) /\ Holds(d) \in Nat
  <2> SUFFICES ASSUME NEW d \in Copy PROVE Holds(d)' = Holds(d) + Same(c, d) /\ Holds(d) \in Nat
    OBVIOUS
  <2>1. /\ InHands(tmp, d) \in Nat /\ InHands(tmp', d) \in Nat
        /\ InHands(tmp', d) + Same(tmp[Writer], d) = InHands(tmp, d) + Same(c, d)
    <3>1. Replaces(Service, tmp, Writer, c, tmp')
      BY <1>0, <1>2 DEF Replaces, StmTypeOK
    <3> QED  BY <1>0, <3>1, HandStep, ZenonT(30)
  <2>2. Same(tmp[Writer], d) = 0 /\ InBoxes(last', d) = InBoxes(last, d) /\ Same(copy', d) = Same(copy, d)
    BY <1>0, <1>1, <1>3 DEF Same, InBoxes, Having
  <2>3. InBoxes(last, d) \in Nat /\ Same(copy, d) \in Nat /\ Same(c, d) \in Nat
    BY HoldsNat DEF Same
  <2> QED  BY <2>1, <2>2, <2>3, HoldsIs
<1>7. CopiesInv'
  <2>1. Holds(c) = 0 /\ c \notin dead /\ Same(c, c) = 1
    BY <1>2 DEF ObjectsInv, CopiesInv, Exact, Same
  <2>2. Exact(c)'
    BY <1>1, <1>5, <1>6, <2>1 DEF Exact
  <2>3. ASSUME NEW d \in Copy, d # c PROVE Exact(d)'
    <3>1. Same(c, d) = 0
      BY <2>3 DEF Same
    <3> QED  BY <1>1, <1>5, <1>6, <2>3, <3>1 DEF Exact, ObjectsInv, CopiesInv
  <2> QED  BY <2>2, <2>3 DEF CopiesInv
<1>8. fault' \subseteq {"left"} /\ dead' \subseteq Copy /\ copy' \in Copy
  BY <1>0, <1>1, <1>3 DEF ObjectsInv, StmTypeOK
<1>9. tmp'[Writer] # Nil
  BY <1>0, <1>4
<1> QED  BY <1>1, <1>4, <1>5, <1>7, <1>8, <1>9, WriterStays

(* stm_update: the writer takes the old copy of the object for its new one. *)
LEMMA SwapKeeps == ASSUME ObjectsInv, Swap PROVE ObjectsInv'
<1>0. Writer \in Service /\ Writer \notin Reader /\ Service = Reader \cup {Writer} /\ StmTypeOK /\ Boxes /\ Hands /\ Nil \notin Copy
  BY Finite, StmAssumption DEF Service, ObjectsInv, Copy, Nil
<1>1. /\ place[Writer] = "swap" /\ Goto(Writer, "updated") /\ copy' = tmp[Writer] /\ tmp' = [tmp EXCEPT ![Writer] = copy]
      /\ UNCHANGED <<freed, reference, refs, dead, box, last>> /\ Touch(Writer)
  BY DEF Swap, At, copies, readers
<1>2. tmp[Writer] \in Copy /\ copy \in Copy
  BY <1>0, <1>1 DEF Hands, StmTypeOK
<1>3. tmp' \in [Service -> Copy \cup {Nil}] /\ tmp'[Writer] # Nil /\ \A r \in Reader : tmp'[r] = tmp[r]
  BY <1>0, <1>1, <1>2 DEF StmTypeOK
<1>4. \A d \in Copy : Holds(d)' = Holds(d)
  <2> SUFFICES ASSUME NEW d \in Copy PROVE Holds(d)' = Holds(d)
    OBVIOUS
  <2>1. /\ InHands(tmp, d) \in Nat /\ InHands(tmp', d) \in Nat
        /\ InHands(tmp', d) + Same(tmp[Writer], d) = InHands(tmp, d) + Same(copy, d)
    <3>1. Replaces(Service, tmp, Writer, copy, tmp')
      BY <1>0, <1>1 DEF Replaces, StmTypeOK
    <3> QED  BY <1>0, <3>1, HandStep, ZenonT(30)
  <2>2. InBoxes(last', d) = InBoxes(last, d) /\ Same(copy', d) = Same(tmp[Writer], d)
    BY <1>1 DEF Same, InBoxes, Having
  <2>3. InBoxes(last, d) \in Nat /\ Same(copy, d) \in Nat /\ Same(tmp[Writer], d) \in Nat
    BY HoldsNat DEF Same
  <2> QED  BY <2>1, <2>2, <2>3, HoldsIs
<1>5. CopiesInv'
  BY <1>1, <1>4, SameCopies DEF ObjectsInv, copies
<1>6. Writer \in Owners
  BY <1>1 DEF Owners, At
<1>7. fault' \subseteq {"left"} /\ refs' \in [Copy -> Int] /\ dead' \subseteq Copy /\ copy' \in Copy
  BY <1>0, <1>1, <1>2, <1>6, TouchOwned DEF StmTypeOK
<1> QED  BY <1>1, <1>3, <1>5, <1>7, WriterStays


(* The copy that was the object's until now is given up. *)
LEMMA UpdatedKeeps == ASSUME ObjectsInv, Updated PROVE ObjectsInv'
<1>0. Writer \in Service /\ Writer \notin Reader /\ Service = Reader \cup {Writer} /\ StmTypeOK /\ Boxes /\ Hands /\ Nil \notin Copy
  BY Finite, StmAssumption DEF Service, ObjectsInv, Copy, Nil
<1>1. /\ place[Writer] = "updated" /\ Goto(Writer, "idle") /\ tmp' = [tmp EXCEPT ![Writer] = Nil]
      /\ UNCHANGED <<freed, reference, copy, box, last, fault>>
  BY DEF Updated, At, object, readers
<1>2. tmp[Writer] \in Copy \cup {Nil} /\ copy \in Copy /\ ReleaseCopy(tmp[Writer])
  BY <1>0, <1>1 DEF Hands, StmTypeOK, Updated
<1>3. tmp' \in [Service -> Copy \cup {Nil}] /\ tmp'[Writer] = Nil /\ \A r \in Reader : tmp'[r] = tmp[r]
  BY <1>0, <1>1 DEF StmTypeOK
<1>4. \A d \in Copy : Holds(d)' + Same(tmp[Writer], d) = Holds(d) /\ Holds(d)' \in Nat
  <2> SUFFICES ASSUME NEW d \in Copy PROVE Holds(d)' + Same(tmp[Writer], d) = Holds(d) /\ Holds(d)' \in Nat
    OBVIOUS
  <2>1. /\ InHands(tmp, d) \in Nat /\ InHands(tmp', d) \in Nat
        /\ InHands(tmp', d) + Same(tmp[Writer], d) = InHands(tmp, d) + Same(Nil, d)
    <3>1. Replaces(Service, tmp, Writer, Nil, tmp')
      BY <1>0, <1>1 DEF Replaces, StmTypeOK
    <3> QED  BY <1>0, <3>1, HandStep, SMTT(30)
  <2>2. Same(Nil, d) = 0 /\ InBoxes(last', d) = InBoxes(last, d) /\ Same(copy', d) = Same(copy, d)
    BY <1>0, <1>1 DEF Same, InBoxes, Having
  <2>3. InBoxes(last, d) \in Nat /\ Same(copy, d) \in Nat /\ Same(tmp[Writer], d) \in Nat
    BY HoldsNat DEF Same
  <2> QED  BY <2>1, <2>2, <2>3, HoldsIs
<1>5. CopiesInv' /\ refs' \in [Copy -> Int] /\ dead' \subseteq Copy
  <2>1. StmTypeOK /\ CopiesInv
    BY DEF ObjectsInv
  <2> QED  BY <1>2, <1>4, <2>1, ReleaseKeeps
<1>6. fault' \subseteq {"left"} /\ copy' \in Copy
  BY <1>1, <1>2 DEF ObjectsInv
<1> QED  BY <1>1, <1>3, <1>5, <1>6, WriterStays

(* One of the owners gives the object up; the last one frees it. *)
LEMMA OwnerLeaves ==
    ASSUME ObjectInv, NEW s \in Owners, Owners' = Owners \ {s}, reference' = reference - 1,
           freed' <=> reference = 1
    PROVE  ObjectInv' /\ reference \in Nat \ {0} /\ ~freed
<1>1. IsFiniteSet(Owners) /\ Cardinality(Owners \ {s}) = Cardinality(Owners) - 1
  BY Finite, FS_RemoveElement
<1>2. Cardinality(Owners) \in Nat /\ Cardinality(Owners) # 0
  BY <1>1, FS_CardinalityType, FS_EmptySet
<1>3. IsFiniteSet(Owners \ {s})
  BY <1>1, FS_Subset
<1>4. Cardinality(Owners \ {s}) = 0 <=> Owners \ {s} = {}
  BY <1>3, FS_EmptySet
<1>5. reference = Cardinality(Owners)
  BY DEF ObjectInv
<1>6. reference' = Cardinality(Owners')
  BY <1>1, <1>5
<1>7. freed' <=> Owners' = {}
  <2>1. reference = 1 <=> Owners' = {}
    BY <1>1, <1>2, <1>4, <1>5
  <2> QED  BY <2>1
<1> QED  BY <1>2, <1>5, <1>6, <1>7 DEF ObjectInv

(* stm_release: the writer gives up the copy and the object. *)
LEMMA DeletingKeeps == ASSUME ObjectsInv, Deleting PROVE ObjectsInv'
<1>0. Writer \in Service /\ Writer \notin Reader /\ Service = Reader \cup {Writer} /\ StmTypeOK /\ Boxes /\ Hands /\ Nil \notin Copy
  BY Finite, StmAssumption DEF Service, ObjectsInv, Copy, Nil
<1>1. /\ place[Writer] = "deleting" /\ Goto(Writer, "gone") /\ ReleaseCopy(copy) /\ copy' = Nil
      /\ reference' = reference - 1 /\ Touch(Writer) /\ UNCHANGED <<tmp, box, last>>
      /\ \/ reference = 1 /\ freed' = TRUE
         \/ reference # 1 /\ freed' = freed
  BY DEF Deleting, At, readers
<1>2. place' \in [Service -> Places] /\ place'[Writer] = "gone" /\ \A x \in Reader : place'[x] = place[x]
  <2>1. "gone" \in Places
    BY DEF Places
  <2> QED  BY <1>0, <1>1, <2>1, GoesOn
<1>3. Writer \in Owners /\ Owners' = Owners \ {Writer}
  BY <1>0, <1>1, <1>2 DEF Owners, At
<1>4. ~freed /\ ObjectInv
  BY <1>3 DEF ObjectsInv, ObjectInv
<1>5. ObjectInv' /\ reference \in Nat \ {0}
  <2>1. freed' <=> reference = 1
    BY <1>1, <1>4
  <2> QED  BY <1>1, <1>3, <1>4, <2>1, OwnerLeaves
<1>6. fault' \subseteq {"left"}
  BY <1>1, <1>3, TouchOwned
<1>7. \A d \in Copy : Holds(d)' + Same(copy, d) = Holds(d) /\ Holds(d)' \in Nat
  <2> SUFFICES ASSUME NEW d \in Copy PROVE Holds(d)' + Same(copy, d) = Holds(d) /\ Holds(d)' \in Nat
    OBVIOUS
  <2>1. InHands(tmp', d) = InHands(tmp, d) /\ InBoxes(last', d) = InBoxes(last, d) /\ Same(copy', d) = 0
    BY <1>0, <1>1 DEF Same, InBoxes, InHands, Having
  <2>2. InBoxes(last, d) \in Nat /\ InHands(tmp, d) \in Nat /\ Same(copy, d) \in Nat
    BY HoldsNat
  <2> QED  BY <2>1, <2>2, HoldsIs
<1>8. CopiesInv' /\ refs' \in [Copy -> Int] /\ dead' \subseteq Copy
  <2>1. StmTypeOK /\ CopiesInv /\ copy \in Copy \cup {Nil}
    BY <1>0 DEF ObjectsInv, StmTypeOK
  <2> QED  BY <1>1, <1>7, <2>1, ReleaseKeeps
<1>9. StmTypeOK'
  <2>1. reference' \in Int /\ freed' \in BOOLEAN /\ copy' \in Copy \cup {Nil}
    <3>1. reference' \in Int /\ copy' \in Copy \cup {Nil}
      BY <1>1, <1>5
    <3>2. freed \in BOOLEAN
      BY <1>0 DEF StmTypeOK
    <3>3. freed' \in BOOLEAN
      BY <1>1, <3>2
    <3> QED  BY <3>1, <3>3
  <2> QED  BY <1>0, <1>1, <1>2, <1>8, <2>1 DEF StmTypeOK
<1>10. Boxes'
  BY <1>0, <1>1, <1>2 DEF Boxes, Reading, Leaving
<1>11. Hands'
  BY <1>0, <1>1, <1>2 DEF Hands
<1> QED  BY <1>5, <1>6, <1>8, <1>9, <1>10, <1>11 DEF ObjectsInv

(* A step of a reader by which it stays the owner, or not, that it is *)
LEMMA ReaderStays ==
    ASSUME ObjectsInv, NEW r \in Reader, NEW p \in {"copied", "idle", "gone"}, Goto(r, p),
           place[r] = (CASE p = "copied" -> "copying" [] p = "idle" -> "compare" [] p = "gone" -> "drop"),
           UNCHANGED <<freed, reference, copy, box>>,
           tmp' \in [Service -> Copy \cup {Nil}], last' \in [Reader -> Copy \cup {Nil}],
           \A s \in Service : s # r => tmp'[s] = tmp[s], tmp'[r] = Nil \/ p = "copied",
           refs' \in [Copy -> Int], dead' \subseteq Copy, CopiesInv', fault' \subseteq {"left"}
    PROVE  ObjectsInv'
<1>0. Writer \in Service /\ Writer \notin Reader /\ Service = Reader \cup {Writer} /\ StmTypeOK /\ Boxes /\ Hands
  BY Finite DEF Service, ObjectsInv
<1>1. place' \in [Service -> Places] /\ place'[r] = p /\ \A x \in Service : x # r => place'[x] = place[x]
  <2>1. p \in Places /\ r \in Service
    BY <1>0 DEF Places
  <2> QED  BY <1>0, <2>1, GoesOn
<1>2. StmTypeOK'
  BY <1>0, <1>1 DEF StmTypeOK
<1>3. /\ p \in Reading => box[r] = "open"
      /\ p \in Leaving <=> box[r] = "gone"
      /\ box[r] # "promised" \/ place[Writer] = "grabbed"
  BY <1>0 DEF Boxes, Reading, Leaving
<1>4. Boxes'
  <2>1. \A x \in Reader : /\ place'[x] \in {"idle"} \cup Reading \cup Leaving
                          /\ place'[x] \in Reading => box'[x] = "open"
                          /\ place'[x] \in Leaving <=> box'[x] = "gone"
                          /\ box'[x] = "promised" => place'[Writer] = "grabbed"
    BY <1>0, <1>1, <1>3 DEF Boxes, Reading, Leaving
  <2> QED  BY <1>0, <1>1, <2>1 DEF Boxes
<1>5. Hands'
  <2>1. \A x \in Reader : tmp'[x] # Nil => place'[x] \in {"copied", "compare"}
    BY <1>0, <1>1 DEF Hands
  <2> QED  BY <1>0, <1>1, <2>1 DEF Hands
<1>6. Owners' = Owners
  <2>1. \A x \in Reader : x \in Owners' <=> x \in Owners
    BY <1>0, <1>1 DEF Owners
  <2>2. Writer \in Owners' <=> Writer \in Owners
    BY <1>0, <1>1 DEF Owners, At
  <2>3. Owners \subseteq Service /\ Owners' \subseteq Service
    BY DEF Owners, Service
  <2> QED  BY <1>0, <2>1, <2>2, <2>3
<1>7. ObjectInv'
  BY <1>6 DEF ObjectsInv, ObjectInv
<1> QED  BY <1>2, <1>4, <1>5, <1>7 DEF ObjectsInv


(* stm_copy: the copy that the object has gets one reference more. *)
LEMMA CopyingKeeps == ASSUME ObjectsInv, NEW r \in Reader, Copying(r) PROVE ObjectsInv'
<1>0. Writer \in Service /\ Writer \notin Reader /\ Service = Reader \cup {Writer} /\ StmTypeOK /\ Boxes /\ Hands /\ Nil \notin Copy
  BY Finite, StmAssumption DEF Service, ObjectsInv, Copy, Nil
<1>1. /\ place[r] = "copying" /\ Goto(r, "copied") /\ tmp' = [tmp EXCEPT ![r] = copy] /\ Touch(r)
      /\ refs' = IF copy = Nil THEN refs ELSE [refs EXCEPT ![copy] = refs[copy] + 1]
      /\ UNCHANGED <<freed, reference, copy, dead, box, last>>
  BY DEF Copying, At, object, readers
<1>2. r \in Service /\ tmp[r] = Nil /\ r \in Owners /\ copy \in Copy \cup {Nil}
  BY <1>0, <1>1 DEF Hands, Owners, Boxes, Reading, StmTypeOK
<1>3. tmp' \in [Service -> Copy \cup {Nil}] /\ \A s \in Service : s # r => tmp'[s] = tmp[s]
  BY <1>0, <1>1, <1>2 DEF StmTypeOK
<1>4. \A d \in Copy : Holds(d)' = Holds(d) + Same(copy, d) /\ Holds(d) \in Nat
  <2> SUFFICES ASSUME NEW d \in Copy PROVE Holds(d)' = Holds(d) + Same(copy, d) /\ Holds(d) \in Nat
    OBVIOUS
  <2>1. /\ InHands(tmp, d) \in Nat /\ InHands(tmp', d) \in Nat
        /\ InHands(tmp', d) + Same(tmp[r], d) = InHands(tmp, d) + Same(copy, d)
    <3>1. Replaces(Service, tmp, r, copy, tmp')
      BY <1>0, <1>1 DEF Replaces, StmTypeOK
    <3> QED  BY <1>2, <3>1, HandStep
  <2>2. Same(tmp[r], d) = 0 /\ InBoxes(last', d) = InBoxes(last, d) /\ Same(copy', d) = Same(copy, d)
    BY <1>0, <1>1, <1>2 DEF Same, InBoxes, Having
  <2>3. InBoxes(last, d) \in Nat /\ Same(copy, d) \in Nat
    BY HoldsNat
  <2> QED  BY <2>1, <2>2, <2>3, HoldsIs
<1>5. CopiesInv' /\ refs' \in [Copy -> Int]
  <2>1. CASE copy = Nil
    <3>1. \A d \in Copy : Holds(d)' = Holds(d)
      BY <1>0, <1>4, <2>1 DEF Same
    <3> QED  BY <1>0, <1>1, <2>1, <3>1, SameCopies DEF ObjectsInv, copies, StmTypeOK
  <2>2. CASE copy \in Copy
    <3>0. copy # Nil
      BY <1>0, <2>2
    <3>1. refs' \in [Copy -> Int] /\ refs'[copy] = refs[copy] + 1 /\ \A d \in Copy : d # copy => refs'[d] = refs[d]
      BY <1>0, <1>1, <2>2, <3>0 DEF StmTypeOK
    <3>2. PICK c \in Copy : c = copy
      BY <2>2
    <3>3. Holds(c)' = Holds(c) + 1 /\ Holds(c) \in Nat \ {0}
      <4>1. Same(copy, c) = 1
        BY <3>2 DEF Same
      <4>2. InBoxes(last, c) \in Nat /\ InHands(tmp, c) \in Nat
        BY HoldsNat
      <4>3. Holds(c) = InBoxes(last, c) + InHands(tmp, c) + 1
        BY <4>1, HoldsIs
      <4>4. Holds(c)' = Holds(c) + 1
        BY <1>4, <4>1
      <4> QED  BY <4>2, <4>3, <4>4
    <3>4. refs[c] = Holds(c) /\ c \notin dead
      BY <3>3 DEF ObjectsInv, CopiesInv, Exact
    <3>5. Exact(c)'
      <4>1. refs'[c] = Holds(c)' /\ Holds(c)' # 0 /\ refs'[c] # -1 /\ c \notin dead'
        BY <1>1, <3>1, <3>2, <3>3, <3>4
      <4> QED  BY <4>1 DEF Exact
    <3>6. ASSUME NEW d \in Copy, d # c PROVE Exact(d)'
      <4>1. Same(copy, d) = 0
        BY <3>2, <3>6 DEF Same
      <4>2. Holds(d)' = Holds(d)
        BY <1>4, <4>1
      <4> QED  BY <1>1, <3>1, <3>2, <3>6, <4>2 DEF Exact, ObjectsInv, CopiesInv
    <3> QED  BY <3>1, <3>5, <3>6 DEF CopiesInv
  <2> QED  BY <1>2, <2>1, <2>2
<1>6. fault' \subseteq {"left"}
  BY <1>1, <1>2, TouchOwned
<1>7. dead' \subseteq Copy /\ last' \in [Reader -> Copy \cup {Nil}]
  BY <1>0, <1>1 DEF StmTypeOK
<1> QED  BY <1>1, <1>3, <1>5, <1>6, <1>7, ReaderStays

(* lread: of the copy that was read and the one in the box, one is given up. *)
LEMMA CompareKeeps == ASSUME ObjectsInv, NEW r \in Reader, Compare(r) PROVE ObjectsInv'
<1>0. Writer \in Service /\ Writer \notin Reader /\ Service = Reader \cup {Writer} /\ StmTypeOK /\ Boxes /\ Hands /\ Nil \notin Copy
  BY Finite, StmAssumption DEF Service, ObjectsInv, Copy, Nil
<1>1. /\ place[r] = "compare" /\ Goto(r, "idle") /\ tmp' = [tmp EXCEPT ![r] = Nil]
      /\ UNCHANGED <<freed, reference, copy, box, fault>>
  BY DEF Compare, At, object
<1>2. r \in Service /\ tmp[r] \in Copy \cup {Nil} /\ last[r] \in Copy \cup {Nil}
  BY <1>0 DEF StmTypeOK
<1>3. tmp' \in [Service -> Copy \cup {Nil}] /\ tmp'[r] = Nil /\ \A s \in Service : s # r => tmp'[s] = tmp[s]
  BY <1>0, <1>1, <1>2 DEF StmTypeOK
<1>4. PICK x \in Copy \cup {Nil} :
         /\ ReleaseCopy(x)
         /\ \/ x = tmp[r] /\ tmp[r] = last[r] /\ last' = last
            \/ x = last[r] /\ last' = [last EXCEPT ![r] = tmp[r]]
  BY <1>2 DEF Compare
<1>5. last' \in [Reader -> Copy \cup {Nil}] /\ Replaces(Reader, last, r, tmp[r], last') /\ x = last[r]
  BY <1>0, <1>2, <1>4 DEF StmTypeOK, Replaces
<1>6. \A d \in Copy : Holds(d)' + Same(x, d) = Holds(d) /\ Holds(d)' \in Nat
  <2> SUFFICES ASSUME NEW d \in Copy PROVE Holds(d)' + Same(x, d) = Holds(d) /\ Holds(d)' \in Nat
    OBVIOUS
  <2>1. /\ InHands(tmp, d) \in Nat /\ InHands(tmp', d) \in Nat
        /\ InHands(tmp', d) + Same(tmp[r], d) = InHands(tmp, d) + Same(Nil, d)
    <3>1. Replaces(Service, tmp, r, Nil, tmp')
      BY <1>0, <1>1 DEF Replaces, StmTypeOK
    <3> QED  BY <1>2, <3>1, HandStep
  <2>2. /\ InBoxes(last, d) \in Nat /\ InBoxes(last', d) \in Nat
        /\ InBoxes(last', d) + Same(last[r], d) = InBoxes(last, d) + Same(tmp[r], d)
    BY <1>5, BoxStep
  <2>3. Same(Nil, d) = 0 /\ Same(copy', d) = Same(copy, d) /\ Same(x, d) = Same(last[r], d)
    BY <1>0, <1>1, <1>5 DEF Same
  <2>4. Same(copy, d) \in Nat /\ Same(tmp[r], d) \in Nat /\ Same(last[r], d) \in Nat
    BY DEF Same
  <2> QED  BY <2>1, <2>2, <2>3, <2>4, HoldsIs
<1>7. CopiesInv' /\ refs' \in [Copy -> Int] /\ dead' \subseteq Copy
  <2>1. StmTypeOK /\ CopiesInv
    BY DEF ObjectsInv
  <2> QED  BY <1>4, <1>6, <2>1, ReleaseKeeps
<1>8. fault' \subseteq {"left"}
  BY <1>1 DEF ObjectsInv
<1> QED  BY <1>1, <1>3, <1>5, <1>7, <1>8, ReaderStays

(* stm_releasereader: the reader gives up the object. *)
LEMMA ReleasingKeeps == ASSUME ObjectsInv, NEW r \in Reader, Releasing(r) PROVE ObjectsInv'
<1>0. Writer \in Service /\ Writer \notin Reader /\ Service = Reader \cup {Writer} /\ StmTypeOK /\ Boxes /\ Hands
  BY Finite DEF Service, ObjectsInv
<1>1. /\ place[r] = "releasing" /\ reference' = reference - 1 /\ Touch(r) /\ UNCHANGED <<copy, refs, dead, tmp, box, last>>
      /\ \/ reference = 1 /\ freed' = TRUE /\ Goto(r, "drop")
         \/ reference # 1 /\ freed' = freed /\ Goto(r, "left")
  BY DEF Releasing, At, copies, readers
<1>2. PICK p \in {"drop", "left"} : Goto(r, p)
  BY <1>1
<1>3. /\ place' \in [Service -> Places] /\ place'[r] = p /\ \A x \in Service : x # r => place'[x] = place[x]
      /\ p \in Places /\ r \in Service /\ r # Writer
  <2>1. p \in Places /\ r \in Service /\ r # Writer
    BY <1>0 DEF Places
  <2> QED  BY <1>0, <1>2, <2>1, GoesOn
<1>4. box[r] = "gone" /\ tmp[r] = Nil /\ r \in Owners
  BY <1>0, <1>1 DEF Boxes, Leaving, Hands, Owners
<1>5. Owners' = Owners \ {r}
  <2>1. \A x \in Reader : x \in Owners' <=> x \in Owners /\ x # r
    BY <1>0, <1>1, <1>3, <1>4 DEF Owners
  <2>2. Writer \in Owners' <=> Writer \in Owners
    BY <1>0, <1>3 DEF Owners, At
  <2>3. Owners \subseteq Service /\ Owners' \subseteq Service
    BY DEF Owners, Service
  <2> QED  BY <1>0, <1>3, <2>1, <2>2, <2>3
<1>6. ~freed /\ ObjectInv /\ freed \in BOOLEAN
  BY <1>0, <1>4 DEF ObjectsInv, ObjectInv, StmTypeOK
<1>7. ObjectInv' /\ reference \in Nat \ {0}
  <2>1. freed' <=> reference = 1
    BY <1>1, <1>6
  <2> QED  BY <1>1, <1>4, <1>5, <1>6, <2>1, OwnerLeaves
<1>8. fault' \subseteq {"left"}
  BY <1>1, <1>4, TouchOwned
<1>9. StmTypeOK'
  <2>1. reference' \in Int
    BY <1>1, <1>7
  <2>2. freed' \in BOOLEAN
    BY <1>1, <1>6
  <2> QED  BY <1>0, <1>1, <1>3, <2>1, <2>2 DEF StmTypeOK
<1>10. Boxes'
  <2>1. \A x \in Reader : /\ place'[x] \in {"idle"} \cup Reading \cup Leaving
                          /\ place'[x] \in Reading => box'[x] = "open"
                          /\ place'[x] \in Leaving <=> box'[x] = "gone"
                          /\ box'[x] = "promised" => place'[Writer] = "grabbed"
    BY <1>0, <1>1, <1>3, <1>4 DEF Boxes, Reading, Leaving
  <2> QED  BY <1>0, <1>3, <2>1 DEF Boxes
<1>11. Hands'
  <2>1. \A x \in Reader : tmp'[x] # Nil => place'[x] \in {"copied", "compare"}
    BY <1>0, <1>1, <1>3, <1>4 DEF Hands
  <2> QED  BY <1>0, <1>1, <1>3, <2>1 DEF Hands
<1>12. CopiesInv'
  <2>1. \A c \in Copy : Holds(c)' = Holds(c)
    BY <1>1 DEF Holds
  <2> QED  BY <1>1, <2>1, SameCopies DEF ObjectsInv, copies
<1> QED  BY <1>7, <1>8, <1>9, <1>10, <1>11, <1>12 DEF ObjectsInv

(* stm_releasereader, and then the last copy of the reader *)
LEMMA DropKeeps == ASSUME ObjectsInv, NEW r \in Reader, Drop(r) PROVE ObjectsInv'
<1>0. Writer \in Service /\ Writer \notin Reader /\ Service = Reader \cup {Writer} /\ StmTypeOK /\ Boxes /\ Hands /\ Nil \notin Copy
  BY Finite, StmAssumption DEF Service, ObjectsInv, Copy, Nil
<1>1. /\ place[r] = "drop" /\ Goto(r, "gone") /\ last' = [last EXCEPT ![r] = Nil] /\ ReleaseCopy(last[r])
      /\ UNCHANGED <<freed, reference, copy, tmp, box, fault>>
  BY DEF Drop, At, object
<1>2. r \in Service /\ tmp[r] = Nil /\ last[r] \in Copy \cup {Nil}
  BY <1>0, <1>1 DEF StmTypeOK, Hands
<1>3. /\ tmp' \in [Service -> Copy \cup {Nil}] /\ tmp'[r] = Nil /\ \A s \in Service : s # r => tmp'[s] = tmp[s]
      /\ last' \in [Reader -> Copy \cup {Nil}] /\ Replaces(Reader, last, r, Nil, last')
  BY <1>0, <1>1, <1>2 DEF StmTypeOK, Replaces
<1>4. \A d \in Copy : Holds(d)' + Same(last[r], d) = Holds(d) /\ Holds(d)' \in Nat
  <2> SUFFICES ASSUME NEW d \in Copy PROVE Holds(d)' + Same(last[r], d) = Holds(d) /\ Holds(d)' \in Nat
    OBVIOUS
  <2>1. /\ InBoxes(last, d) \in Nat /\ InBoxes(last', d) \in Nat
        /\ InBoxes(last', d) + Same(last[r], d) = InBoxes(last, d) + Same(Nil, d)
    BY <1>3, BoxStep
  <2>2. Same(Nil, d) = 0 /\ Same(copy', d) = Same(copy, d) /\ InHands(tmp', d) = InHands(tmp, d)
    BY <1>0, <1>1 DEF Same, InHands, Having
  <2>3. Same(copy, d) \in Nat /\ Same(last[r], d) \in Nat /\ InHands(tmp, d) \in Nat
    BY HoldsNat DEF Same
  <2> QED  BY <2>1, <2>2, <2>3, HoldsIs
<1>5. CopiesInv' /\ refs' \in [Copy -> Int] /\ dead' \subseteq Copy
  <2>1. StmTypeOK /\ CopiesInv
    BY DEF ObjectsInv
  <2> QED  BY <1>1, <1>2, <1>4, <2>1, ReleaseKeeps
<1>6. fault' \subseteq {"left"}
  BY <1>1 DEF ObjectsInv
<1> QED  BY <1>1, <1>3, <1>5, <1>6, ReaderStays

(* Every step keeps the counts. *)
LEMMA ObjectsNext == ObjectsInv /\ [StmNext]_stmVars => ObjectsInv'
<1> SUFFICES ASSUME ObjectsInv, [StmNext]_stmVars PROVE ObjectsInv'
  OBVIOUS
<1>1. CASE UNCHANGED stmVars
  <2>1. /\ UNCHANGED <<object, copies, tmp, last, place, box, fault>> /\ UNCHANGED <<freed, reference, copy, refs, dead>>
    BY <1>1 DEF stmVars, object, copies
  <2>2. Boxes' /\ Hands' /\ Owners' = Owners /\ StmTypeOK /\ fault' \subseteq {"left"}
    BY <2>1 DEF ObjectsInv, Boxes, Hands, Owners, At
  <2>3. place' \in [Service -> Places] /\ box' \in [Reader -> {"none", "promised", "sent", "open", "gone"}]
    BY <2>1, <2>2 DEF StmTypeOK
  <2> QED  BY <2>1, <2>2, <2>3, QuietStep
<1>2. ASSUME NEW s \in Service, ReadLock(s) \/ ReadUnlock(s) PROVE ObjectsInv'
  BY <1>2, ReadLockKeeps, ReadUnlockKeeps
<1>3. CASE WriteLock \/ Share \/ Delete
  BY <1>3, WriterKeeps
<1>4. CASE Update \/ Swap \/ Updated \/ Deleting
  BY <1>4, UpdateKeeps, SwapKeeps, UpdatedKeeps, DeletingKeeps
<1>5. ASSUME NEW r \in Reader, Grab(r) \/ NewReader(r) \/ Read(r) \/ Close(r) PROVE ObjectsInv'
  BY <1>5, GrabKeeps, ReaderKeeps
<1>6. ASSUME NEW r \in Reader, Copying(r) \/ Compare(r) \/ Releasing(r) \/ Drop(r) PROVE ObjectsInv'
  BY <1>6, CopyingKeeps, CompareKeeps, ReleasingKeeps, DropKeeps
<1> QED  BY <1>1, <1>2, <1>3, <1>4, <1>5, <1>6 DEF StmNext

(***************************************************************************)
(* The counts of lua-stm.c are exact for any number of readers and of      *)
(* updates: the last owner frees the object, and a copy is freed by the    *)
(* last who holds it, never twice and never under a reader; and nobody     *)
(* but a reader that gives back the lock touches the object once it was    *)
(* freed.                                                                  *)
(***************************************************************************)
THEOREM StmHolds == StmSpec => []StmInv
<1>1. ObjectsInv => StmInv
  <2> SUFFICES ASSUME ObjectsInv PROVE CountsExact /\ fault \subseteq {"left"}
    BY DEF StmInv
  <2>1. freed \/ At(Writer, "gone") => copy = Nil
    BY Finite DEF ObjectsInv, ObjectInv, Owners, Hands, At
  <2>2. \A c \in Copy : refs[c] # -1 => refs[c] = Holds(c) /\ (c \in dead <=> Holds(c) = 0)
    BY DEF ObjectsInv, CopiesInv, Exact
  <2> QED  BY <2>1, <2>2 DEF ObjectsInv, ObjectInv, CountsExact
<1> QED  BY <1>1, ObjectsInit, ObjectsNext, PTL DEF StmSpec
-----------------------------------------------------------------------------
(* Shared tables: the references to an object are counted exactly, and     *)
(* whoever has one hears of its update.                                    *)

Asking == [op : {"query"}, from : Client, obj : {NoObj}] \cup [op : {"confirm", "monitor"}, from : Client, obj : Object]
Answers == [to : {"app", "monitor"}, obj : 0 .. MaxObj + 1]

One(b) == IF b THEN 1 ELSE 0

(* How many messages of a mailbox are in V, and some kinds of messages *)
Occurs(s, V) == Cardinality({i \in DOMAIN s : s[i] \in V})
Confirms(o) == {m \in Asking : m.op = "confirm" /\ m.obj = o}
AsksOf(op, c) == {m \in Asking : m.op = op /\ m.from = c}
AnswersTo(co) == {m \in Answers : m.to = co}
Carrying(o) == {m \in Answers : m.obj = o}

(* The references to o that clients have, in their boxes or in answers that *)
(* they have not read                                                      *)
Held(b, s, o) == [c \in Client |-> b[c][o] + Occurs(s[c], Carrying(o))]
Pairs(f) == UNION {{c} \X (1 .. f[c]) : c \in Client}
Carriers(b, s, o) == Cardinality(Pairs(Held(b, s, o)))

SharedTypes ==
    /\ pool \in Object \cup {NoObj} /\ objmap \in [Object -> {"nil", "value", "true"}]
    /\ getref \in [Object -> Nat] /\ lost \in [Object -> Nat]
    /\ dirty \subseteq Object /\ gone \subseteq Object /\ watch \subseteq Client /\ orphans \subseteq Client
    /\ asked \in Seq(Asking) /\ inbox \in [Client -> Seq(Answers)]
    /\ obj \in [Client -> Object \cup {NoObj}] /\ update \in [Client -> Object \cup {NoObj}]
    /\ boxes \in [Client -> [Object -> Nat]] /\ cached \in [Client -> BOOLEAN]
    /\ app \in [Client -> {"idle", "query", "dead"}] /\ monitor \in [Client -> {"none", "call", "error"}]
    /\ deaths \in Nat /\ deleted \in BOOLEAN

(* The count is exact, and zero for an object that is not there yet or no  *)
(* longer.                                                                 *)
Counts(o) ==
    /\ getref[o] = One(pool = o) + Carriers(boxes, inbox, o) + Occurs(asked, Confirms(o)) + lost[o]
    /\ objmap[o] = "nil" => getref[o] = 0
    /\ o \in gone => objmap[o] = "nil"
    /\ lost[o] > 0 => deaths > 0 \/ deleted
CountInv == \A o \in Object : Counts(o)

(* A client that has ended has nothing and is sent nothing. *)
Ended(c) ==
    /\ deaths > 0 /\ inbox[c] = <<>> /\ obj[c] = NoObj /\ update[c] = NoObj
    /\ \A o \in Object : boxes[c][o] = 0
DeadInv == \A c \in Client : ~Alive(c) => Ended(c)

(* The object that a client will have after its next access *)
Latest(c) == IF update[c] = NoObj THEN obj[c] ELSE update[c]

(* Where the call of a monitor can be, and where a query *)
Monitoring(c) ==
    Occurs(asked, AsksOf("monitor", c)) + Occurs(inbox[c], AnswersTo("monitor")) + One(c \in watch)
Querying(c) == Occurs(asked, AsksOf("query", c)) + Occurs(inbox[c], AnswersTo("app"))

(* A client makes one call of each kind at a time, and the monitor asks    *)
(* about the latest object.  Its value is dirty when an update has come;   *)
(* before the first deletion, so it is when one is on its way.             *)
CallsOnce(c) ==
    /\ Querying(c) <= One(app[c] = "query") /\ (app[c] = "query" => ~cached[c])
    /\ Monitoring(c) <= One(monitor[c] = "call")
    /\ monitor[c] = "call" => cached[c] /\ (Monitoring(c) = 1 \/ c \in orphans)
AsksLatest(c) ==
    /\ c \in watch => pool = Latest(c)
    /\ \A m \in Range(asked) : m \in AsksOf("monitor", c) => m.obj = Latest(c)
    /\ update[c] # NoObj => obj[c] \in dirty
    /\ \A o \in Object : Reached(c, o) <= boxes[c][o]
    /\ monitor[c] = "error" => deleted
    /\ ~deleted => \A m \in Range(inbox[c]) :
            m \in AnswersTo("monitor") => m.obj \in Object /\ Latest(c) \in dirty
ClientInv == \A c \in Client : Alive(c) => CallsOnce(c) /\ AsksLatest(c)

(* Nobody watches when there is no object; before the first deletion there *)
(* is always one, once one is built, and every other is dirty.             *)
ChainInv ==
    /\ pool = NoObj => watch = {}
    /\ ~deleted => \A o \in Object : objmap[o] # "nil" => pool # NoObj /\ (o = pool \/ o \in dirty)

SharedIInv == SharedTypes /\ CountInv /\ DeadInv /\ ClientInv /\ ChainInv

-----------------------------------------------------------------------------
(* Counting the messages of a mailbox *)

LEMMA OccursNat ==
    ASSUME NEW S, NEW s \in Seq(S), NEW V
    PROVE  IsFiniteSet({i \in DOMAIN s : s[i] \in V}) /\ Occurs(s, V) \in Nat
<1>1. IsFiniteSet(1 .. Len(s)) /\ {i \in DOMAIN s : s[i] \in V} \subseteq 1 .. Len(s)
  BY FS_Interval
<1>2. IsFiniteSet({i \in DOMAIN s : s[i] \in V})
  BY <1>1, FS_Subset
<1> QED  BY <1>2, FS_CardinalityType DEF Occurs

LEMMA OccursAppend ==
    ASSUME NEW S, NEW s \in Seq(S), NEW m \in S, NEW V
    PROVE  Occurs(Append(s, m), V) = Occurs(s, V) + One(m \in V)
<1> DEFINE I == {i \in DOMAIN s : s[i] \in V}
           n == Len(s) + 1
           J == {i \in DOMAIN Append(s, m) : Append(s, m)[i] \in V}
<1>1. /\ DOMAIN s = 1 .. Len(s) /\ DOMAIN Append(s, m) = 1 .. n /\ Len(s) \in Nat
      /\ Append(s, m)[n] = m /\ \A i \in 1 .. Len(s) : Append(s, m)[i] = s[i]
  OBVIOUS
<1>2. IsFiniteSet(I) /\ Cardinality(I) \in Nat /\ n \notin I
  <2>1. IsFiniteSet(I)
    BY OccursNat
  <2>2. n \notin I
    BY <1>1
  <2> HIDE DEF I
  <2> QED  BY <2>1, <2>2, FS_CardinalityType
<1>3. J = IF m \in V THEN I \cup {n} ELSE I
  BY <1>1
<1> HIDE DEF I, J, n
<1>4. Cardinality(J) = Cardinality(I) + One(m \in V)
  <2>1. Cardinality(I \cup {n}) = Cardinality(I) + 1
    BY <1>2, FS_AddElement
  <2>2. CASE m \in V
    BY <1>3, <2>1, <2>2 DEF One
  <2>3. CASE m \notin V
    BY <1>2, <1>3, <2>3 DEF One
  <2> QED  BY <2>2, <2>3
<1> QED  BY <1>4 DEF Occurs, I, J

LEMMA OccursTail ==
    ASSUME NEW S, NEW s \in Seq(S), s # <<>>, NEW V
    PROVE  /\ Occurs(Tail(s), V) \in Nat
           /\ Occurs(s, V) = Occurs(Tail(s), V) + One(Head(s) \in V)
<1> DEFINE I == {i \in DOMAIN s : s[i] \in V}
           J == {i \in DOMAIN Tail(s) : Tail(s)[i] \in V}
           F == [i \in J |-> i + 1]
<1>1. /\ DOMAIN s = 1 .. Len(s) /\ DOMAIN Tail(s) = 1 .. Len(s) - 1 /\ Len(s) \in Nat \ {0}
      /\ Head(s) = s[1] /\ \A i \in 1 .. Len(s) - 1 : Tail(s)[i] = s[i + 1]
      /\ Tail(s) \in Seq(S)
  OBVIOUS
<1>2. IsFiniteSet(I) /\ Cardinality(I) \in Nat /\ IsFiniteSet(J) /\ Occurs(Tail(s), V) \in Nat
  BY <1>1, OccursNat DEF Occurs
<1>3. ExistsBijection(J, I \ {1})
  <2>1. \A i \in J : i \in Nat /\ F[i] = i + 1 /\ i + 1 \in I \ {1}
    BY <1>1
  <2>2. F \in [J -> I \ {1}] /\ \A i, j \in J : F[i] = F[j] => i = j
    BY <2>1
  <2>3. ASSUME NEW k \in I \ {1} PROVE \E i \in J : F[i] = k
    <3>1. k - 1 \in J /\ (k - 1) + 1 = k
      BY <1>1
    <3> QED  BY <3>1
  <2> HIDE DEF F, I, J
  <2>4. F \in Bijection(J, I \ {1})
    BY <2>2, <2>3, Fun_IsBij
  <2> QED  BY <2>4 DEF ExistsBijection
<1>4. Cardinality(J) = Cardinality(I \ {1})
  BY <1>2, <1>3, FS_Bijection
<1>5. 1 \in I <=> Head(s) \in V
  BY <1>1
<1> HIDE DEF I, J, F
<1>6. Cardinality(I) = Cardinality(J) + One(Head(s) \in V)
  <2>1. Cardinality(I \ {1}) = IF 1 \in I THEN Cardinality(I) - 1 ELSE Cardinality(I)
    BY <1>2, FS_RemoveElement
  <2>2. CASE Head(s) \in V
    BY <1>2, <1>4, <1>5, <2>1, <2>2 DEF One
  <2>3. CASE Head(s) \notin V
    BY <1>2, <1>4, <1>5, <2>1, <2>3 DEF One
  <2> QED  BY <2>2, <2>3
<1> QED  BY <1>2, <1>6 DEF Occurs, I, J

LEMMA OccursTwo ==
    ASSUME NEW S, NEW s \in Seq(S), NEW m \in S, NEW n \in S, NEW V
    PROVE  /\ s \o <<m, n>> \in Seq(S)
           /\ Occurs(s \o <<m, n>>, V) = Occurs(s, V) + One(m \in V) + One(n \in V)
<1>1. s \o <<m, n>> = Append(Append(s, m), n) /\ Append(s, m) \in Seq(S)
  OBVIOUS
<1>2. Occurs(Append(s, m), V) = Occurs(s, V) + One(m \in V)
  BY OccursAppend
<1>3. Occurs(Append(Append(s, m), n), V) = Occurs(Append(s, m), V) + One(n \in V)
  BY <1>1, OccursAppend
<1>4. Append(Append(s, m), n) \in Seq(S)
  BY <1>1
<1> QED  BY <1>1, <1>2, <1>3, <1>4

(* None is in V, or some is. *)
LEMMA OccursSome ==
    ASSUME NEW S, NEW s \in Seq(S), NEW V
    PROVE  Occurs(s, V) = 0 <=> \A i \in DOMAIN s : s[i] \notin V
<1>1. IsFiniteSet({i \in DOMAIN s : s[i] \in V})
  BY OccursNat
<1> QED  BY <1>1, FS_EmptySet DEF Occurs

-----------------------------------------------------------------------------
(* Adding up over the clients: f as a set of pairs *)

Rest(f, c) == UNION {{x} \X (1 .. f[x]) : x \in Client \ {c}}

LEMMA PairsFinite ==
    ASSUME NEW f \in [Client -> Nat]
    PROVE  IsFiniteSet(Pairs(f)) /\ Cardinality(Pairs(f)) \in Nat
<1> DEFINE F == [c \in Client |-> {c} \X (1 .. f[c])]
           S == {{c} \X (1 .. f[c]) : c \in Client}
<1>1. F \in [Client -> S] /\ \A x \in S : \E c \in Client : F[c] = x
  OBVIOUS
<1>2. ASSUME NEW x \in S PROVE IsFiniteSet(x)
  <2>1. PICK c \in Client : x = {c} \X (1 .. f[c])
    OBVIOUS
  <2>2. IsFiniteSet({c}) /\ IsFiniteSet(1 .. f[c])
    <3>1. f[c] \in Int /\ 1 \in Int
      OBVIOUS
    <3>2. IsFiniteSet(1 .. f[c])
      BY <3>1, FS_Interval
    <3> QED  BY <3>2, FS_Singleton
  <2> QED  BY <2>1, <2>2, FS_Product
<1> HIDE DEF F, S
<1>3. F \in Surjection(Client, S)
  BY <1>1, Fun_IsSurj
<1>4. IsFiniteSet(S)
  BY <1>3, SharedAssumption, FS_Surjection
<1>5. IsFiniteSet(UNION S)
  BY <1>2, <1>4, FS_UNION
<1> QED  BY <1>5, FS_CardinalityType DEF Pairs, S

(* One client's share, and that of the others *)
LEMMA PairsRest ==
    ASSUME NEW f \in [Client -> Nat], NEW c \in Client
    PROVE  Cardinality(Rest(f, c)) \in Nat /\ Cardinality(Pairs(f)) = Cardinality(Rest(f, c)) + f[c]
<1> DEFINE A == Rest(f, c)
           B == {c} \X (1 .. f[c])
<1>1. Pairs(f) = A \cup B /\ A \cap B = {}
  BY DEF Pairs, Rest
<1>2. IsFiniteSet(Pairs(f))
  BY PairsFinite
<1> HIDE DEF A, B
<1>3. IsFiniteSet(A) /\ IsFiniteSet(B)
  BY <1>1, <1>2, FS_Subset
<1>4. Cardinality(Pairs(f)) = Cardinality(A) + Cardinality(B)
  <2>1. Cardinality(A \cup B) = Cardinality(A) + Cardinality(B) - Cardinality(A \cap B)
    BY <1>3, FS_Union
  <2>2. Cardinality(A \cap B) = 0 /\ Cardinality(A) \in Nat /\ Cardinality(B) \in Nat
    BY <1>1, <1>3, FS_EmptySet, FS_CardinalityType
  <2> QED  BY <1>1, <2>1, <2>2
<1>5. Cardinality(B) = f[c]
  <2>1. IsFiniteSet({c}) /\ Cardinality({c}) = 1 /\ IsFiniteSet(1 .. f[c]) /\ Cardinality(1 .. f[c]) = f[c]
    <3>1. f[c] \in Int /\ 1 \in Int /\ f[c] >= 0
      OBVIOUS
    <3>2. IsFiniteSet(1 .. f[c]) /\ Cardinality(1 .. f[c]) = IF 1 > f[c] THEN 0 ELSE f[c] - 1 + 1
      BY <3>1, FS_Interval
    <3>3. IsFiniteSet({c}) /\ Cardinality({c}) = 1
      BY FS_Singleton
    <3> QED  BY <3>1, <3>2, <3>3
  <2>2. Cardinality({c} \X (1 .. f[c])) = Cardinality({c}) * Cardinality(1 .. f[c])
    BY <2>1, FS_Product
  <2> QED  BY <2>1, <2>2 DEF B
<1> QED  BY <1>3, <1>4, <1>5, FS_CardinalityType DEF A

(* One client's share changes. *)
LEMMA PairsOne ==
    ASSUME NEW f \in [Client -> Nat], NEW g \in [Client -> Nat], NEW c \in Client,
           \A x \in Client : x # c => g[x] = f[x]
    PROVE  Cardinality(Pairs(g)) + f[c] = Cardinality(Pairs(f)) + g[c]
<1>1. Rest(f, c) = Rest(g, c)
  BY DEF Rest
<1> QED  BY <1>1, PairsRest

(* The shares of some clients grow by one. *)
LEMMA PairsMore ==
    ASSUME NEW f \in [Client -> Nat], NEW g \in [Client -> Nat], NEW A \in SUBSET Client,
           \A x \in Client : g[x] = f[x] + One(x \in A)
    PROVE  Cardinality(Pairs(g)) = Cardinality(Pairs(f)) + Cardinality(A) /\ Cardinality(A) \in Nat
<1> DEFINE B == {<<c, f[c] + 1>> : c \in A}
           F == [c \in A |-> <<c, f[c] + 1>>]
<1>1. F \in [A -> B] /\ (\A x, y \in A : F[x] = F[y] => x = y) /\ \A p \in B : \E c \in A : F[c] = p
  OBVIOUS
<1>2. ASSUME NEW p PROVE p \in Pairs(g) <=> p \in Pairs(f) \/ p \in B
  <2>1. p \in Pairs(g) <=> \E c \in Client : \E k \in 1 .. g[c] : p = <<c, k>>
    BY DEF Pairs
  <2>2. p \in Pairs(f) <=> \E c \in Client : \E k \in 1 .. f[c] : p = <<c, k>>
    BY DEF Pairs
  <2>3. p \in B <=> \E c \in A : p = <<c, f[c] + 1>>
    OBVIOUS
  <2>4. \A c \in Client : \A k : k \in 1 .. g[c] <=> k \in 1 .. f[c] \/ (c \in A /\ k = f[c] + 1)
    BY DEF One
  <2> HIDE DEF B
  <2> QED  BY <2>1, <2>2, <2>3, <2>4
<1>3. ASSUME NEW p \in B PROVE p \notin Pairs(f)
  <2>1. PICK c \in A : p = <<c, f[c] + 1>>
    OBVIOUS
  <2>2. p \in Pairs(f) <=> \E x \in Client : \E k \in 1 .. f[x] : p = <<x, k>>
    BY DEF Pairs
  <2> QED  BY <2>1, <2>2
<1> HIDE DEF B, F
<1>4. IsFiniteSet(A) /\ Cardinality(A) \in Nat
  BY SharedAssumption, FS_Subset, FS_CardinalityType
<1>5. ExistsBijection(A, B)
  BY <1>1, Fun_IsBij DEF ExistsBijection
<1>6. IsFiniteSet(B) /\ Cardinality(B) = Cardinality(A)
  BY <1>4, <1>5, FS_Bijection
<1>7. IsFiniteSet(Pairs(f)) /\ Cardinality(Pairs(f)) \in Nat
  BY PairsFinite
<1>8. Pairs(g) = Pairs(f) \cup B /\ Pairs(f) \cap B = {}
  BY <1>2, <1>3
<1>9. Cardinality(Pairs(f) \cup B) = Cardinality(Pairs(f)) + Cardinality(B) - Cardinality(Pairs(f) \cap B)
  BY <1>6, <1>7, FS_Union
<1>10. Cardinality(Pairs(f) \cap B) = 0
  BY <1>8, FS_EmptySet
<1> QED  BY <1>4, <1>6, <1>7, <1>8, <1>9, <1>10

-----------------------------------------------------------------------------
(* What the messages of a mailbox are after a step *)

LEMMA RangeAppend ==
    ASSUME NEW S, NEW s \in Seq(S), NEW m \in S
    PROVE  Append(s, m) \in Seq(S) /\ Range(Append(s, m)) = Range(s) \cup {m}
<1>1. /\ DOMAIN s = 1 .. Len(s) /\ DOMAIN Append(s, m) = 1 .. Len(s) + 1 /\ Len(s) \in Nat
      /\ Append(s, m)[Len(s) + 1] = m /\ \A i \in 1 .. Len(s) : Append(s, m)[i] = s[i]
      /\ Append(s, m) \in Seq(S)
  OBVIOUS
<1>2. \A i \in 1 .. Len(s) + 1 : i \in 1 .. Len(s) \/ i = Len(s) + 1
  BY <1>1
<1>3. Len(s) + 1 \in 1 .. Len(s) + 1 /\ 1 .. Len(s) \subseteq 1 .. Len(s) + 1
  BY <1>1
<1> QED  BY <1>1, <1>2, <1>3 DEF Range

LEMMA RangeTail ==
    ASSUME NEW S, NEW s \in Seq(S), s # <<>>
    PROVE  /\ Tail(s) \in Seq(S) /\ Head(s) \in S /\ Head(s) \in Range(s)
           /\ Range(Tail(s)) \subseteq Range(s)
<1>1. /\ DOMAIN s = 1 .. Len(s) /\ DOMAIN Tail(s) = 1 .. Len(s) - 1 /\ Len(s) \in Nat \ {0}
      /\ Head(s) = s[1] /\ \A i \in 1 .. Len(s) - 1 : Tail(s)[i] = s[i + 1]
      /\ Tail(s) \in Seq(S) /\ s[1] \in S
  OBVIOUS
<1>2. 1 \in 1 .. Len(s) /\ \A i \in 1 .. Len(s) - 1 : i + 1 \in 1 .. Len(s)
  BY <1>1
<1> QED  BY <1>1, <1>2 DEF Range

LEMMA RangeTwo ==
    ASSUME NEW S, NEW s \in Seq(S), NEW m \in S, NEW n \in S
    PROVE  Range(s \o <<m, n>>) = Range(s) \cup {m, n}
<1> DEFINE u == Append(s, m)
<1>1. s \o <<m, n>> = Append(u, n)
  OBVIOUS
<1>2. u \in Seq(S) /\ Range(u) = Range(s) \cup {m}
  BY RangeAppend
<1> HIDE DEF u
<1>3. Range(Append(u, n)) = Range(u) \cup {n}
  BY <1>2, RangeAppend
<1> QED  BY <1>1, <1>2, <1>3

LEMMA OccursRange ==
    ASSUME NEW S, NEW s \in Seq(S), NEW V
    PROVE  Occurs(s, V) \in Nat /\ (Occurs(s, V) = 0 <=> \A m \in Range(s) : m \notin V)
<1>1. Occurs(s, V) \in Nat /\ (Occurs(s, V) = 0 <=> \A i \in DOMAIN s : s[i] \notin V)
  BY OccursSome, OccursNat
<1>2. (\A i \in DOMAIN s : s[i] \notin V) <=> \A m \in Range(s) : m \notin V
  BY DEF Range
<1> QED  BY <1>1, <1>2

-----------------------------------------------------------------------------
(* The references that clients have *)

LEMMA HeldType ==
    ASSUME NEW b \in [Client -> [Object -> Nat]], NEW s \in [Client -> Seq(Answers)], NEW o \in Object
    PROVE  /\ Held(b, s, o) \in [Client -> Nat] /\ Carriers(b, s, o) \in Nat
           /\ \A c \in Client : /\ Held(b, s, o)[c] = b[c][o] + Occurs(s[c], Carrying(o))
                                /\ Occurs(s[c], Carrying(o)) \in Nat /\ b[c][o] \in Nat
                                /\ Held(b, s, o)[c] <= Carriers(b, s, o)
<1>1. ASSUME NEW c \in Client PROVE b[c][o] \in Nat /\ Occurs(s[c], Carrying(o)) \in Nat
  BY OccursNat
<1>2. Held(b, s, o) \in [Client -> Nat]
  BY <1>1 DEF Held
<1>3. Carriers(b, s, o) \in Nat
  BY <1>2, PairsFinite DEF Carriers
<1>4. ASSUME NEW c \in Client PROVE Held(b, s, o)[c] <= Carriers(b, s, o)
  <2> DEFINE f == Held(b, s, o)
  <2>1. f \in [Client -> Nat]
    BY <1>2
  <2> HIDE DEF f
  <2>2. Cardinality(Rest(f, c)) \in Nat /\ Cardinality(Pairs(f)) = Cardinality(Rest(f, c)) + f[c] /\ f[c] \in Nat
    BY <2>1, PairsRest
  <2>3. f[c] <= Cardinality(Pairs(f))
    BY <2>2
  <2> QED  BY <2>3 DEF f, Carriers
<1> QED  BY <1>1, <1>2, <1>3, <1>4 DEF Held

(* One client's boxes and mailbox change. *)
OneShare(b, s, d, t, o, c) ==
    Carriers(d, t, o) + b[c][o] + Occurs(s[c], Carrying(o)) = Carriers(b, s, o) + d[c][o] + Occurs(t[c], Carrying(o))

LEMMA CarriersOne ==
    ASSUME NEW b \in [Client -> [Object -> Nat]], NEW s \in [Client -> Seq(Answers)],
           NEW d \in [Client -> [Object -> Nat]], NEW t \in [Client -> Seq(Answers)],
           NEW o \in Object, NEW c \in Client,
           \A x \in Client : x # c => d[x][o] = b[x][o] /\ t[x] = s[x]
    PROVE  OneShare(b, s, d, t, o, c)
<1> DEFINE f == Held(b, s, o)
           g == Held(d, t, o)
<1>1. f \in [Client -> Nat] /\ g \in [Client -> Nat]
  BY HeldType
<1>2. \A x \in Client : x # c => g[x] = f[x]
  BY DEF Held
<1>3. Cardinality(Pairs(g)) + f[c] = Cardinality(Pairs(f)) + g[c]
  <2> HIDE DEF f, g
  <2> QED  BY <1>1, <1>2, PairsOne
<1>4. /\ f[c] = b[c][o] + Occurs(s[c], Carrying(o)) /\ b[c][o] \in Nat /\ Occurs(s[c], Carrying(o)) \in Nat
      /\ g[c] = d[c][o] + Occurs(t[c], Carrying(o)) /\ d[c][o] \in Nat /\ Occurs(t[c], Carrying(o)) \in Nat
      /\ Cardinality(Pairs(f)) = Carriers(b, s, o) /\ Carriers(b, s, o) \in Nat
      /\ Cardinality(Pairs(g)) = Carriers(d, t, o) /\ Carriers(d, t, o) \in Nat
  BY HeldType DEF Carriers
<1> HIDE DEF f, g
<1> QED  BY <1>3, <1>4 DEF OneShare

LEMMA AnswerIs ==
    ASSUME NEW co \in {"app", "monitor"}, NEW x \in 0 .. MaxObj + 1
    PROVE  /\ Answer(co, x) \in Answers
           /\ \A k \in {"app", "monitor"} : Answer(co, x) \in AnswersTo(k) <=> k = co
           /\ \A o \in Object : Answer(co, x) \in Carrying(o) <=> o = x
           /\ Answer(co, x).to = co /\ Answer(co, x).obj = x
BY DEF Answer, Answers, AnswersTo, Carrying

LEMMA AskIs ==
    ASSUME NEW op \in {"query", "confirm", "monitor"}, NEW c \in Client,
           NEW x, IF op = "query" THEN x = NoObj ELSE x \in Object
    PROVE  /\ Ask(op, c, x) \in Asking
           /\ \A k, d : Ask(op, c, x) \in AsksOf(k, d) <=> k = op /\ d = c
           /\ \A o \in Object : Ask(op, c, x) \in Confirms(o) <=> op = "confirm" /\ o = x
           /\ Ask(op, c, x).op = op /\ Ask(op, c, x).from = c /\ Ask(op, c, x).obj = x
BY DEF Ask, Asking, AsksOf, Confirms

(* What Respond does: answers are references, held by clients or lost with *)
(* them.                                                                   *)
Responded(cs, co, x) ==
    /\ inbox' \in [Client -> Seq(Answers)] /\ lost' \in [Object -> Nat] /\ Cardinality(cs) \in Nat
    /\ \A o \in Object :
          /\ Carriers(boxes, inbox', o) + lost'[o]
             = Carriers(boxes, inbox, o) + lost[o] + (IF o = x THEN Cardinality(cs) ELSE 0)
          /\ lost'[o] > 0 => lost[o] > 0 \/ \E c \in Client : ~Alive(c)
    /\ \A c \in Client :
          /\ ~(c \in cs /\ Alive(c)) => inbox'[c] = inbox[c]
          /\ c \in cs /\ Alive(c) =>
                /\ Range(inbox'[c]) = Range(inbox[c]) \cup {Answer(co, x)}
                /\ \A k \in {"app", "monitor"} :
                      Occurs(inbox'[c], AnswersTo(k)) = Occurs(inbox[c], AnswersTo(k)) + One(k = co)

LEMMA RespondIs ==
    ASSUME SharedIInv, NEW cs \in SUBSET Client, NEW co \in {"app", "monitor"}, NEW x \in 0 .. MaxObj + 1,
           Respond(cs, co, x)
    PROVE  Responded(cs, co, x)
<1> DEFINE A == {c \in cs : Alive(c)}
           D == {c \in cs : ~Alive(c)}
<1>1. /\ inbox \in [Client -> Seq(Answers)] /\ boxes \in [Client -> [Object -> Nat]] /\ lost \in [Object -> Nat]
      /\ Answer(co, x) \in Answers
  BY AnswerIs DEF SharedIInv, SharedTypes
<1>2. /\ IsFiniteSet(A) /\ IsFiniteSet(D) /\ Cardinality(A) \in Nat /\ Cardinality(D) \in Nat
      /\ Cardinality(cs) \in Nat /\ Cardinality(cs) = Cardinality(A) + Cardinality(D)
  <2>1. IsFiniteSet(cs) /\ A \subseteq cs /\ D \subseteq cs /\ cs = A \cup D /\ A \cap D = {}
    BY SharedAssumption, FS_Subset
  <2> HIDE DEF A, D
  <2>2. IsFiniteSet(A) /\ IsFiniteSet(D)
    BY <2>1, FS_Subset
  <2>3. Cardinality(A \cup D) = Cardinality(A) + Cardinality(D) - Cardinality(A \cap D)
    BY <2>2, FS_Union
  <2>4. Cardinality(A \cap D) = 0
    BY <2>1, FS_EmptySet
  <2>5. Cardinality(A) \in Nat /\ Cardinality(D) \in Nat /\ Cardinality(cs) \in Nat
    BY <2>1, <2>2, FS_CardinalityType
  <2> QED  BY <2>1, <2>2, <2>3, <2>4, <2>5
<1>3. /\ inbox' \in [Client -> Seq(Answers)]
      /\ \A c \in Client : /\ c \notin A => inbox'[c] = inbox[c]
                           /\ c \in A => inbox'[c] = Append(inbox[c], Answer(co, x))
  <2>1. \A c \in Client : inbox[c] \in Seq(Answers) /\ Append(inbox[c], Answer(co, x)) \in Seq(Answers)
    BY <1>1
  <2>2. inbox' = [c \in Client |-> IF c \in cs /\ Alive(c) THEN Append(inbox[c], Answer(co, x)) ELSE inbox[c]]
    BY DEF Respond
  <2> QED  BY <1>1, <2>1, <2>2
<1>4. lost' = IF x \in Object THEN [lost EXCEPT ![x] = @ + Cardinality(D)] ELSE lost
  BY DEF Respond
<1>5. lost' \in [Object -> Nat] /\ \A o \in Object : lost'[o] = lost[o] + (IF o = x THEN Cardinality(D) ELSE 0)
  <2> HIDE DEF D
  <2> QED  BY <1>1, <1>2, <1>4
<1>6. ASSUME NEW o \in Object
      PROVE  Carriers(boxes, inbox', o) = Carriers(boxes, inbox, o) + (IF o = x THEN Cardinality(A) ELSE 0)
  <2> DEFINE f == Held(boxes, inbox, o)
             g == Held(boxes, inbox', o)
             B == IF o = x THEN A ELSE {}
  <2>1. f \in [Client -> Nat] /\ g \in [Client -> Nat]
    BY <1>1, <1>3, HeldType
  <2>2. ASSUME NEW c \in Client PROVE g[c] = f[c] + One(c \in B)
    <3>1. /\ f[c] = boxes[c][o] + Occurs(inbox[c], Carrying(o)) /\ g[c] = boxes[c][o] + Occurs(inbox'[c], Carrying(o))
          /\ boxes[c][o] \in Nat /\ Occurs(inbox[c], Carrying(o)) \in Nat /\ inbox[c] \in Seq(Answers)
      BY <1>1, <1>3, HeldType
    <3>2. CASE c \in A
      <4>1. Occurs(inbox'[c], Carrying(o)) = Occurs(inbox[c], Carrying(o)) + One(Answer(co, x) \in Carrying(o))
        BY <1>1, <1>3, <3>1, <3>2, OccursAppend
      <4>2. Answer(co, x) \in Carrying(o) <=> c \in B
        BY <3>2, AnswerIs
      <4> HIDE DEF f, g, B
      <4> QED  BY <3>1, <4>1, <4>2 DEF One
    <3>3. CASE c \notin A
      <4>1. inbox'[c] = inbox[c] /\ c \notin B
        BY <1>3, <3>3
      <4> HIDE DEF f, g, B
      <4> QED  BY <3>1, <4>1 DEF One
    <3> QED  BY <3>2, <3>3
  <2>3. B \in SUBSET Client /\ Cardinality({}) = 0
    BY FS_EmptySet
  <2>4. Cardinality(Pairs(g)) = Cardinality(Pairs(f)) + Cardinality(B)
    <3> HIDE DEF f, g, B
    <3> QED  BY <2>1, <2>2, <2>3, PairsMore
  <2> QED  BY <2>3, <2>4 DEF Carriers
<1>7. ASSUME NEW o \in Object
      PROVE  /\ Carriers(boxes, inbox', o) + lost'[o]
                = Carriers(boxes, inbox, o) + lost[o] + (IF o = x THEN Cardinality(cs) ELSE 0)
             /\ lost'[o] > 0 => lost[o] > 0 \/ \E c \in Client : ~Alive(c)
  <2>1. Carriers(boxes, inbox, o) \in Nat
    BY <1>1, HeldType
  <2>2. Cardinality(D) > 0 => \E c \in Client : ~Alive(c)
    BY <1>2, FS_EmptySet
  <2>3. Carriers(boxes, inbox', o) = Carriers(boxes, inbox, o) + (IF o = x THEN Cardinality(A) ELSE 0)
    BY <1>6
  <2>4. lost[o] \in Nat /\ lost'[o] = lost[o] + (IF o = x THEN Cardinality(D) ELSE 0)
    BY <1>1, <1>5
  <2> HIDE DEF A, D
  <2> QED  BY <1>2, <2>1, <2>2, <2>3, <2>4
<1>8. ASSUME NEW c \in Client, c \in cs, Alive(c)
      PROVE  /\ Range(inbox'[c]) = Range(inbox[c]) \cup {Answer(co, x)}
             /\ \A k \in {"app", "monitor"} :
                   Occurs(inbox'[c], AnswersTo(k)) = Occurs(inbox[c], AnswersTo(k)) + One(k = co)
  <2>1. inbox'[c] = Append(inbox[c], Answer(co, x)) /\ inbox[c] \in Seq(Answers)
    BY <1>1, <1>3, <1>8
  <2>2. \A k \in {"app", "monitor"} : Answer(co, x) \in AnswersTo(k) <=> k = co
    BY AnswerIs
  <2> QED  BY <1>1, <2>1, <2>2, RangeAppend, OccursAppend DEF One
<1> HIDE DEF A, D
<1>9. \A c \in Client : ~(c \in cs /\ Alive(c)) => inbox'[c] = inbox[c]
  BY <1>3 DEF A
<1> QED  BY <1>2, <1>3, <1>5, <1>7, <1>8, <1>9 DEF Responded

-----------------------------------------------------------------------------
(* What the invariant says of one object and of one client *)

LEMMA ReachedBy ==
    ASSUME NEW x, NEW y, NEW o
    PROVE  Cardinality({v \in {"obj", "update"} : (v = "obj" /\ x = o) \/ (v = "update" /\ y = o)})
           = One(x = o) + One(y = o)
<1> DEFINE R == {v \in {"obj", "update"} : (v = "obj" /\ x = o) \/ (v = "update" /\ y = o)}
<1>1. /\ Cardinality({}) = 0 /\ Cardinality({"obj"}) = 1 /\ Cardinality({"update"}) = 1
      /\ Cardinality({"obj"} \cup {"update"}) = 2
  <2>1. IsFiniteSet({"obj"}) /\ Cardinality({"obj"}) = 1 /\ Cardinality({"update"}) = 1 /\ Cardinality({}) = 0
    BY FS_EmptySet, FS_Singleton
  <2>2. "update" \notin {"obj"}
    OBVIOUS
  <2>3. Cardinality({"obj"} \cup {"update"}) = Cardinality({"obj"}) + 1
    BY <2>1, <2>2, FS_AddElement
  <2> QED  BY <2>1, <2>3
<1>2. R = (IF x = o THEN {"obj"} ELSE {}) \cup (IF y = o THEN {"update"} ELSE {})
  OBVIOUS
<1> HIDE DEF R
<1>3. CASE x = o /\ y = o
  BY <1>1, <1>2, <1>3 DEF One
<1>4. CASE x = o /\ y # o
  BY <1>1, <1>2, <1>4 DEF One
<1>5. CASE x # o /\ y = o
  BY <1>1, <1>2, <1>5 DEF One
<1>6. CASE x # o /\ y # o
  BY <1>1, <1>2, <1>6 DEF One
<1> QED  BY <1>3, <1>4, <1>5, <1>6

LEMMA ReachedIs ==
    ASSUME NEW c \in Client, NEW o \in Object
    PROVE  /\ Reached(c, o) = One(obj[c] = o) + One(update[c] = o)
           /\ Reached(c, o)' = One(obj'[c] = o) + One(update'[c] = o)
<1>1. Reached(c, o) = One(obj[c] = o) + One(update[c] = o)
  <2> DEFINE x == obj[c]
             y == update[c]
  <2>1. Reached(c, o) = Cardinality({v \in {"obj", "update"} : (v = "obj" /\ x = o) \/ (v = "update" /\ y = o)})
    BY DEF Reached
  <2> HIDE DEF x, y
  <2>2. Reached(c, o) = One(x = o) + One(y = o)
    BY <2>1, ReachedBy
  <2> QED  BY <2>2 DEF x, y
<1>2. Reached(c, o)' = One(obj'[c] = o) + One(update'[c] = o)
  <2> DEFINE x == obj'[c]
             y == update'[c]
  <2>1. Reached(c, o)' = Cardinality({v \in {"obj", "update"} : (v = "obj" /\ x = o) \/ (v = "update" /\ y = o)})
    BY DEF Reached
  <2> HIDE DEF x, y
  <2>2. Reached(c, o)' = One(x = o) + One(y = o)
    BY <2>1, ReachedBy
  <2> QED  BY <2>2 DEF x, y
<1> QED  BY <1>1, <1>2

(* Whatever refers to an object is counted, so the object is there.        *)
LEMMA ObjectFacts ==
    ASSUME SharedIInv, NEW o \in Object
    PROVE  /\ getref[o] \in Nat /\ lost[o] \in Nat /\ Carriers(boxes, inbox, o) \in Nat
           /\ Occurs(asked, Confirms(o)) \in Nat
           /\ getref[o] = One(pool = o) + Carriers(boxes, inbox, o) + Occurs(asked, Confirms(o)) + lost[o]
           /\ \A c \in Client : /\ boxes[c][o] \in Nat /\ Occurs(inbox[c], Carrying(o)) \in Nat
                                /\ boxes[c][o] + Occurs(inbox[c], Carrying(o)) <= Carriers(boxes, inbox, o)
                                /\ boxes[c][o] > 0 => objmap[o] # "nil"
                                /\ \A m \in Range(inbox[c]) : m.obj = o => objmap[o] # "nil"
           /\ \A m \in Range(asked) : m.op = "confirm" /\ m.obj = o => objmap[o] # "nil"
           /\ pool = o => objmap[o] # "nil"
<1>1. /\ getref \in [Object -> Nat] /\ lost \in [Object -> Nat] /\ asked \in Seq(Asking)
      /\ boxes \in [Client -> [Object -> Nat]] /\ inbox \in [Client -> Seq(Answers)]
  BY DEF SharedIInv, SharedTypes
<1>2. /\ getref[o] = One(pool = o) + Carriers(boxes, inbox, o) + Occurs(asked, Confirms(o)) + lost[o]
      /\ objmap[o] = "nil" => getref[o] = 0
  BY DEF SharedIInv, CountInv, Counts
<1>3. Carriers(boxes, inbox, o) \in Nat /\ getref[o] \in Nat /\ lost[o] \in Nat /\ One(pool = o) \in Nat
  BY <1>1, HeldType DEF One
<1>4. Occurs(asked, Confirms(o)) \in Nat /\ (Occurs(asked, Confirms(o)) = 0 => \A m \in Range(asked) : m \notin Confirms(o))
  BY <1>1, OccursRange
<1>5. Range(asked) \subseteq Asking
  BY <1>1 DEF Range
<1>6. ASSUME NEW c \in Client
      PROVE  /\ boxes[c][o] \in Nat /\ Occurs(inbox[c], Carrying(o)) \in Nat
             /\ boxes[c][o] + Occurs(inbox[c], Carrying(o)) <= Carriers(boxes, inbox, o)
             /\ boxes[c][o] > 0 => objmap[o] # "nil"
             /\ \A m \in Range(inbox[c]) : m.obj = o => objmap[o] # "nil"
  <2>1. /\ boxes[c][o] \in Nat /\ Occurs(inbox[c], Carrying(o)) \in Nat
        /\ Held(boxes, inbox, o)[c] = boxes[c][o] + Occurs(inbox[c], Carrying(o))
        /\ Held(boxes, inbox, o)[c] <= Carriers(boxes, inbox, o)
    BY <1>1, HeldType
  <2>2. inbox[c] \in Seq(Answers) /\ Range(inbox[c]) \subseteq Answers
    BY <1>1 DEF Range
  <2>3. Occurs(inbox[c], Carrying(o)) = 0 => \A m \in Range(inbox[c]) : m \notin Carrying(o)
    BY <2>2, OccursRange
  <2>4. \A m \in Range(inbox[c]) : m.obj = o => Occurs(inbox[c], Carrying(o)) # 0
    BY <2>2, <2>3 DEF Carrying
  <2> QED  BY <1>2, <1>3, <1>4, <2>1, <2>4
<1>7. \A m \in Range(asked) : m.op = "confirm" /\ m.obj = o => objmap[o] # "nil"
  <2>1. \A m \in Range(asked) : m.op = "confirm" /\ m.obj = o => Occurs(asked, Confirms(o)) # 0
    BY <1>4, <1>5 DEF Confirms
  <2>2. objmap[o] = "nil" => Occurs(asked, Confirms(o)) = 0
    BY <1>2, <1>3, <1>4
  <2> QED  BY <2>1, <2>2
<1>8. pool = o => objmap[o] # "nil"
  BY <1>2, <1>3, <1>4 DEF One
<1> QED  BY <1>1, <1>2, <1>3, <1>4, <1>6, <1>7, <1>8

LEMMA ClientFacts ==
    ASSUME SharedIInv, NEW c \in Client
    PROVE  /\ Occurs(asked, AsksOf("query", c)) \in Nat /\ Occurs(asked, AsksOf("monitor", c)) \in Nat
           /\ Occurs(inbox[c], AnswersTo("app")) \in Nat /\ Occurs(inbox[c], AnswersTo("monitor")) \in Nat
           /\ Occurs(asked, AsksOf("monitor", c)) = 0 => \A m \in Range(asked) : m \notin AsksOf("monitor", c)
           /\ inbox[c] \in Seq(Answers) /\ Range(inbox[c]) \subseteq Answers /\ Range(asked) \subseteq Asking
<1>1. inbox[c] \in Seq(Answers) /\ asked \in Seq(Asking)
  BY DEF SharedIInv, SharedTypes
<1>2. Range(inbox[c]) \subseteq Answers /\ Range(asked) \subseteq Asking
  BY <1>1 DEF Range
<1>3. ASSUME NEW V PROVE /\ Occurs(inbox[c], V) \in Nat /\ Occurs(asked, V) \in Nat
                         /\ Occurs(asked, V) = 0 => \A m \in Range(asked) : m \notin V
  BY <1>1, OccursRange
<1> QED  BY <1>1, <1>2, <1>3

(* A client that a step leaves alone, except for more boxes, or fewer that  *)
(* it does not use                                                         *)
LeftAlone(c) ==
    /\ obj'[c] = obj[c] /\ update'[c] = update[c] /\ cached'[c] = cached[c]
    /\ app'[c] = app[c] /\ monitor'[c] = monitor[c] /\ inbox'[c] = inbox[c]
    /\ \A o \in Object : boxes'[c][o] \in Nat /\ (boxes'[c][o] >= boxes[c][o] \/ boxes'[c][o] >= Reached(c, o))
    /\ \A op \in {"query", "monitor"} : Occurs(asked', AsksOf(op, c)) = Occurs(asked, AsksOf(op, c))
    /\ \A m \in Range(asked') : m \in Range(asked) \/ m \notin AsksOf("monitor", c)
    /\ pool' = pool \/ c \notin watch
    /\ c \in watch' <=> c \in watch
    /\ orphans \subseteq orphans' /\ dirty \subseteq dirty' /\ (deleted => deleted')

LEMMA ClientKept ==
    ASSUME SharedIInv, NEW c \in Client, LeftAlone(c)
    PROVE  Alive(c)' => CallsOnce(c)' /\ AsksLatest(c)'
<1> USE DEF LeftAlone
<1> SUFFICES ASSUME Alive(c)' PROVE CallsOnce(c)' /\ AsksLatest(c)'
  OBVIOUS
<1>0. CallsOnce(c) /\ AsksLatest(c)
  BY DEF SharedIInv, ClientInv, Alive
<1>2. Querying(c)' = Querying(c) /\ Monitoring(c)' = Monitoring(c) /\ Latest(c)' = Latest(c)
  BY DEF Querying, Monitoring, Latest
<1>3. \A o \in Object : Reached(c, o)' = Reached(c, o) /\ Reached(c, o) \in Nat /\ boxes[c][o] \in Nat
  <2>1. \A o \in Object : Reached(c, o)' = Reached(c, o)
    BY DEF Reached
  <2>2. \A o \in Object : Reached(c, o) \in Nat
    BY ReachedIs DEF One
  <2> QED  BY <2>1, <2>2, ObjectFacts
<1>4. CallsOnce(c) => CallsOnce(c)'
  BY <1>2 DEF CallsOnce
<1>5. AsksLatest(c) => AsksLatest(c)'
  <2> SUFFICES ASSUME AsksLatest(c) PROVE AsksLatest(c)'
    OBVIOUS
  <2>1. \A o \in Object : Reached(c, o)' <= boxes'[c][o]
    BY <1>3 DEF AsksLatest
  <2>2. \A m \in Range(asked') : m \in AsksOf("monitor", c) => m.obj = Latest(c)'
    BY <1>2 DEF AsksLatest
  <2>3. /\ c \in watch' => pool' = Latest(c)'
        /\ update'[c] # NoObj => obj'[c] \in dirty'
        /\ monitor'[c] = "error" => deleted'
    BY <1>2 DEF AsksLatest
  <2>4. ~deleted' => \A m \in Range(inbox'[c]) :
            m \in AnswersTo("monitor") => m.obj \in Object /\ Latest(c)' \in dirty'
    BY <1>2 DEF AsksLatest
  <2> QED  BY <2>1, <2>2, <2>3, <2>4 DEF AsksLatest
<1> QED  BY <1>0, <1>4, <1>5

-----------------------------------------------------------------------------
(* The handlers of sharedatad *)

LEMMA NoObjIs == /\ NoObj \notin Object /\ NoObj \in 0 .. MaxObj + 1
                 /\ Failed \notin Object /\ Failed \in 0 .. MaxObj + 1 /\ Failed # NoObj
                 /\ \A o \in Object : o \in 0 .. MaxObj + 1
BY SharedAssumption DEF NoObj, Failed, Object

LEMMA SharedInitHolds == SharedInit => SharedIInv
<1> SUFFICES ASSUME SharedInit PROVE SharedIInv
  OBVIOUS
<1>1. SharedTypes
  <2>1. [o \in Object |-> 0] \in [Object -> Nat] /\ <<>> \in Seq(Asking) /\ <<>> \in Seq(Answers)
    OBVIOUS
  <2>2. /\ inbox \in [Client -> Seq(Answers)] /\ boxes \in [Client -> [Object -> Nat]]
        /\ getref \in [Object -> Nat] /\ lost \in [Object -> Nat] /\ asked \in Seq(Asking)
    BY <2>1 DEF SharedInit
  <2> QED  BY <2>2 DEF SharedInit, SharedTypes
<1>2. \A V : Occurs(<<>>, V) = 0
  <2>1. \A V : {i \in DOMAIN <<>> : <<>>[i] \in V} = {}
    OBVIOUS
  <2> QED  BY <2>1, FS_EmptySet DEF Occurs
<1>3. ASSUME NEW o \in Object PROVE Carriers(boxes, inbox, o) = 0
  <2>1. \A c \in Client : Held(boxes, inbox, o)[c] = 0
    BY <1>2 DEF Held, SharedInit
  <2>2. Pairs(Held(boxes, inbox, o)) = {}
    BY <2>1 DEF Pairs
  <2> QED  BY <2>2, FS_EmptySet DEF Carriers
<1>4. CountInv
  <2> SUFFICES ASSUME NEW o \in Object
               PROVE  Counts(o)
    BY DEF CountInv
  <2>1. pool # o /\ getref[o] = 0 /\ lost[o] = 0 /\ gone = {}
    BY DEF SharedInit, Object, NoObj
  <2>2. Occurs(asked, Confirms(o)) = 0
    BY <1>2 DEF SharedInit
  <2>3. Carriers(boxes, inbox, o) = 0
    BY <1>3
  <2> QED  BY <2>1, <2>2, <2>3 DEF Counts, One
<1>5. Range(asked) = {} /\ \A c \in Client : Range(inbox[c]) = {}
  BY DEF SharedInit, Range
<1>6. ASSUME NEW c \in Client PROVE CallsOnce(c) /\ AsksLatest(c)
  <2>1. CallsOnce(c)
    BY <1>2 DEF CallsOnce, Querying, Monitoring, SharedInit, One
  <2>2. \A o \in Object : Reached(c, o) = 0 /\ boxes[c][o] = 0
    BY ReachedIs DEF SharedInit, One, Object, NoObj
  <2>3. AsksLatest(c)
    BY <1>5, <2>2 DEF AsksLatest, SharedInit
  <2> QED  BY <2>1, <2>3
<1>7. DeadInv
  BY DEF DeadInv, Ended, Alive, SharedInit
<1>8. ChainInv
  BY DEF ChainInv, SharedInit
<1> QED  BY <1>1, <1>4, <1>6, <1>7, <1>8 DEF SharedIInv, ClientInv

LEMMA NewKeeps == ASSUME SharedIInv, New PROVE SharedIInv'
<1> USE DEF value, history, bounds
<1>1. PICK o \in Object : /\ Built(o) /\ pool' = o /\ objmap' = [objmap EXCEPT ![o] = "value"]
                          /\ getref' = [getref EXCEPT ![o] = 1]
  BY DEF New
<1>2. /\ pool = NoObj /\ watch' = {} /\ watch = {} /\ objmap[o] = "nil" /\ o \notin gone /\ NoObj \notin Object
      /\ asked' = asked /\ inbox' = inbox /\ boxes' = boxes /\ lost' = lost /\ gone' = gone /\ dirty' = dirty
      /\ deleted' = deleted /\ deaths' = deaths
  BY <1>1 DEF New, Built, Unused, SharedIInv, ChainInv, NoObj, Object
<1>3. SharedTypes'
  BY <1>1 DEF New, SharedIInv, SharedTypes
<1>4. CountInv'
  <2> SUFFICES ASSUME NEW p \in Object
               PROVE  Counts(p)'
    BY DEF CountInv
  <2>1. Counts(p)
    BY DEF SharedIInv, CountInv
  <2>2. getref[p] \in Nat /\ lost[p] \in Nat /\ Carriers(boxes, inbox, p) \in Nat /\ Occurs(asked, Confirms(p)) \in Nat
    BY ObjectFacts
  <2>3. getref \in [Object -> Nat] /\ objmap \in [Object -> {"nil", "value", "true"}]
    BY DEF SharedIInv, SharedTypes
  <2> QED  BY <1>1, <1>2, <2>1, <2>2, <2>3 DEF Counts, One
<1>5. DeadInv'
  BY DEF New, SharedIInv, DeadInv, Ended, Alive
<1>6. ClientInv'
  <2> SUFFICES ASSUME NEW c \in Client PROVE Alive(c)' => CallsOnce(c)' /\ AsksLatest(c)'
    BY DEF ClientInv
  <2>1. \A p \in Object : boxes[c][p] \in Nat
    BY ObjectFacts
  <2>2. LeftAlone(c)
    BY <1>2, <2>1 DEF LeftAlone, New
  <2> QED  BY <2>2, ClientKept
<1>7. ChainInv'
  <2>1. objmap \in [Object -> {"nil", "value", "true"}]
    BY DEF SharedIInv, SharedTypes
  <2> QED  BY <1>1, <1>2, <2>1 DEF SharedIInv, ChainInv
<1> QED  BY <1>3, <1>4, <1>5, <1>6, <1>7 DEF SharedIInv

(* A watcher is told. *)
LEMMA WatcherTold ==
    ASSUME SharedIInv, NEW c \in watch, Alive(c), NEW x \in 0 .. MaxObj + 1, Respond(watch, "monitor", x), watch' = {},
           UNCHANGED <<asked, value, boxes, app, monitor, orphans>>,
           deleted' \/ (x \in Object /\ pool \in dirty' /\ dirty \subseteq dirty' /\ deleted' = deleted),
           dirty \subseteq dirty'
    PROVE  CallsOnce(c)' /\ AsksLatest(c)'
<1> USE DEF value
<1>1. c \in Client /\ watch \in SUBSET Client
  BY DEF SharedIInv, SharedTypes
<1>2. CallsOnce(c) /\ AsksLatest(c)
  BY <1>1 DEF SharedIInv, ClientInv
<1>3. /\ Range(inbox'[c]) = Range(inbox[c]) \cup {Answer("monitor", x)}
      /\ Occurs(inbox'[c], AnswersTo("app")) = Occurs(inbox[c], AnswersTo("app")) + One("app" = "monitor")
      /\ Occurs(inbox'[c], AnswersTo("monitor")) = Occurs(inbox[c], AnswersTo("monitor")) + One("monitor" = "monitor")
  <2>1. Responded(watch, "monitor", x)
    BY <1>1, RespondIs
  <2> QED  BY <1>1, <2>1 DEF Responded
<1>4. /\ Occurs(inbox[c], AnswersTo("app")) \in Nat /\ Occurs(inbox[c], AnswersTo("monitor")) \in Nat
      /\ Occurs(asked, AsksOf("query", c)) \in Nat /\ Occurs(asked, AsksOf("monitor", c)) \in Nat
  BY <1>1, ClientFacts
<1>5. Querying(c)' = Querying(c) /\ Monitoring(c)' = Monitoring(c) /\ Latest(c)' = Latest(c)
  BY <1>1, <1>3, <1>4 DEF Querying, Monitoring, Latest, One
<1>6. CallsOnce(c)'
  BY <1>2, <1>5 DEF CallsOnce
<1>7. \A o \in Object : Reached(c, o)' = Reached(c, o)
  BY DEF Reached
<1>8. Answer("monitor", x).obj = x
  BY AnswerIs
<1>9. ~deleted' => \A m \in Range(inbox'[c]) :
            m \in AnswersTo("monitor") => m.obj \in Object /\ Latest(c)' \in dirty'
  BY <1>2, <1>3, <1>5, <1>8 DEF AsksLatest
<1>10. AsksLatest(c)'
  BY <1>2, <1>5, <1>7, <1>9 DEF AsksLatest
<1> QED  BY <1>6, <1>10

LEMMA DeleteKeeps == ASSUME SharedIInv, DeleteObject PROVE SharedIInv'
<1> USE DEF value, history, bounds
<1>1. /\ pool # NoObj /\ pool' = NoObj /\ watch' = {} /\ deleted'
      /\ objmap' = [objmap EXCEPT ![pool] = "true"] /\ getref' = [getref EXCEPT ![pool] = @ - 1]
      /\ Respond(watch, "monitor", NoObj)
      /\ UNCHANGED <<dirty, gone, asked, value, boxes, app, monitor, orphans, bounds>>
  BY DEF DeleteObject
<1>2. /\ pool \in Object /\ NoObj \notin Object /\ NoObj \in 0 .. MaxObj + 1 /\ watch \in SUBSET Client
      /\ getref \in [Object -> Nat] /\ objmap \in [Object -> {"nil", "value", "true"}]
  BY <1>1, NoObjIs DEF SharedIInv, SharedTypes
<1>3. /\ inbox' \in [Client -> Seq(Answers)] /\ lost' \in [Object -> Nat]
      /\ \A p \in Object :
            /\ Carriers(boxes, inbox', p) + lost'[p] = Carriers(boxes, inbox, p) + lost[p]
            /\ lost'[p] > 0 => lost[p] > 0 \/ \E c \in Client : ~Alive(c)
      /\ \A c \in Client : ~(c \in watch /\ Alive(c)) => inbox'[c] = inbox[c]
  <2>1. Responded(watch, "monitor", NoObj)
    BY <1>1, <1>2, RespondIs
  <2>2. \A p \in Object : Carriers(boxes, inbox, p) \in Nat /\ lost[p] \in Nat
    BY ObjectFacts
  <2>3. ASSUME NEW p \in Object
        PROVE  Carriers(boxes, inbox', p) + lost'[p] = Carriers(boxes, inbox, p) + lost[p]
    <3>1. p # NoObj
      BY <1>2
    <3> QED  BY <2>1, <2>2, <3>1 DEF Responded
  <2> QED  BY <2>1, <2>3 DEF Responded
<1>4. SharedTypes'
  <2>1. getref[pool] >= 1
    BY <1>2, ObjectFacts DEF One
  <2>2. getref' \in [Object -> Nat]
    BY <1>1, <1>2, <2>1
  <2> QED  BY <1>1, <1>2, <1>3, <2>2 DEF DeleteObject, SharedIInv, SharedTypes
<1>5. CountInv'
  <2> SUFFICES ASSUME NEW p \in Object
               PROVE  Counts(p)'
    BY DEF CountInv
  <2>1. Counts(p)
    BY DEF SharedIInv, CountInv
  <2>2. /\ getref[p] \in Nat /\ lost[p] \in Nat /\ Carriers(boxes, inbox, p) \in Nat /\ Occurs(asked, Confirms(p)) \in Nat
        /\ pool = p => objmap[p] # "nil"
    BY ObjectFacts
  <2>3. Carriers(boxes, inbox', p) \in Nat /\ lost'[p] \in Nat
    <3>1. boxes \in [Client -> [Object -> Nat]]
      BY DEF SharedIInv, SharedTypes
    <3> QED  BY <1>3, <3>1, HeldType
  <2>4. Carriers(boxes, inbox', p) + lost'[p] = Carriers(boxes, inbox, p) + lost[p]
    BY <1>3
  <2> QED  BY <1>1, <1>2, <2>1, <2>2, <2>3, <2>4 DEF Counts, One
<1>6. DeadInv'
  BY <1>1, <1>3 DEF SharedIInv, DeadInv, Ended, Alive
<1>7. ClientInv'
  <2> SUFFICES ASSUME NEW c \in Client PROVE Alive(c)' => CallsOnce(c)' /\ AsksLatest(c)'
    BY DEF ClientInv
  <2>1. \A p \in Object : boxes[c][p] \in Nat
    BY ObjectFacts
  <2>2. CASE c \in watch /\ Alive(c)
    BY <1>1, <1>2, <2>2, WatcherTold
  <2>3. CASE c \notin watch
    <3>1. LeftAlone(c)
      BY <1>1, <1>3, <2>1, <2>3 DEF LeftAlone
    <3> QED  BY <3>1, ClientKept
  <2>4. CASE ~Alive(c)
    BY <1>1, <2>4 DEF Alive
  <2> QED  BY <2>2, <2>3, <2>4
<1>8. ChainInv'
  BY <1>1 DEF ChainInv
<1> QED  BY <1>4, <1>5, <1>6, <1>7, <1>8 DEF SharedIInv

LEMMA UpdateObjectKeeps == ASSUME SharedIInv, UpdateObject PROVE SharedIInv'
<1> USE DEF value, history, bounds
<1>1. PICK n \in Object :
         /\ pool # NoObj /\ watch' = {} /\ Built(n) /\ pool' = n /\ dirty' = dirty \cup {pool}
         /\ objmap' = [objmap EXCEPT ![pool] = "true", ![n] = "value"]
         /\ getref' = [getref EXCEPT ![pool] = @ - 1, ![n] = 1 + Cardinality(watch)]
         /\ Respond(watch, "monitor", n)
         /\ UNCHANGED <<gone, asked, value, boxes, app, monitor, orphans, deleted, bounds>>
  BY DEF UpdateObject
<1>2. /\ pool \in Object /\ n \in 0 .. MaxObj + 1 /\ watch \in SUBSET Client /\ n # NoObj
      /\ getref \in [Object -> Nat] /\ objmap \in [Object -> {"nil", "value", "true"}]
      /\ boxes \in [Client -> [Object -> Nat]]
  BY <1>1, NoObjIs DEF SharedIInv, SharedTypes
<1>3. objmap[n] = "nil" /\ n \notin gone /\ n # pool /\ getref[n] = 0 /\ getref[pool] >= 1
  <2>1. objmap[n] = "nil" /\ n \notin gone
    BY <1>1 DEF Built, Unused
  <2>2. objmap[pool] # "nil" /\ getref[pool] >= 1
    BY <1>2, ObjectFacts DEF One
  <2> QED  BY <2>1, <2>2 DEF SharedIInv, CountInv, Counts
<1>4. Responded(watch, "monitor", n)
  BY <1>1, <1>2, RespondIs
<1>5. /\ inbox' \in [Client -> Seq(Answers)] /\ lost' \in [Object -> Nat] /\ Cardinality(watch) \in Nat
      /\ \A c \in Client : ~(c \in watch /\ Alive(c)) => inbox'[c] = inbox[c]
  BY <1>4 DEF Responded
<1>6. SharedTypes'
  <2>1. getref' \in [Object -> Nat]
    BY <1>1, <1>2, <1>3, <1>5
  <2> QED  BY <1>1, <1>2, <1>5, <2>1 DEF SharedIInv, SharedTypes
<1>7. CountInv'
  <2> SUFFICES ASSUME NEW p \in Object PROVE Counts(p)'
    BY DEF CountInv
  <2>1. Counts(p)
    BY DEF SharedIInv, CountInv
  <2>2. /\ getref[p] \in Nat /\ lost[p] \in Nat /\ Carriers(boxes, inbox, p) \in Nat /\ Occurs(asked, Confirms(p)) \in Nat
        /\ pool = p => objmap[p] # "nil"
    BY ObjectFacts
  <2>3. Carriers(boxes, inbox', p) \in Nat /\ lost'[p] \in Nat
    BY <1>2, <1>5, HeldType
  <2>4. /\ Carriers(boxes, inbox', p) + lost'[p]
           = Carriers(boxes, inbox, p) + lost[p] + (IF p = n THEN Cardinality(watch) ELSE 0)
        /\ lost'[p] > 0 => lost[p] > 0 \/ \E c \in Client : ~Alive(c)
    BY <1>4 DEF Responded
  <2>5. lost'[p] > 0 => deaths > 0 \/ deleted
    BY <2>1, <2>4 DEF Counts, SharedIInv, DeadInv, Ended
  <2>6. /\ One(pool' = p) = One(p = n) /\ One(pool = p) \in Nat /\ asked' = asked
        /\ One(pool = p) = IF p = pool THEN 1 ELSE 0
    BY <1>1 DEF One
  <2>7. getref[p] = One(pool = p) + Carriers(boxes, inbox, p) + Occurs(asked, Confirms(p)) + lost[p]
    BY <2>1 DEF Counts
  <2>8. /\ UNCHANGED <<boxes, gone, deaths, deleted>>
        /\ objmap'[p] = "nil" => p # n /\ p # pool /\ objmap[p] = "nil"
        /\ objmap[p] = "nil" /\ p # n => objmap'[p] = "nil"
    BY <1>1, <1>2, <1>3, <2>2
  <2>9. getref'[p] = IF p = n THEN 1 + Cardinality(watch) ELSE getref[p] - One(pool = p)
    <3>1. getref' = [getref EXCEPT ![pool] = @ - 1, ![n] = 1 + Cardinality(watch)]
      BY <1>1
    <3> QED  BY <1>2, <1>3, <2>2, <2>6, <3>1
  <2>10. getref'[p] = One(pool' = p) + Carriers(boxes, inbox', p) + Occurs(asked, Confirms(p)) + lost'[p]
    <3>1. CASE p = n
      <4>1. Carriers(boxes, inbox, p) = 0 /\ Occurs(asked, Confirms(p)) = 0 /\ lost[p] = 0
        BY <1>3, <2>2, <2>6, <2>7, <3>1
      <4>2. One(pool' = p) = 1
        BY <2>6, <3>1 DEF One
      <4> QED  BY <1>5, <2>3, <2>4, <2>9, <3>1, <4>1, <4>2
    <3>2. CASE p # n
      <4>1. One(pool' = p) = 0
        BY <2>6, <3>2 DEF One
      <4>2. Carriers(boxes, inbox', p) + lost'[p] = Carriers(boxes, inbox, p) + lost[p]
        BY <2>2, <2>4, <3>2
      <4> QED  BY <2>2, <2>3, <2>6, <2>7, <2>9, <3>2, <4>1, <4>2
    <3> QED  BY <3>1, <3>2
  <2>11. objmap'[p] = "nil" => getref'[p] = 0
    BY <2>1, <2>2, <2>6, <2>8, <2>9 DEF Counts
  <2>12. p \in gone => objmap'[p] = "nil"
    BY <1>3, <2>1, <2>8 DEF Counts
  <2> QED  BY <2>5, <2>6, <2>8, <2>10, <2>11, <2>12 DEF Counts
<1>8. DeadInv'
  BY <1>1, <1>5 DEF SharedIInv, DeadInv, Ended, Alive
<1>9. ClientInv'
  <2> SUFFICES ASSUME NEW c \in Client PROVE Alive(c)' => CallsOnce(c)' /\ AsksLatest(c)'
    BY DEF ClientInv
  <2>1. \A p \in Object : boxes[c][p] \in Nat
    BY ObjectFacts
  <2>2. CASE c \in watch /\ Alive(c)
    BY <1>1, <1>2, <2>2, WatcherTold
  <2>3. CASE c \notin watch
    <3>1. LeftAlone(c)
      BY <1>1, <1>5, <2>1, <2>3 DEF LeftAlone
    <3> QED  BY <3>1, ClientKept
  <2>4. CASE ~Alive(c)
    BY <1>1, <2>4 DEF Alive
  <2> QED  BY <2>2, <2>3, <2>4
<1>10. ChainInv'
  BY <1>1, <1>2 DEF SharedIInv, ChainInv
<1> QED  BY <1>6, <1>7, <1>8, <1>9, <1>10 DEF SharedIInv

LEMMA UpdateFailsKeeps == ASSUME SharedIInv, UpdateFails PROVE SharedIInv'
<1> USE DEF value, history, bounds
<1>1. /\ pool # NoObj /\ pool' = NoObj /\ watch' = {} /\ orphans' = orphans \cup watch /\ deleted'
      /\ objmap' = [objmap EXCEPT ![pool] = "true"] /\ getref' = [getref EXCEPT ![pool] = @ - 1]
      /\ UNCHANGED <<dirty, gone, asked, inbox, value, boxes, app, monitor, lost, bounds>>
  BY DEF UpdateFails
<1>2. /\ pool \in Object /\ NoObj \notin Object
      /\ getref \in [Object -> Nat] /\ objmap \in [Object -> {"nil", "value", "true"}]
  BY <1>1, NoObjIs DEF SharedIInv, SharedTypes
<1>3. SharedTypes'
  <2>1. getref[pool] >= 1
    BY <1>2, ObjectFacts DEF One
  <2>2. getref' \in [Object -> Nat]
    BY <1>1, <1>2, <2>1
  <2> QED  BY <1>1, <1>2, <2>2 DEF UpdateFails, SharedIInv, SharedTypes
<1>4. CountInv'
  <2> SUFFICES ASSUME NEW p \in Object PROVE Counts(p)'
    BY DEF CountInv
  <2>1. Counts(p)
    BY DEF SharedIInv, CountInv
  <2>2. /\ getref[p] \in Nat /\ lost[p] \in Nat /\ Carriers(boxes, inbox, p) \in Nat /\ Occurs(asked, Confirms(p)) \in Nat
        /\ pool = p => objmap[p] # "nil"
    BY ObjectFacts
  <2> QED  BY <1>1, <1>2, <2>1, <2>2 DEF Counts, One
<1>5. DeadInv'
  BY <1>1 DEF SharedIInv, DeadInv, Ended, Alive
<1>6. ClientInv'
  <2> SUFFICES ASSUME NEW c \in Client, Alive(c)' PROVE CallsOnce(c)' /\ AsksLatest(c)'
    BY DEF ClientInv
  <2>1. \A p \in Object : boxes[c][p] \in Nat
    BY ObjectFacts
  <2>2. CASE c \in watch
    <3>1. CallsOnce(c) /\ AsksLatest(c)
      BY <1>1 DEF SharedIInv, ClientInv, Alive
    <3>2. /\ Occurs(inbox[c], AnswersTo("app")) \in Nat /\ Occurs(inbox[c], AnswersTo("monitor")) \in Nat
          /\ Occurs(asked, AsksOf("query", c)) \in Nat /\ Occurs(asked, AsksOf("monitor", c)) \in Nat
      BY ClientFacts
    <3>3. Querying(c)' = Querying(c) /\ Monitoring(c)' = Monitoring(c) - 1 /\ Latest(c)' = Latest(c) /\ Monitoring(c) \in Nat
      BY <1>1, <2>2, <3>2 DEF Querying, Monitoring, Latest, One
    <3>4. CallsOnce(c)'
      BY <1>1, <2>2, <3>1, <3>3 DEF CallsOnce, One
    <3>5. \A o \in Object : Reached(c, o)' = Reached(c, o)
      BY <1>1 DEF Reached
    <3>6. AsksLatest(c)'
      BY <1>1, <3>1, <3>3, <3>5 DEF AsksLatest
    <3> QED  BY <3>4, <3>6
  <2>3. CASE c \notin watch
    <3>1. LeftAlone(c)
      BY <1>1, <2>1, <2>3 DEF LeftAlone
    <3> QED  BY <3>1, ClientKept
  <2> QED  BY <2>2, <2>3
<1>7. ChainInv'
  BY <1>1 DEF ChainInv
<1> QED  BY <1>3, <1>4, <1>5, <1>6, <1>7 DEF SharedIInv

LEMMA CollectKeeps == ASSUME SharedIInv, NEW n \in Object, Collect(n) PROVE SharedIInv'
<1> USE DEF value, history, bounds
<1>1. /\ objmap[n] = "true" /\ getref[n] = 0 /\ objmap' = [objmap EXCEPT ![n] = "nil"] /\ gone' = gone \cup {n}
      /\ UNCHANGED <<pool, getref, dirty, watch, asked, inbox, value, boxes, app, monitor, history, bounds>>
  BY DEF Collect
<1>2. objmap \in [Object -> {"nil", "value", "true"}] /\ n # pool
  <2>1. pool = n => getref[n] >= 1
    BY ObjectFacts DEF One
  <2> QED  BY <1>1, <2>1 DEF SharedIInv, SharedTypes
<1>3. SharedTypes'
  BY <1>1 DEF SharedIInv, SharedTypes
<1>4. CountInv'
  <2> SUFFICES ASSUME NEW p \in Object PROVE Counts(p)'
    BY DEF CountInv
  <2>1. Counts(p)
    BY DEF SharedIInv, CountInv
  <2> QED  BY <1>1, <1>2, <2>1 DEF Counts
<1>5. DeadInv'
  BY <1>1 DEF SharedIInv, DeadInv, Ended, Alive
<1>6. ClientInv'
  <2> SUFFICES ASSUME NEW c \in Client PROVE Alive(c)' => CallsOnce(c)' /\ AsksLatest(c)'
    BY DEF ClientInv
  <2>1. \A p \in Object : boxes[c][p] \in Nat
    BY ObjectFacts
  <2>2. LeftAlone(c)
    BY <1>1, <2>1 DEF LeftAlone
  <2> QED  BY <2>2, ClientKept
<1>7. ChainInv'
  BY <1>1, <1>2 DEF SharedIInv, ChainInv
<1> QED  BY <1>3, <1>4, <1>5, <1>6, <1>7 DEF SharedIInv

(* A message is taken from the mailbox of sharedatad. *)
LEMMA TakeIs ==
    ASSUME SharedIInv, Take
    PROVE  /\ Head(asked) \in Asking /\ Head(asked) \in Range(asked) /\ asked' \in Seq(Asking)
           /\ Range(asked') \subseteq Range(asked)
           /\ \A V : /\ Occurs(asked', V) \in Nat /\ Occurs(asked, V) \in Nat
                     /\ Occurs(asked, V) = Occurs(asked', V) + One(Head(asked) \in V)
<1>1. asked \in Seq(Asking) /\ asked # <<>> /\ asked' = Tail(asked)
  BY DEF SharedIInv, SharedTypes, Take
<1>2. \A V : Occurs(asked, V) \in Nat
  BY <1>1, OccursNat
<1> QED  BY <1>1, <1>2, RangeTail, OccursTail

(* A query is answered, or a monitor that does not have the latest object. *)
AnswersLatest(m, co) ==
    LET x == IF pool = NoObj THEN Failed ELSE pool IN
    /\ Take /\ m = Head(asked) /\ Respond({m.from}, co, x)
    /\ getref' = IF pool = NoObj THEN getref ELSE [getref EXCEPT ![pool] = @ + 1]
    /\ UNCHANGED <<pool, objmap, dirty, gone, watch, value, boxes, app, monitor, orphans, deleted, bounds>>

LEMMA AnswersLatestKeeps ==
    ASSUME SharedIInv, NEW m, NEW co \in {"app", "monitor"}, AnswersLatest(m, co),
           (m.op = "query" /\ co = "app") \/ (m.op = "monitor" /\ co = "monitor" /\ m.obj # pool)
    PROVE  SharedIInv'
<1> USE DEF value, history, bounds
<1> DEFINE x == IF pool = NoObj THEN Failed ELSE pool
           d == m.from
<1>1. /\ m = Head(asked) /\ Respond({d}, co, x) /\ Take
      /\ getref' = IF pool = NoObj THEN getref ELSE [getref EXCEPT ![pool] = @ + 1]
      /\ UNCHANGED <<pool, objmap, dirty, gone, watch, value, boxes, app, monitor, orphans, deleted, bounds>>
  BY DEF AnswersLatest
<1>2. /\ m \in Asking /\ m \in Range(asked) /\ asked' \in Seq(Asking) /\ Range(asked') \subseteq Range(asked)
      /\ \A V : /\ Occurs(asked', V) \in Nat /\ Occurs(asked, V) \in Nat
                /\ Occurs(asked, V) = Occurs(asked', V) + One(m \in V)
  BY <1>1, TakeIs
<1>3. /\ d \in Client /\ x \in 0 .. MaxObj + 1 /\ pool \in Object \cup {NoObj}
      /\ getref \in [Object -> Nat] /\ boxes \in [Client -> [Object -> Nat]]
      /\ \A p \in Object : x = p <=> pool = p
  BY <1>2, NoObjIs DEF SharedIInv, SharedTypes, Asking
<1> HIDE DEF x, d
<1>4. Responded({d}, co, x)
  BY <1>1, <1>3, RespondIs
<1>5. /\ inbox' \in [Client -> Seq(Answers)] /\ lost' \in [Object -> Nat] /\ Cardinality({d}) = 1
      /\ \A c \in Client : c # d \/ ~Alive(c) => inbox'[c] = inbox[c]
  BY <1>4, FS_Singleton DEF Responded
<1>6. SharedTypes'
  <2>1. getref' \in [Object -> Nat]
    BY <1>1, <1>3
  <2> QED  BY <1>1, <1>2, <1>5, <2>1 DEF SharedIInv, SharedTypes
<1>7. CountInv'
  <2> SUFFICES ASSUME NEW p \in Object PROVE Counts(p)'
    BY DEF CountInv
  <2>1. Counts(p)
    BY DEF SharedIInv, CountInv
  <2>2. /\ getref[p] \in Nat /\ lost[p] \in Nat /\ Carriers(boxes, inbox, p) \in Nat
        /\ pool = p => objmap[p] # "nil"
    BY ObjectFacts
  <2>3. Carriers(boxes, inbox', p) \in Nat /\ lost'[p] \in Nat
    BY <1>3, <1>5, HeldType
  <2>4. /\ Carriers(boxes, inbox', p) + lost'[p]
           = Carriers(boxes, inbox, p) + lost[p] + (IF p = x THEN 1 ELSE 0)
        /\ lost'[p] > 0 => lost[p] > 0 \/ \E c \in Client : ~Alive(c)
    BY <1>4, <1>5 DEF Responded
  <2>5. lost'[p] > 0 => deaths > 0 \/ deleted
    BY <2>1, <2>4 DEF Counts, SharedIInv, DeadInv, Ended
  <2>6. Occurs(asked', Confirms(p)) = Occurs(asked, Confirms(p)) /\ Occurs(asked, Confirms(p)) \in Nat
    BY <1>2 DEF Confirms, One
  <2>7. getref'[p] = getref[p] + (IF p = x THEN 1 ELSE 0)
    BY <1>1, <1>3, NoObjIs
  <2>8. boxes' = boxes /\ pool' = pool /\ objmap' = objmap /\ gone' = gone /\ deaths' = deaths /\ deleted' = deleted
    BY <1>1
  <2>9. CASE p = x
    <3>1. pool = p
      BY <1>3, <2>9
    <3> QED  BY <2>1, <2>2, <2>3, <2>4, <2>5, <2>6, <2>7, <2>8, <2>9, <3>1 DEF Counts, One
  <2>10. CASE p # x
    <3>1. pool # p
      BY <1>3, <2>10
    <3>2. Carriers(boxes, inbox', p) + lost'[p] = Carriers(boxes, inbox, p) + lost[p] /\ getref'[p] = getref[p]
      BY <2>2, <2>4, <2>7, <2>10
    <3> QED  BY <2>1, <2>2, <2>3, <2>5, <2>6, <2>8, <3>1, <3>2 DEF Counts, One
  <2> QED  BY <2>9, <2>10
<1>8. DeadInv'
  BY <1>1, <1>5 DEF SharedIInv, DeadInv, Ended, Alive
<1>9. \A c \in Client, op \in {"query", "monitor"} : m \in AsksOf(op, c) <=> c = d /\ m.op = op
  BY <1>2 DEF AsksOf, d
<1>10. ASSUME NEW c \in Client, c # d PROVE Alive(c)' => CallsOnce(c)' /\ AsksLatest(c)'
  <2>1. \A p \in Object : boxes[c][p] \in Nat
    BY ObjectFacts
  <2>2. \A op \in {"query", "monitor"} : Occurs(asked', AsksOf(op, c)) = Occurs(asked, AsksOf(op, c))
    BY <1>2, <1>9, <1>10 DEF One
  <2>3. LeftAlone(c)
    BY <1>1, <1>2, <1>5, <1>10, <2>1, <2>2 DEF LeftAlone
  <2> QED  BY <2>3, ClientKept
<1>11. ASSUME Alive(d)' PROVE CallsOnce(d)' /\ AsksLatest(d)'
  <2>1. Alive(d) /\ CallsOnce(d) /\ AsksLatest(d)
    BY <1>1, <1>3, <1>11 DEF SharedIInv, ClientInv, Alive
  <2>2. /\ Range(inbox'[d]) = Range(inbox[d]) \cup {Answer(co, x)}
        /\ \A k \in {"app", "monitor"} :
              Occurs(inbox'[d], AnswersTo(k)) = Occurs(inbox[d], AnswersTo(k)) + One(k = co)
    BY <1>3, <1>4, <2>1 DEF Responded
  <2>3. \A k \in {"app", "monitor"} : Occurs(inbox[d], AnswersTo(k)) \in Nat
    BY <1>3, ClientFacts
  <2>4. /\ Occurs(asked, AsksOf("query", d)) = Occurs(asked', AsksOf("query", d)) + One(co = "app")
        /\ Occurs(asked, AsksOf("monitor", d)) = Occurs(asked', AsksOf("monitor", d)) + One(co = "monitor")
        /\ Occurs(asked', AsksOf("query", d)) \in Nat /\ Occurs(asked', AsksOf("monitor", d)) \in Nat
    BY <1>2, <1>3, <1>9 DEF One
  <2>5. Querying(d)' = Querying(d) /\ Monitoring(d)' = Monitoring(d) /\ Latest(d)' = Latest(d)
    <3>1. CASE co = "app"
      BY <1>1, <2>2, <2>3, <2>4, <3>1 DEF Querying, Monitoring, Latest, One
    <3>2. CASE co = "monitor"
      BY <1>1, <2>2, <2>3, <2>4, <3>2 DEF Querying, Monitoring, Latest, One
    <3> QED  BY <3>1, <3>2
  <2>6. CallsOnce(d)'
    BY <1>1, <2>1, <2>5 DEF CallsOnce
  <2>7. \A o \in Object : Reached(d, o)' = Reached(d, o)
    BY <1>1 DEF Reached
  <2>8. ASSUME co = "monitor", ~deleted PROVE x \in Object /\ Latest(d) \in dirty
    <3>1. m.obj = Latest(d) /\ m.obj \in Object /\ m.obj # pool
      BY <1>2, <1>3, <1>9, <2>1, <2>8 DEF AsksLatest, Asking
    <3>2. Reached(d, m.obj) = 1 \/ Reached(d, m.obj) = 2
      <4>1. obj[d] = m.obj \/ update[d] = m.obj
        BY <3>1 DEF Latest
      <4>2. Reached(d, m.obj) = One(obj[d] = m.obj) + One(update[d] = m.obj)
        BY <1>3, <3>1, ReachedIs
      <4> QED  BY <4>1, <4>2 DEF One
    <3>3. boxes[d][m.obj] > 0
      BY <1>3, <2>1, <3>1, <3>2 DEF AsksLatest
    <3>4. objmap[m.obj] # "nil"
      BY <1>3, <3>1, <3>3, ObjectFacts
    <3> QED  BY <1>3, <2>8, <3>1, <3>4 DEF SharedIInv, ChainInv, x
  <2>9. Answer(co, x).obj = x /\ (Answer(co, x) \in AnswersTo("monitor") => co = "monitor")
    BY <1>3, AnswerIs
  <2>10. ~deleted' => \A n \in Range(inbox'[d]) :
            n \in AnswersTo("monitor") => n.obj \in Object /\ Latest(d)' \in dirty'
    BY <1>1, <2>1, <2>2, <2>5, <2>8, <2>9 DEF AsksLatest
  <2>11. AsksLatest(d)'
    BY <1>1, <1>2, <2>1, <2>5, <2>7, <2>10 DEF AsksLatest
  <2> QED  BY <2>6, <2>11
<1>12. ClientInv'
  BY <1>10, <1>11 DEF ClientInv
<1>13. ChainInv'
  BY <1>1 DEF SharedIInv, ChainInv
<1> QED  BY <1>6, <1>7, <1>8, <1>12, <1>13 DEF SharedIInv

LEMMA QueryServed == ASSUME SharedIInv, ServeQuery PROVE SharedIInv'
<1>1. AnswersLatest(Head(asked), "app") /\ Head(asked).op = "query"
  BY DEF ServeQuery, AnswersLatest, server, value, bounds
<1> QED  BY <1>1, AnswersLatestKeeps

LEMMA ConfirmServed == ASSUME SharedIInv, ServeConfirm PROVE SharedIInv'
<1> USE DEF value, history, bounds, server
<1> DEFINE m == Head(asked)
           n == m.obj
<1>1. /\ Take /\ m.op = "confirm"
      /\ getref' = IF objmap[n] = "nil" THEN getref ELSE [getref EXCEPT ![n] = @ - 1]
      /\ UNCHANGED <<server, inbox, value, boxes, app, monitor, history, bounds>>
  BY DEF ServeConfirm
<1>2. /\ m \in Asking /\ m \in Range(asked) /\ asked' \in Seq(Asking) /\ Range(asked') \subseteq Range(asked)
      /\ \A V : /\ Occurs(asked', V) \in Nat /\ Occurs(asked, V) \in Nat
                /\ Occurs(asked, V) = Occurs(asked', V) + One(m \in V)
  BY <1>1, TakeIs
<1>3. n \in Object /\ getref \in [Object -> Nat]
  BY <1>1, <1>2 DEF SharedIInv, SharedTypes, Asking
<1>4. objmap[n] # "nil"
  BY <1>1, <1>2, <1>3, ObjectFacts
<1>5. \A p \in Object : m \in Confirms(p) <=> p = n
  BY <1>1, <1>2 DEF Confirms
<1>6. \A c, op : op \in {"query", "monitor"} => m \notin AsksOf(op, c)
  BY <1>1 DEF AsksOf
<1> HIDE DEF m, n
<1>7. ASSUME NEW p \in Object PROVE Counts(p)' /\ getref'[p] \in Nat
  <2>1. Counts(p)
    BY DEF SharedIInv, CountInv
  <2>2. getref[p] \in Nat /\ lost[p] \in Nat /\ Carriers(boxes, inbox, p) \in Nat
    BY ObjectFacts
  <2>3. Occurs(asked, Confirms(p)) = Occurs(asked', Confirms(p)) + One(p = n) /\ Occurs(asked', Confirms(p)) \in Nat
    BY <1>2, <1>5 DEF One
  <2>4. getref'[p] = getref[p] - One(p = n)
    BY <1>1, <1>3, <1>4, <2>2 DEF One
  <2> QED  BY <1>1, <1>4, <2>1, <2>2, <2>3, <2>4 DEF Counts, One
<1>8. CountInv'
  BY <1>7 DEF CountInv
<1>9. SharedTypes'
  <2>1. getref' \in [Object -> Nat]
    <3>1. getref' = [getref EXCEPT ![n] = @ - 1]
      BY <1>1, <1>4
    <3> QED  BY <1>3, <1>7, <3>1
  <2> QED  BY <1>1, <1>2, <2>1 DEF SharedIInv, SharedTypes
<1>10. DeadInv'
  BY <1>1 DEF SharedIInv, DeadInv, Ended, Alive
<1>11. ClientInv'
  <2> SUFFICES ASSUME NEW c \in Client PROVE Alive(c)' => CallsOnce(c)' /\ AsksLatest(c)'
    BY DEF ClientInv
  <2>1. \A p \in Object : boxes[c][p] \in Nat
    BY ObjectFacts
  <2>2. \A op \in {"query", "monitor"} : Occurs(asked', AsksOf(op, c)) = Occurs(asked, AsksOf(op, c))
    BY <1>2, <1>6 DEF One
  <2>3. LeftAlone(c)
    BY <1>1, <1>2, <2>1, <2>2 DEF LeftAlone
  <2> QED  BY <2>3, ClientKept
<1>12. ChainInv'
  BY <1>1 DEF SharedIInv, ChainInv
<1> QED  BY <1>8, <1>9, <1>10, <1>11, <1>12 DEF SharedIInv

LEMMA MonitorServed == ASSUME SharedIInv, ServeMonitor PROVE SharedIInv'
<1> USE DEF value, history, bounds
<1>0. PICK m, d : m = Head(asked) /\ d = m.from
  OBVIOUS
<1>1. CASE m.obj # pool
  <2>1. AnswersLatest(m, "monitor") /\ m.op = "monitor"
    BY <1>0, <1>1 DEF ServeMonitor, AnswersLatest
  <2> QED  BY <1>1, <2>1, AnswersLatestKeeps
<1>2. CASE m.obj = pool
  <2>1. /\ Take /\ m.op = "monitor" /\ UNCHANGED <<inbox, lost, getref>>
        /\ UNCHANGED <<pool, objmap, dirty, gone, value, boxes, app, monitor, orphans, deleted, bounds>>
        /\ watch' = watch \cup {d} \/ watch' = {c \in watch : Alive(c)} \cup {d}
    BY <1>0, <1>2 DEF ServeMonitor
  <2>2. /\ m \in Asking /\ m \in Range(asked) /\ asked' \in Seq(Asking) /\ Range(asked') \subseteq Range(asked)
        /\ \A V : /\ Occurs(asked', V) \in Nat /\ Occurs(asked, V) \in Nat
                  /\ Occurs(asked, V) = Occurs(asked', V) + One(m \in V)
    BY <1>0, <2>1, TakeIs
  <2>3. d \in Client /\ pool \in Object /\ m.obj = pool
    BY <1>0, <1>2, <2>1, <2>2 DEF Asking
  <2>4. \A p \in Object : m \notin Confirms(p)
    BY <2>1 DEF Confirms
  <2>5. \A c \in Client, op \in {"query", "monitor"} : m \in AsksOf(op, c) <=> c = d /\ op = "monitor"
    BY <1>0, <2>1, <2>2 DEF AsksOf
  <2>6. SharedTypes'
    BY <2>1, <2>2, <2>3 DEF SharedIInv, SharedTypes
  <2>7. CountInv'
    <3> SUFFICES ASSUME NEW p \in Object PROVE Counts(p)'
      BY DEF CountInv
    <3>1. Counts(p)
      BY DEF SharedIInv, CountInv
    <3>2. Occurs(asked', Confirms(p)) = Occurs(asked, Confirms(p))
      BY <2>2, <2>4 DEF One
    <3> QED  BY <2>1, <3>1, <3>2 DEF Counts
  <2>8. DeadInv'
    BY <2>1 DEF SharedIInv, DeadInv, Ended, Alive
  <2>9. ASSUME NEW c \in Client, c # d, Alive(c)' PROVE CallsOnce(c)' /\ AsksLatest(c)'
    <3>1. \A p \in Object : boxes[c][p] \in Nat
      BY ObjectFacts
    <3>2. \A op \in {"query", "monitor"} : Occurs(asked', AsksOf(op, c)) = Occurs(asked, AsksOf(op, c))
      BY <2>2, <2>5, <2>9 DEF One
    <3>3. c \in watch' <=> c \in watch
      BY <2>1, <2>9 DEF Alive
    <3>4. LeftAlone(c)
      BY <2>1, <2>2, <3>1, <3>2, <3>3 DEF LeftAlone
    <3> QED  BY <2>9, <3>4, ClientKept
  <2>10. ASSUME Alive(d)' PROVE CallsOnce(d)' /\ AsksLatest(d)'
    <3>1. Alive(d) /\ CallsOnce(d) /\ AsksLatest(d)
      BY <2>1, <2>3, <2>10 DEF SharedIInv, ClientInv, Alive
    <3>2. pool = Latest(d)
      BY <2>2, <2>3, <2>5, <3>1 DEF AsksLatest
    <3>3. /\ Occurs(asked', AsksOf("query", d)) = Occurs(asked, AsksOf("query", d))
          /\ Occurs(asked, AsksOf("monitor", d)) = Occurs(asked', AsksOf("monitor", d)) + 1
          /\ Occurs(asked', AsksOf("monitor", d)) \in Nat /\ Occurs(asked', AsksOf("query", d)) \in Nat
          /\ Occurs(inbox[d], AnswersTo("app")) \in Nat /\ Occurs(inbox[d], AnswersTo("monitor")) \in Nat
      BY <2>2, <2>3, <2>5, ClientFacts DEF One
    <3>4. d \notin watch /\ d \in watch'
      BY <2>1, <3>1, <3>3 DEF CallsOnce, Monitoring, One
    <3>5. Querying(d)' = Querying(d) /\ Monitoring(d)' = Monitoring(d) /\ Latest(d)' = Latest(d)
      BY <2>1, <3>3, <3>4 DEF Querying, Monitoring, Latest, One
    <3>6. CallsOnce(d)'
      BY <2>1, <3>1, <3>5 DEF CallsOnce
    <3>7. \A o \in Object : Reached(d, o)' = Reached(d, o)
      BY <2>1 DEF Reached
    <3>8. AsksLatest(d)'
      BY <2>1, <2>2, <3>1, <3>2, <3>5, <3>7 DEF AsksLatest
    <3> QED  BY <3>6, <3>8
  <2>11. ClientInv'
    BY <2>9, <2>10 DEF ClientInv
  <2>12. ChainInv'
    BY <2>1, <2>3, NoObjIs DEF SharedIInv, ChainInv
  <2> QED  BY <2>6, <2>7, <2>8, <2>11, <2>12 DEF SharedIInv
<1> QED  BY <1>1, <1>2

-----------------------------------------------------------------------------
(* The clients *)

LEMMA QueryKeeps == ASSUME SharedIInv, NEW c \in Client, Query(c) PROVE SharedIInv'
<1> USE DEF value, history, server
<1>1. /\ app[c] = "idle" /\ ~cached[c]
      /\ app' = [app EXCEPT ![c] = "query"] /\ asked' = Append(asked, Ask("query", c, NoObj))
      /\ UNCHANGED <<server, getref, inbox, value, boxes, monitor, history, deaths>>
  BY DEF Query
<1>2. /\ Ask("query", c, NoObj) \in Asking
      /\ \A k, d : Ask("query", c, NoObj) \in AsksOf(k, d) <=> k = "query" /\ d = c
      /\ \A o \in Object : Ask("query", c, NoObj) \notin Confirms(o)
  BY AskIs
<1>3. asked \in Seq(Asking) /\ app \in [Client -> {"idle", "query", "dead"}]
  BY DEF SharedIInv, SharedTypes
<1>4. /\ asked' \in Seq(Asking) /\ Range(asked') = Range(asked) \cup {Ask("query", c, NoObj)}
      /\ \A V : /\ Occurs(asked, V) \in Nat
                /\ Occurs(asked', V) = Occurs(asked, V) + One(Ask("query", c, NoObj) \in V)
  <2> DEFINE q == Ask("query", c, NoObj)
  <2>1. q \in Asking /\ asked' = Append(asked, q)
    BY <1>1, <1>2
  <2> HIDE DEF q
  <2>2. asked' \in Seq(Asking) /\ Range(asked') = Range(asked) \cup {q}
    BY <1>3, <2>1, RangeAppend
  <2>3. ASSUME NEW V PROVE Occurs(asked, V) \in Nat /\ Occurs(asked', V) = Occurs(asked, V) + One(q \in V)
    BY <1>3, <2>1, OccursAppend, OccursNat
  <2> QED  BY <2>2, <2>3 DEF q
<1>5. SharedTypes'
  BY <1>1, <1>3, <1>4 DEF SharedIInv, SharedTypes
<1>6. CountInv'
  <2> SUFFICES ASSUME NEW p \in Object PROVE Counts(p)'
    BY DEF CountInv
  <2>1. Counts(p)
    BY DEF SharedIInv, CountInv
  <2>2. Occurs(asked', Confirms(p)) = Occurs(asked, Confirms(p))
    BY <1>2, <1>4 DEF One
  <2> QED  BY <1>1, <2>1, <2>2 DEF Counts
<1>7. DeadInv'
  BY <1>1, <1>3 DEF SharedIInv, DeadInv, Ended, Alive
<1>8. ASSUME NEW d \in Client, d # c PROVE Alive(d)' => CallsOnce(d)' /\ AsksLatest(d)'
  <2>1. \A p \in Object : boxes[d][p] \in Nat
    BY ObjectFacts
  <2>2. \A op \in {"query", "monitor"} : Occurs(asked', AsksOf(op, d)) = Occurs(asked, AsksOf(op, d))
    BY <1>2, <1>4, <1>8 DEF One
  <2>3. app'[d] = app[d]
    BY <1>1, <1>3, <1>8
  <2>4. \A m \in Range(asked') : m \in Range(asked) \/ m \notin AsksOf("monitor", d)
    BY <1>2, <1>4
  <2>5. LeftAlone(d)
    BY <1>1, <2>1, <2>2, <2>3, <2>4 DEF LeftAlone
  <2> QED  BY <2>5, ClientKept
<1>9. CallsOnce(c)' /\ AsksLatest(c)'
  <2>1. CallsOnce(c) /\ AsksLatest(c)
    BY <1>1 DEF SharedIInv, ClientInv, Alive
  <2>2. app'[c] = "query" /\ Latest(c)' = Latest(c)
    BY <1>1, <1>3 DEF Latest
  <2>3. Querying(c)' = Querying(c) + 1 /\ Monitoring(c)' = Monitoring(c) /\ Querying(c) \in Nat
    <3>1. /\ Occurs(asked', AsksOf("query", c)) = Occurs(asked, AsksOf("query", c)) + 1
          /\ Occurs(asked', AsksOf("monitor", c)) = Occurs(asked, AsksOf("monitor", c))
          /\ Occurs(asked, AsksOf("query", c)) \in Nat /\ Occurs(inbox[c], AnswersTo("app")) \in Nat
      BY <1>2, <1>4, ClientFacts DEF One
    <3> QED  BY <1>1, <3>1 DEF Querying, Monitoring
  <2>4. CallsOnce(c)'
    BY <1>1, <2>1, <2>2, <2>3 DEF CallsOnce, One
  <2>5. \A o \in Object : Reached(c, o)' = Reached(c, o)
    BY <1>1 DEF Reached
  <2>6. \A m \in Range(asked') : m \in AsksOf("monitor", c) => m.obj = Latest(c)
    BY <1>2, <1>4, <2>1 DEF AsksLatest
  <2>7. AsksLatest(c)'
    BY <1>1, <2>1, <2>2, <2>5, <2>6 DEF AsksLatest
  <2> QED  BY <2>4, <2>7
<1>10. ClientInv'
  BY <1>8, <1>9 DEF ClientInv
<1>11. ChainInv'
  BY <1>1 DEF SharedIInv, ChainInv
<1> QED  BY <1>5, <1>6, <1>7, <1>10, <1>11 DEF SharedIInv

(* What a client does by itself *)
OnlyOf(c) ==
    /\ \A d \in Client : d # c =>
          /\ obj'[d] = obj[d] /\ update'[d] = update[d] /\ cached'[d] = cached[d]
          /\ app'[d] = app[d] /\ monitor'[d] = monitor[d] /\ inbox'[d] = inbox[d] /\ boxes'[d] = boxes[d]
          /\ Occurs(asked', AsksOf("query", d)) = Occurs(asked, AsksOf("query", d))
          /\ Occurs(asked', AsksOf("monitor", d)) = Occurs(asked, AsksOf("monitor", d))
          /\ \A m \in Range(asked') : m \in Range(asked) \/ m \notin AsksOf("monitor", d)
    /\ UNCHANGED <<server, orphans, deleted>> /\ deaths' \in Nat /\ deaths' >= deaths

LEMMA OthersKept ==
    ASSUME SharedIInv, NEW c \in Client, OnlyOf(c),
           (Alive(c) => CallsOnce(c) /\ AsksLatest(c))', (~Alive(c) => Ended(c))'
    PROVE  ClientInv' /\ ChainInv' /\ DeadInv'
<1>1. ASSUME NEW d \in Client, d # c PROVE Alive(d)' => CallsOnce(d)' /\ AsksLatest(d)'
  <2>1. \A p \in Object : boxes[d][p] \in Nat
    BY ObjectFacts
  <2>2. LeftAlone(d)
    BY <1>1, <2>1 DEF LeftAlone, OnlyOf, server
  <2> QED  BY <2>2, ClientKept
<1>2. ClientInv'
  BY <1>1 DEF ClientInv
<1>3. ChainInv'
  BY DEF OnlyOf, server, SharedIInv, ChainInv
<1>4. ASSUME NEW d \in Client, d # c PROVE (~Alive(d) => Ended(d))'
  <2>1. deaths \in Nat /\ deaths' >= deaths /\ (~Alive(d) => Ended(d))
    BY DEF OnlyOf, SharedIInv, SharedTypes, DeadInv
  <2>2. /\ app'[d] = app[d] /\ inbox'[d] = inbox[d] /\ obj'[d] = obj[d] /\ update'[d] = update[d]
        /\ boxes'[d] = boxes[d] /\ (deaths > 0 => deaths' > 0)
    BY <1>4, <2>1 DEF OnlyOf
  <2> QED  BY <2>1, <2>2 DEF Ended, Alive
<1>5. DeadInv'
  BY <1>4 DEF DeadInv
<1> QED  BY <1>2, <1>3, <1>5

(* What Receive does *)
Received(c, co, o) ==
    /\ inbox' \in [Client -> Seq(Answers)] /\ \A d \in Client : d # c => inbox'[d] = inbox[d]
    /\ Answer(co, o) \in Range(inbox[c]) /\ Range(inbox'[c]) \subseteq Range(inbox[c])
    /\ o \in 0 .. MaxObj + 1 /\ Answer(co, o) \in AnswersTo(co) /\ Answer(co, o).obj = o
    /\ Occurs(inbox'[c], AnswersTo("app")) \in Nat
    /\ Occurs(inbox'[c], AnswersTo("app")) = Occurs(inbox[c], AnswersTo("app")) - One(co = "app")
    /\ Occurs(inbox'[c], AnswersTo("monitor")) \in Nat
    /\ Occurs(inbox'[c], AnswersTo("monitor")) = Occurs(inbox[c], AnswersTo("monitor")) - One(co = "monitor")
    /\ Occurs(inbox'[c], AnswersTo("monitor")) = 0 => \A m \in Range(inbox'[c]) : m \notin AnswersTo("monitor")
    /\ \A p \in Object : Occurs(inbox'[c], Carrying(p)) = Occurs(inbox[c], Carrying(p)) - One(p = o)
    /\ Alive(c) /\ UNCHANGED <<server, orphans, deleted, deaths>>

LEMMA ReceiveIs ==
    ASSUME SharedIInv, NEW c \in Client, NEW co \in {"app", "monitor"}, NEW o, Receive(c, co, o)
    PROVE  Received(c, co, o)
<1>1. inbox \in [Client -> Seq(Answers)] /\ inbox[c] \in Seq(Answers)
  BY DEF SharedIInv, SharedTypes
<1>2. /\ inbox[c] # <<>> /\ Head(inbox[c]) = Answer(co, o) /\ inbox' = [inbox EXCEPT ![c] = Tail(@)]
      /\ UNCHANGED <<server, orphans, deleted, deaths>>
  BY DEF Receive, bounds
<1>3. /\ Tail(inbox[c]) \in Seq(Answers) /\ Answer(co, o) \in Answers /\ Answer(co, o) \in Range(inbox[c])
      /\ Range(Tail(inbox[c])) \subseteq Range(inbox[c])
  BY <1>1, <1>2, RangeTail
<1>4. inbox' \in [Client -> Seq(Answers)] /\ inbox'[c] = Tail(inbox[c]) /\ \A d \in Client : d # c => inbox'[d] = inbox[d]
  BY <1>1, <1>2, <1>3
<1>5. o \in 0 .. MaxObj + 1
  BY <1>3 DEF Answer, Answers
<1>6. ASSUME NEW V
      PROVE  /\ Occurs(inbox'[c], V) \in Nat /\ Occurs(inbox[c], V) \in Nat
             /\ Occurs(inbox'[c], V) = Occurs(inbox[c], V) - One(Answer(co, o) \in V)
             /\ Occurs(inbox'[c], V) = 0 => \A m \in Range(inbox'[c]) : m \notin V
  <2>1. /\ Occurs(inbox'[c], V) \in Nat /\ Occurs(inbox[c], V) \in Nat
        /\ Occurs(inbox[c], V) = Occurs(inbox'[c], V) + One(Answer(co, o) \in V)
    BY <1>1, <1>2, <1>4, OccursTail, OccursNat
  <2>2. Occurs(inbox'[c], V) = 0 => \A m \in Range(inbox'[c]) : m \notin V
    BY <1>3, <1>4, OccursRange
  <2> QED  BY <2>1, <2>2 DEF One
<1>7. /\ Answer(co, o) \in AnswersTo("app") <=> co = "app"
      /\ Answer(co, o) \in AnswersTo("monitor") <=> co = "monitor"
      /\ Answer(co, o) \in AnswersTo(co) /\ Answer(co, o).obj = o
      /\ \A p \in Object : Answer(co, o) \in Carrying(p) <=> p = o
  BY <1>5, AnswerIs
<1>8. /\ Occurs(inbox'[c], AnswersTo("app")) = Occurs(inbox[c], AnswersTo("app")) - One(co = "app")
      /\ Occurs(inbox'[c], AnswersTo("monitor")) = Occurs(inbox[c], AnswersTo("monitor")) - One(co = "monitor")
  BY <1>6, <1>7 DEF One
<1>9. ASSUME NEW p \in Object
      PROVE  Occurs(inbox'[c], Carrying(p)) = Occurs(inbox[c], Carrying(p)) - One(p = o)
  BY <1>6, <1>7 DEF One
<1>10. Alive(c)
  BY <1>2 DEF SharedIInv, DeadInv, Ended
<1> QED  BY <1>2, <1>3, <1>4, <1>5, <1>6, <1>7, <1>8, <1>9, <1>10 DEF Received

(* What Boxed does *)
BoxHeld(c, o) ==
    /\ boxes' \in [Client -> [Object -> Nat]] /\ \A p \in Object : boxes'[c][p] = boxes[c][p] + One(p = o)
    /\ \A d \in Client : d # c => boxes'[d] = boxes[d]
    /\ getref' \in [Object -> Nat] /\ \A p \in Object : getref'[p] = getref[p] + One(p = o)
    /\ asked' \in Seq(Asking)
    /\ \A p \in Object : Occurs(asked', Confirms(p)) = Occurs(asked, Confirms(p)) + One(p = o)
    /\ \A d \in Client : /\ Occurs(asked', AsksOf("query", d)) = Occurs(asked, AsksOf("query", d))
                         /\ Occurs(asked', AsksOf("monitor", d)) = Occurs(asked, AsksOf("monitor", d)) + One(d = c)
    /\ \A m \in Range(asked'), d \in Client :
          m \in Range(asked) \/ m \notin AsksOf("monitor", d) \/ (d = c /\ m.obj = o)
    /\ monitor' \in [Client -> {"none", "call", "error"}] /\ monitor'[c] = "call"
    /\ \A d \in Client : d # c => monitor'[d] = monitor[d]

LEMMA BoxedIs ==
    ASSUME SharedIInv, NEW c \in Client, NEW o \in Object, Boxed(c, o)
    PROVE  BoxHeld(c, o)
<1> DEFINE a == Ask("confirm", c, o)
           b == Ask("monitor", c, o)
<1>1. /\ boxes \in [Client -> [Object -> Nat]] /\ getref \in [Object -> Nat] /\ asked \in Seq(Asking)
      /\ monitor \in [Client -> {"none", "call", "error"}]
  BY DEF SharedIInv, SharedTypes
<1>2. /\ boxes' = [boxes EXCEPT ![c][o] = @ + 1] /\ getref' = [getref EXCEPT ![o] = @ + 1]
      /\ asked' = asked \o <<a, b>> /\ monitor' = [monitor EXCEPT ![c] = "call"]
  BY DEF Boxed
<1>3. /\ a \in Asking /\ b \in Asking /\ b.obj = o
      /\ \A k, d : a \in AsksOf(k, d) <=> k = "confirm" /\ d = c
      /\ \A k, d : b \in AsksOf(k, d) <=> k = "monitor" /\ d = c
      /\ \A p \in Object : (a \in Confirms(p) <=> p = o) /\ b \notin Confirms(p)
  BY AskIs
<1> HIDE DEF a, b
<1>4. asked' \in Seq(Asking) /\ Range(asked') = Range(asked) \cup {a, b}
  BY <1>1, <1>2, <1>3, OccursTwo, RangeTwo
<1>5. ASSUME NEW V PROVE Occurs(asked, V) \in Nat /\ Occurs(asked', V) = Occurs(asked, V) + One(a \in V) + One(b \in V)
  <2>1. Occurs(asked \o <<a, b>>, V) = Occurs(asked, V) + One(a \in V) + One(b \in V)
    BY <1>1, <1>3, OccursTwo
  <2>2. Occurs(asked, V) \in Nat
    BY <1>1, OccursNat
  <2> QED  BY <1>2, <2>1, <2>2
<1>6. ASSUME NEW p \in Object PROVE Occurs(asked', Confirms(p)) = Occurs(asked, Confirms(p)) + One(p = o)
  BY <1>3, <1>5 DEF One
<1>7. ASSUME NEW d \in Client
      PROVE  /\ Occurs(asked', AsksOf("query", d)) = Occurs(asked, AsksOf("query", d))
             /\ Occurs(asked', AsksOf("monitor", d)) = Occurs(asked, AsksOf("monitor", d)) + One(d = c)
  BY <1>3, <1>5 DEF One
<1>8. /\ getref' \in [Object -> Nat] /\ \A p \in Object : getref'[p] = getref[p] + One(p = o)
  <2>1. /\ [getref EXCEPT ![o] = @ + 1] \in [Object -> Nat]
        /\ \A p \in Object : [getref EXCEPT ![o] = @ + 1][p] = getref[p] + One(p = o)
    BY <1>1 DEF One
  <2> QED  BY <1>2, <2>1
<1>9. /\ boxes' \in [Client -> [Object -> Nat]] /\ \A p \in Object : boxes'[c][p] = boxes[c][p] + One(p = o)
      /\ \A d \in Client : d # c => boxes'[d] = boxes[d]
  <2>1. boxes[c] \in [Object -> Nat]
    BY <1>1
  <2>2. /\ [boxes[c] EXCEPT ![o] = @ + 1] \in [Object -> Nat]
        /\ \A p \in Object : [boxes[c] EXCEPT ![o] = @ + 1][p] = boxes[c][p] + One(p = o)
    BY <2>1 DEF One
  <2>3. boxes' = [boxes EXCEPT ![c] = [boxes[c] EXCEPT ![o] = @ + 1]]
    BY <1>2
  <2> QED  BY <1>1, <2>2, <2>3
<1>10. /\ monitor' \in [Client -> {"none", "call", "error"}] /\ monitor'[c] = "call"
       /\ \A d \in Client : d # c => monitor'[d] = monitor[d]
  BY <1>1, <1>2
<1> QED  BY <1>3, <1>4, <1>6, <1>7, <1>8, <1>9, <1>10 DEF BoxHeld

LEMMA BoxedCounts ==
    ASSUME SharedIInv, NEW c \in Client, NEW o \in Object, NEW co \in {"app", "monitor"},
           Receive(c, co, o), Boxed(c, o), lost' = lost
    PROVE  CountInv'
<1> SUFFICES ASSUME NEW p \in Object PROVE Counts(p)'
  BY DEF CountInv
<1>1. Counts(p)
  BY DEF SharedIInv, CountInv
<1>2. boxes \in [Client -> [Object -> Nat]] /\ inbox \in [Client -> Seq(Answers)]
  BY DEF SharedIInv, SharedTypes
<1>3. Received(c, co, o) /\ BoxHeld(c, o)
  BY ReceiveIs, BoxedIs
<1>4. /\ inbox' \in [Client -> Seq(Answers)] /\ boxes' \in [Client -> [Object -> Nat]]
      /\ \A d \in Client : d # c => inbox'[d] = inbox[d] /\ boxes'[d][p] = boxes[d][p]
      /\ Occurs(inbox'[c], Carrying(p)) = Occurs(inbox[c], Carrying(p)) - One(p = o)
      /\ boxes'[c][p] = boxes[c][p] + One(p = o) /\ getref'[p] = getref[p] + One(p = o)
      /\ Occurs(asked', Confirms(p)) = Occurs(asked, Confirms(p)) + One(p = o)
      /\ UNCHANGED <<pool, objmap, gone, deaths, deleted>>
  BY <1>3 DEF Received, BoxHeld, server
<1>5. OneShare(boxes, inbox, boxes', inbox', p, c)
  BY <1>2, <1>4, CarriersOne
<1>6. /\ getref[p] \in Nat /\ lost[p] \in Nat /\ Carriers(boxes, inbox, p) \in Nat /\ Occurs(asked, Confirms(p)) \in Nat
      /\ boxes[c][p] \in Nat /\ Occurs(inbox[c], Carrying(p)) \in Nat
      /\ \A m \in Range(inbox[c]) : m.obj = p => objmap[p] # "nil"
  BY ObjectFacts
<1>7. Carriers(boxes', inbox', p) \in Nat
  BY <1>4, HeldType
<1>8. Carriers(boxes', inbox', p) = Carriers(boxes, inbox, p)
  <2>1. /\ Occurs(inbox'[c], Carrying(p)) = Occurs(inbox[c], Carrying(p)) - One(p = o)
        /\ boxes'[c][p] = boxes[c][p] + One(p = o)
    BY <1>4
  <2>2. /\ boxes[c][p] \in Nat /\ Occurs(inbox[c], Carrying(p)) \in Nat /\ Carriers(boxes, inbox, p) \in Nat
        /\ One(p = o) \in Nat
    BY <1>6 DEF One
  <2> QED  BY <1>5, <1>7, <2>1, <2>2 DEF OneShare
<1>9. p = o => objmap[p] # "nil"
  BY <1>3, <1>6 DEF Received
<1>10. getref'[p] = One(pool = p) + Carriers(boxes', inbox', p) + Occurs(asked', Confirms(p)) + lost[p]
  <2>1. One(pool = p) \in Nat /\ One(p = o) \in Nat
    BY DEF One
  <2>2. getref'[p] = getref[p] + One(p = o) /\ Occurs(asked', Confirms(p)) = Occurs(asked, Confirms(p)) + One(p = o)
    BY <1>4
  <2>3. lost[p] \in Nat /\ Carriers(boxes, inbox, p) \in Nat /\ Occurs(asked, Confirms(p)) \in Nat
    BY <1>6
  <2>4. getref[p] = One(pool = p) + Carriers(boxes, inbox, p) + Occurs(asked, Confirms(p)) + lost[p]
    BY <1>1 DEF Counts
  <2> QED  BY <1>8, <2>1, <2>2, <2>3, <2>4
<1>11. objmap[p] = "nil" => getref'[p] = 0
  BY <1>1, <1>4, <1>6, <1>9 DEF Counts, One
<1> QED  BY <1>1, <1>4, <1>10, <1>11 DEF Counts

(* An answer is read that carries no object, or one that is lost. *)
LEMMA AnswerReadCounts ==
    ASSUME SharedIInv, NEW c \in Client, NEW o, NEW co \in {"app", "monitor"}, Received(c, co, o),
           UNCHANGED <<boxes, getref, asked>>, lost' \in [Object -> Nat],
           \A p \in Object : lost'[p] = lost[p] + One(p = o),
           o \in Object => deleted
    PROVE  CountInv'
<1> SUFFICES ASSUME NEW p \in Object PROVE Counts(p)'
  BY DEF CountInv
<1>1. Counts(p)
  BY DEF SharedIInv, CountInv
<1>2. boxes \in [Client -> [Object -> Nat]] /\ inbox \in [Client -> Seq(Answers)]
  BY DEF SharedIInv, SharedTypes
<1>3. /\ inbox' \in [Client -> Seq(Answers)] /\ \A d \in Client : d # c => inbox'[d] = inbox[d]
      /\ Occurs(inbox'[c], Carrying(p)) = Occurs(inbox[c], Carrying(p)) - One(p = o)
      /\ UNCHANGED <<pool, objmap, gone, deaths, deleted>>
  BY DEF Received, server
<1>4. OneShare(boxes, inbox, boxes, inbox', p, c)
  BY <1>2, <1>3, CarriersOne
<1>5. /\ getref[p] \in Nat /\ lost[p] \in Nat /\ Carriers(boxes, inbox, p) \in Nat /\ Occurs(asked, Confirms(p)) \in Nat
      /\ boxes[c][p] \in Nat /\ Occurs(inbox[c], Carrying(p)) \in Nat
  BY ObjectFacts
<1>6. Carriers(boxes, inbox', p) \in Nat /\ One(p = o) \in Nat /\ One(pool = p) \in Nat
  BY <1>2, <1>3, HeldType DEF One
<1>7. Carriers(boxes, inbox', p) = Carriers(boxes, inbox, p) - One(p = o)
  <2>1. Occurs(inbox'[c], Carrying(p)) = Occurs(inbox[c], Carrying(p)) - One(p = o)
    BY <1>3
  <2>2. boxes[c][p] \in Nat /\ Occurs(inbox[c], Carrying(p)) \in Nat /\ Carriers(boxes, inbox, p) \in Nat
    BY <1>5
  <2> QED  BY <1>4, <1>6, <2>1, <2>2 DEF OneShare
<1>8. getref[p] = One(pool = p) + Carriers(boxes, inbox', p) + Occurs(asked, Confirms(p)) + lost'[p]
  BY <1>1, <1>5, <1>6, <1>7 DEF Counts
<1>9. lost'[p] > 0 => deaths > 0 \/ deleted
  <2>1. lost'[p] = lost[p] + One(p = o) /\ lost[p] \in Nat
    BY <1>5
  <2>2. lost[p] > 0 => deaths > 0 \/ deleted
    BY <1>1 DEF Counts
  <2> QED  BY <2>1, <2>2 DEF One
<1> QED  BY <1>1, <1>3, <1>8, <1>9 DEF Counts

LEMMA QueryReturnsKeeps == ASSUME SharedIInv, NEW c \in Client, QueryReturns(c) PROVE SharedIInv'
<1> USE DEF value, history, server, bounds
<1>1. PICK o \in Object \cup {Failed} :
        /\ Receive(c, "app", o) /\ app' = [app EXCEPT ![c] = "idle"] /\ UNCHANGED lost
        /\ IF o = Failed THEN UNCHANGED <<value, boxes, getref, asked, monitor>>
           ELSE /\ Boxed(c, o)
                /\ obj' = [obj EXCEPT ![c] = o] /\ update' = [update EXCEPT ![c] = NoObj]
                /\ cached' = [cached EXCEPT ![c] = TRUE]
  BY DEF QueryReturns
<1>2. Received(c, "app", o)
  BY <1>1, ReceiveIs
<1>3. /\ boxes \in [Client -> [Object -> Nat]] /\ inbox \in [Client -> Seq(Answers)]
      /\ obj \in [Client -> Object \cup {NoObj}] /\ update \in [Client -> Object \cup {NoObj}]
      /\ cached \in [Client -> BOOLEAN] /\ app \in [Client -> {"idle", "query", "dead"}] /\ deaths \in Nat
  BY DEF SharedIInv, SharedTypes
<1>4. UNCHANGED <<server, orphans, deleted, deaths>>
  BY <1>2 DEF Received
<1>5. CallsOnce(c) /\ AsksLatest(c)
  BY <1>2 DEF Received, SharedIInv, ClientInv
<1>6. /\ Occurs(inbox[c], AnswersTo("app")) = Occurs(inbox'[c], AnswersTo("app")) + 1
      /\ Occurs(inbox'[c], AnswersTo("app")) \in Nat
      /\ Occurs(inbox[c], AnswersTo("monitor")) = Occurs(inbox'[c], AnswersTo("monitor"))
      /\ Occurs(inbox[c], AnswersTo("monitor")) \in Nat
      /\ Occurs(asked, AsksOf("query", c)) \in Nat /\ Occurs(asked, AsksOf("monitor", c)) \in Nat
  <2>1. One("app" = "app") = 1 /\ One("app" = "monitor") = 0
    BY DEF One
  <2> QED  BY <1>2, <2>1, ClientFacts DEF Received
<1>7. /\ app[c] = "query" /\ ~cached[c] /\ monitor[c] # "call" /\ c \notin watch
      /\ Occurs(asked, AsksOf("monitor", c)) = 0 /\ Occurs(inbox'[c], AnswersTo("monitor")) = 0
      /\ Occurs(asked, AsksOf("query", c)) = 0 /\ Occurs(inbox'[c], AnswersTo("app")) = 0
  <2>1. app[c] = "query"
    BY <1>5, <1>6 DEF CallsOnce, Querying, One
  <2>2. ~cached[c] /\ monitor[c] # "call"
    BY <1>5, <2>1 DEF CallsOnce
  <2>3. Querying(c) <= 1 /\ Monitoring(c) <= 0
    BY <1>5, <2>1, <2>2 DEF CallsOnce, One
  <2> QED  BY <1>6, <2>1, <2>2, <2>3 DEF Querying, Monitoring, One
<1>8. /\ \A m \in Range(asked) : m \notin AsksOf("monitor", c)
      /\ \A m \in Range(inbox'[c]) : m \notin AnswersTo("monitor")
  BY <1>2, <1>7, ClientFacts DEF Received
<1>9. app' \in [Client -> {"idle", "query", "dead"}] /\ app'[c] = "idle" /\ \A d \in Client : d # c => app'[d] = app[d]
  BY <1>1, <1>3
<1>10. CASE o = Failed
  <2>1. UNCHANGED <<value, boxes, getref, asked, monitor, lost>>
    BY <1>1, <1>10
  <2>2. SharedTypes'
    BY <1>2, <1>4, <1>9, <2>1 DEF Received, SharedIInv, SharedTypes
  <2>3. CountInv'
    <3>1. \A p \in Object : lost'[p] = lost[p] + One(p = o)
      <4>1. \A p \in Object : p # o /\ lost[p] \in Nat
        BY <1>10, NoObjIs, ObjectFacts
      <4> QED  BY <2>1, <4>1 DEF One
    <3>2. lost' \in [Object -> Nat] /\ o \notin Object
      BY <1>10, <2>1, NoObjIs DEF SharedIInv, SharedTypes
    <3> QED  BY <1>2, <2>1, <3>1, <3>2, AnswerReadCounts
  <2>4. OnlyOf(c)
    BY <1>2, <1>3, <1>4, <1>9, <2>1 DEF Received, OnlyOf
  <2>5. CallsOnce(c)'
    <3>1. Monitoring(c)' = Monitoring(c) /\ Querying(c)' = 0
      BY <1>4, <1>6, <1>7, <2>1 DEF Monitoring, Querying
    <3> QED  BY <1>4, <1>5, <1>9, <2>1, <3>1 DEF CallsOnce, One
  <2>6. AsksLatest(c)'
    <3>1. (\A p \in Object : Reached(c, p)' = Reached(c, p)) /\ Latest(c)' = Latest(c)
      BY <2>1 DEF Reached, Latest
    <3> QED  BY <1>4, <1>5, <1>8, <2>1, <3>1 DEF AsksLatest
  <2> QED  BY <1>9, <2>2, <2>3, <2>4, <2>5, <2>6, OthersKept DEF SharedIInv, Alive
<1>11. CASE o \in Object
  <2>1. /\ Boxed(c, o) /\ lost' = lost
        /\ obj' = [obj EXCEPT ![c] = o] /\ update' = [update EXCEPT ![c] = NoObj] /\ cached' = [cached EXCEPT ![c] = TRUE]
    BY <1>1, <1>11, NoObjIs
  <2>2. /\ obj' \in [Client -> Object \cup {NoObj}] /\ update' \in [Client -> Object \cup {NoObj}]
        /\ cached' \in [Client -> BOOLEAN] /\ obj'[c] = o /\ update'[c] = NoObj /\ cached'[c]
        /\ \A d \in Client : d # c => obj'[d] = obj[d] /\ update'[d] = update[d] /\ cached'[d] = cached[d]
    BY <1>3, <1>11, <2>1
  <2>3. BoxHeld(c, o)
    BY <1>11, <2>1, BoxedIs
  <2>4. SharedTypes'
    <3>1. SharedTypes
      BY DEF SharedIInv
    <3>2. /\ inbox' \in [Client -> Seq(Answers)] /\ boxes' \in [Client -> [Object -> Nat]]
          /\ getref' \in [Object -> Nat] /\ asked' \in Seq(Asking) /\ monitor' \in [Client -> {"none", "call", "error"}]
      BY <1>2, <2>3 DEF Received, BoxHeld
    <3>3. lost' = lost
      BY <2>1
    <3> QED  BY <1>4, <1>9, <2>2, <3>1, <3>2, <3>3 DEF SharedTypes
  <2>5. CountInv'
    BY <1>1, <1>11, <2>1, BoxedCounts
  <2>6. OnlyOf(c)
    <3>1. \A d \in Client : Occurs(asked, AsksOf("monitor", d)) \in Nat
      BY ClientFacts
    <3> QED  BY <1>2, <1>3, <1>4, <1>9, <2>2, <2>3, <3>1 DEF Received, BoxHeld, OnlyOf, One
  <2>7. CallsOnce(c)'
    <3>1. /\ Occurs(asked', AsksOf("query", c)) = 0 /\ Occurs(asked', AsksOf("monitor", c)) = 1
      BY <1>7, <2>3 DEF BoxHeld, One
    <3>2. Monitoring(c)' = 1 /\ Querying(c)' = 0
      BY <1>4, <1>7, <3>1 DEF Monitoring, Querying, One
    <3>3. monitor'[c] = "call"
      BY <2>3 DEF BoxHeld
    <3> QED  BY <1>9, <2>2, <3>2, <3>3 DEF CallsOnce, One
  <2>8. AsksLatest(c)'
    <3>1. ASSUME NEW p \in Object PROVE Reached(c, p)' <= boxes'[c][p]
      <4>1. Reached(c, p)' = One(p = o)
        BY <2>2, ReachedIs, NoObjIs DEF One
      <4>2. boxes'[c][p] = boxes[c][p] + One(p = o) /\ boxes[c][p] \in Nat /\ One(p = o) \in Nat
        BY <1>3, <2>3 DEF BoxHeld, One
      <4> QED  BY <4>1, <4>2
    <3>2. Latest(c)' = o
      BY <2>2 DEF Latest
    <3>3. \A m \in Range(asked') : m \in AsksOf("monitor", c) => m.obj = o
      BY <1>8, <2>3 DEF BoxHeld
    <3>4. monitor'[c] = "call"
      BY <2>3 DEF BoxHeld
    <3> QED  BY <1>4, <1>7, <1>8, <2>2, <3>1, <3>2, <3>3, <3>4 DEF AsksLatest
  <2> QED  BY <1>9, <2>4, <2>5, <2>6, <2>7, <2>8, OthersKept DEF SharedIInv, Alive
<1> QED  BY <1>10, <1>11

(* The call of a monitor returns: it was the only one. *)
LEMMA MonitorReturns ==
    ASSUME SharedIInv, NEW c \in Client, NEW o, Received(c, "monitor", o)
    PROVE  /\ CallsOnce(c) /\ AsksLatest(c) /\ monitor[c] = "call" /\ cached[c] /\ app[c] # "query" /\ c \notin watch
           /\ Occurs(asked, AsksOf("monitor", c)) = 0 /\ Occurs(inbox'[c], AnswersTo("monitor")) = 0
           /\ Occurs(inbox'[c], AnswersTo("app")) = Occurs(inbox[c], AnswersTo("app"))
           /\ \A m \in Range(asked) : m \notin AsksOf("monitor", c)
           /\ \A m \in Range(inbox'[c]) : m \notin AnswersTo("monitor")
           /\ ~deleted => o \in Object /\ Latest(c) \in dirty /\ obj[c] \in dirty
<1>1. CallsOnce(c) /\ AsksLatest(c)
  BY DEF Received, SharedIInv, ClientInv
<1>2. /\ Occurs(inbox'[c], AnswersTo("monitor")) = Occurs(inbox[c], AnswersTo("monitor")) - 1
      /\ Occurs(inbox'[c], AnswersTo("monitor")) \in Nat /\ Occurs(inbox'[c], AnswersTo("app")) \in Nat
      /\ Occurs(inbox'[c], AnswersTo("app")) = Occurs(inbox[c], AnswersTo("app"))
      /\ Occurs(inbox[c], AnswersTo("monitor")) \in Nat /\ Occurs(asked, AsksOf("monitor", c)) \in Nat
  <2>1. One("monitor" = "monitor") = 1 /\ One("monitor" = "app") = 0
    BY DEF One
  <2>2. Occurs(inbox[c], AnswersTo("app")) \in Nat
    BY ClientFacts
  <2> QED  BY <2>1, <2>2, ClientFacts DEF Received
<1>3. Monitoring(c) <= One(monitor[c] = "call")
  BY <1>1 DEF CallsOnce
<1>4. /\ monitor[c] = "call" /\ c \notin watch
      /\ Occurs(asked, AsksOf("monitor", c)) = 0 /\ Occurs(inbox'[c], AnswersTo("monitor")) = 0
  BY <1>2, <1>3 DEF Monitoring, One
<1>5. cached[c] /\ app[c] # "query"
  BY <1>1, <1>4 DEF CallsOnce
<1>6. /\ \A m \in Range(asked) : m \notin AsksOf("monitor", c)
      /\ \A m \in Range(inbox'[c]) : m \notin AnswersTo("monitor")
  BY <1>4, ClientFacts DEF Received
<1>7. ASSUME ~deleted PROVE o \in Object /\ Latest(c) \in dirty /\ obj[c] \in dirty
  <2>1. o \in Object /\ Latest(c) \in dirty
    BY <1>1, <1>7 DEF AsksLatest, Received
  <2>2. obj[c] \in dirty
    BY <1>1, <2>1 DEF AsksLatest, Latest
  <2> QED  BY <2>1, <2>2
<1> QED  BY <1>1, <1>2, <1>4, <1>5, <1>6, <1>7

LEMMA ToldKeeps == ASSUME SharedIInv, NEW c \in Client, Told(c) PROVE SharedIInv'
<1> USE DEF value, history, server, bounds
<1>1. PICK o \in Object : /\ Receive(c, "monitor", o) /\ obj[c] \in dirty /\ Boxed(c, o)
                          /\ update' = [update EXCEPT ![c] = o] /\ UNCHANGED <<obj, cached, app, lost>>
  BY DEF Told
<1>2. Received(c, "monitor", o) /\ BoxHeld(c, o)
  BY <1>1, ReceiveIs, BoxedIs
<1>3. /\ UNCHANGED <<server, orphans, deleted, deaths>> /\ deaths \in Nat /\ Alive(c)'
      /\ inbox' \in [Client -> Seq(Answers)] /\ boxes' \in [Client -> [Object -> Nat]]
      /\ getref' \in [Object -> Nat] /\ asked' \in Seq(Asking)
      /\ monitor' \in [Client -> {"none", "call", "error"}] /\ monitor'[c] = "call"
      /\ \A d \in Client : d # c => inbox'[d] = inbox[d] /\ boxes'[d] = boxes[d] /\ monitor'[d] = monitor[d]
  BY <1>1, <1>2 DEF Received, BoxHeld, SharedIInv, SharedTypes, Alive
<1>4. /\ CallsOnce(c) /\ AsksLatest(c) /\ monitor[c] = "call" /\ cached[c] /\ app[c] # "query" /\ c \notin watch
      /\ Occurs(asked, AsksOf("monitor", c)) = 0 /\ Occurs(inbox'[c], AnswersTo("monitor")) = 0
      /\ Occurs(inbox'[c], AnswersTo("app")) = Occurs(inbox[c], AnswersTo("app"))
      /\ \A m \in Range(asked) : m \notin AsksOf("monitor", c)
      /\ \A m \in Range(inbox'[c]) : m \notin AnswersTo("monitor")
  BY <1>2, MonitorReturns
<1>5. /\ update \in [Client -> Object \cup {NoObj}] /\ update' \in [Client -> Object \cup {NoObj}] /\ update'[c] = o
      /\ \A d \in Client : d # c => update'[d] = update[d]
  BY <1>1 DEF SharedIInv, SharedTypes
<1>6. SharedTypes'
  <2>1. SharedTypes
    BY DEF SharedIInv
  <2> QED  BY <1>1, <1>3, <1>5, <2>1 DEF SharedTypes
<1>7. CountInv'
  BY <1>1, BoxedCounts
<1>8. OnlyOf(c)
  <2>1. \A d \in Client : Occurs(asked, AsksOf("monitor", d)) \in Nat
    BY ClientFacts
  <2>2. ASSUME NEW d \in Client, d # c
        PROVE  /\ Occurs(asked', AsksOf("query", d)) = Occurs(asked, AsksOf("query", d))
               /\ Occurs(asked', AsksOf("monitor", d)) = Occurs(asked, AsksOf("monitor", d))
               /\ \A m \in Range(asked') : m \in Range(asked) \/ m \notin AsksOf("monitor", d)
    BY <1>2, <2>1, <2>2 DEF BoxHeld, One
  <2> QED  BY <1>1, <1>3, <1>5, <2>2 DEF OnlyOf
<1>9. CallsOnce(c)'
  <2>1. Occurs(asked', AsksOf("query", c)) = Occurs(asked, AsksOf("query", c)) /\ Occurs(asked', AsksOf("monitor", c)) = 1
    BY <1>2, <1>4 DEF BoxHeld, One
  <2>2. Monitoring(c)' = 1 /\ Querying(c)' = Querying(c)
    BY <1>3, <1>4, <2>1 DEF Monitoring, Querying, One
  <2> QED  BY <1>1, <1>3, <1>4, <2>2 DEF CallsOnce, One
<1>10. AsksLatest(c)'
  <2>1. ASSUME NEW p \in Object PROVE Reached(c, p)' <= boxes'[c][p]
    <3>1. Reached(c, p) <= boxes[c][p] /\ boxes[c][p] \in Nat /\ boxes'[c][p] = boxes[c][p] + One(p = o)
      BY <1>2, <1>4, ObjectFacts DEF AsksLatest, BoxHeld
    <3>2. Reached(c, p) = One(obj[c] = p) + One(update[c] = p) /\ Reached(c, p)' = One(obj[c] = p) + One(o = p)
      BY <1>1, <1>5, ReachedIs
    <3>3. One(obj[c] = p) \in Nat /\ One(update[c] = p) \in Nat /\ One(p = o) = One(o = p) /\ One(p = o) \in Nat
      BY DEF One
    <3> QED  BY <3>1, <3>2, <3>3
  <2>2. Latest(c)' = o
    BY <1>5, NoObjIs DEF Latest
  <2>3. \A m \in Range(asked') : m \in AsksOf("monitor", c) => m.obj = o
    BY <1>2, <1>4 DEF BoxHeld
  <2> QED  BY <1>1, <1>3, <1>4, <1>5, <2>1, <2>2, <2>3 DEF AsksLatest
<1> QED  BY <1>3, <1>6, <1>7, <1>8, <1>9, <1>10, OthersKept DEF SharedIInv

(* The monitor ends, or fails: nothing is under way any more. *)
LEMMA MonitorEnds ==
    ASSUME SharedIInv, NEW c \in Client, NEW o, Received(c, "monitor", o),
           UNCHANGED <<getref, boxes, asked, app, obj, update>>,
           cached' \in [Client -> BOOLEAN], \A d \in Client : d # c => cached'[d] = cached[d],
           NEW v \in {"none", "error"}, monitor' = [monitor EXCEPT ![c] = v], v = "error" => deleted,
           lost' \in [Object -> Nat], \A p \in Object : lost'[p] = lost[p] + One(p = o),
           o \in Object => deleted
    PROVE  SharedIInv'
<1>1. /\ CallsOnce(c) /\ AsksLatest(c) /\ cached[c] /\ app[c] # "query" /\ c \notin watch
      /\ Occurs(asked, AsksOf("monitor", c)) = 0 /\ Occurs(inbox'[c], AnswersTo("monitor")) = 0
      /\ Occurs(inbox'[c], AnswersTo("app")) = Occurs(inbox[c], AnswersTo("app"))
      /\ \A m \in Range(asked) : m \notin AsksOf("monitor", c)
      /\ \A m \in Range(inbox'[c]) : m \notin AnswersTo("monitor")
  BY MonitorReturns
<1>2. /\ UNCHANGED <<pool, objmap, dirty, gone, watch, orphans, deleted, deaths>> /\ deaths \in Nat /\ Alive(c)'
      /\ inbox' \in [Client -> Seq(Answers)] /\ \A d \in Client : d # c => inbox'[d] = inbox[d]
  BY DEF Received, SharedIInv, SharedTypes, Alive, server
<1>3. /\ monitor' \in [Client -> {"none", "call", "error"}] /\ monitor'[c] = v
      /\ \A d \in Client : d # c => monitor'[d] = monitor[d]
  BY DEF SharedIInv, SharedTypes
<1>4. SharedTypes'
  <2>1. SharedTypes
    BY DEF SharedIInv
  <2> QED  BY <1>2, <1>3, <2>1 DEF SharedTypes
<1>5. CountInv'
  BY AnswerReadCounts
<1>6. OnlyOf(c)
  BY <1>2, <1>3 DEF OnlyOf, server
<1>7. CallsOnce(c)'
  <2>1. Monitoring(c)' = 0 /\ Querying(c)' = Querying(c)
    BY <1>1, <1>2 DEF Monitoring, Querying, One
  <2> QED  BY <1>1, <1>3, <2>1 DEF CallsOnce, One
<1>8. AsksLatest(c)'
  <2>1. (\A p \in Object : Reached(c, p)' = Reached(c, p)) /\ Latest(c)' = Latest(c)
    BY DEF Reached, Latest
  <2> QED  BY <1>1, <1>2, <1>3, <2>1 DEF AsksLatest
<1> QED  BY <1>2, <1>4, <1>5, <1>6, <1>7, <1>8, OthersKept DEF SharedIInv

LEMMA TheEndKeeps == ASSUME SharedIInv, NEW c \in Client, TheEnd(c) PROVE SharedIInv'
<1>1. /\ Receive(c, "monitor", NoObj)
      /\ monitor' = [monitor EXCEPT ![c] = "none"] /\ cached' = [cached EXCEPT ![c] = FALSE]
      /\ UNCHANGED <<obj, update, getref, boxes, asked, app, lost>>
  BY DEF TheEnd
<1>2. Received(c, "monitor", NoObj) /\ NoObj \notin Object
  BY <1>1, ReceiveIs, NoObjIs
<1>3. cached' \in [Client -> BOOLEAN] /\ \A d \in Client : d # c => cached'[d] = cached[d]
  BY <1>1 DEF SharedIInv, SharedTypes
<1>4. lost' \in [Object -> Nat] /\ \A p \in Object : lost'[p] = lost[p] + One(p = NoObj)
  <2>1. \A p \in Object : p # NoObj /\ lost[p] \in Nat
    BY <1>2, ObjectFacts
  <2> QED  BY <1>1, <2>1 DEF SharedIInv, SharedTypes, One
<1> QED  BY <1>1, <1>2, <1>3, <1>4, MonitorEnds

LEMMA MonitorFailsKeeps == ASSUME SharedIInv, NEW c \in Client, MonitorFails(c) PROVE SharedIInv'
<1>1. PICK o \in Object \cup {Failed} :
        /\ Receive(c, "monitor", o) /\ (o = Failed \/ obj[c] \notin dirty)
        /\ monitor' = [monitor EXCEPT ![c] = "error"]
        /\ lost' = IF o = Failed THEN lost ELSE [lost EXCEPT ![o] = @ + 1]
        /\ UNCHANGED <<value, getref, boxes, asked, app>>
  BY DEF MonitorFails
<1>2. Received(c, "monitor", o) /\ Failed \notin Object
  BY <1>1, ReceiveIs, NoObjIs
<1>3. deleted
  BY <1>1, <1>2, MonitorReturns
<1>4. cached' \in [Client -> BOOLEAN] /\ \A d \in Client : d # c => cached'[d] = cached[d]
  BY <1>1 DEF SharedIInv, SharedTypes, value
<1>5. lost' \in [Object -> Nat] /\ \A p \in Object : lost'[p] = lost[p] + One(p = o)
  <2>1. lost \in [Object -> Nat] /\ \A p \in Object : p # Failed /\ lost[p] \in Nat
    BY <1>2 DEF SharedIInv, SharedTypes
  <2>2. CASE o = Failed
    BY <1>1, <2>1, <2>2 DEF One
  <2>3. CASE o \in Object
    <3>1. lost' = [lost EXCEPT ![o] = @ + 1]
      BY <1>1, <2>1, <2>3
    <3> QED  BY <2>1, <2>3, <3>1 DEF One
  <2> QED  BY <2>2, <2>3
<1> QED  BY <1>1, <1>2, <1>3, <1>4, <1>5, MonitorEnds DEF value

LEMMA AccessKeeps == ASSUME SharedIInv, NEW c \in Client, Access(c) PROVE SharedIInv'
<1> USE DEF history, server, bounds
<1>1. /\ obj[c] \in dirty /\ update[c] # NoObj
      /\ obj' = [obj EXCEPT ![c] = update[c]] /\ update' = [update EXCEPT ![c] = NoObj]
      /\ UNCHANGED <<server, getref, asked, inbox, cached, boxes, app, monitor, history, bounds>>
  BY DEF Access
<1>2. SharedTypes
  BY DEF SharedIInv
<1>3. /\ obj' \in [Client -> Object \cup {NoObj}] /\ update' \in [Client -> Object \cup {NoObj}]
      /\ obj'[c] = update[c] /\ update'[c] = NoObj
      /\ \A d \in Client : d # c => obj'[d] = obj[d] /\ update'[d] = update[d]
  BY <1>1, <1>2 DEF SharedTypes
<1>4. Alive(c) /\ Alive(c)'
  BY <1>1 DEF SharedIInv, DeadInv, Ended, Alive
<1>5. CallsOnce(c) /\ AsksLatest(c)
  BY <1>4 DEF SharedIInv, ClientInv
<1>6. SharedTypes'
  BY <1>1, <1>2, <1>3 DEF SharedTypes
<1>7. CountInv'
  BY <1>1 DEF SharedIInv, CountInv, Counts
<1>8. OnlyOf(c)
  BY <1>1, <1>2, <1>3 DEF OnlyOf, SharedTypes
<1>9. CallsOnce(c)'
  <2>1. Monitoring(c)' = Monitoring(c) /\ Querying(c)' = Querying(c)
    BY <1>1 DEF Monitoring, Querying
  <2> QED  BY <1>1, <1>5, <2>1 DEF CallsOnce
<1>10. AsksLatest(c)'
  <2>1. ASSUME NEW p \in Object PROVE Reached(c, p)' <= boxes'[c][p]
    <3>1. Reached(c, p) <= boxes[c][p] /\ boxes[c][p] \in Nat /\ boxes'[c][p] = boxes[c][p]
      BY <1>1, <1>5, ObjectFacts DEF AsksLatest
    <3>2. Reached(c, p) = One(obj[c] = p) + One(update[c] = p) /\ Reached(c, p)' = One(update[c] = p) + One(NoObj = p)
      BY <1>3, ReachedIs
    <3>3. One(obj[c] = p) \in Nat /\ One(update[c] = p) \in Nat /\ One(NoObj = p) = 0
      BY NoObjIs DEF One
    <3> QED  BY <3>1, <3>2, <3>3
  <2>2. Latest(c)' = Latest(c)
    BY <1>1, <1>3 DEF Latest
  <2> QED  BY <1>1, <1>3, <1>5, <2>1, <2>2 DEF AsksLatest
<1> QED  BY <1>4, <1>6, <1>7, <1>8, <1>9, <1>10, OthersKept DEF SharedIInv

LEMMA LetGoKeeps == ASSUME SharedIInv, NEW c \in Client, LetGo(c) PROVE SharedIInv'
<1> USE DEF history, server, bounds
<1>1. /\ monitor[c] # "call" /\ obj[c] # NoObj
      /\ obj' = [obj EXCEPT ![c] = NoObj] /\ update' = [update EXCEPT ![c] = NoObj]
      /\ cached' = [cached EXCEPT ![c] = FALSE]
      /\ UNCHANGED <<server, getref, asked, inbox, boxes, app, monitor, history, bounds>>
  BY DEF LetGo
<1>2. SharedTypes
  BY DEF SharedIInv
<1>3. /\ obj' \in [Client -> Object \cup {NoObj}] /\ update' \in [Client -> Object \cup {NoObj}]
      /\ cached' \in [Client -> BOOLEAN] /\ obj'[c] = NoObj /\ update'[c] = NoObj /\ ~cached'[c]
      /\ \A d \in Client : d # c => obj'[d] = obj[d] /\ update'[d] = update[d] /\ cached'[d] = cached[d]
  BY <1>1, <1>2 DEF SharedTypes
<1>4. Alive(c) /\ Alive(c)'
  BY <1>1 DEF SharedIInv, DeadInv, Ended, Alive
<1>5. CallsOnce(c) /\ AsksLatest(c)
  BY <1>4 DEF SharedIInv, ClientInv
<1>6. /\ Occurs(asked, AsksOf("monitor", c)) = 0 /\ Occurs(inbox[c], AnswersTo("monitor")) = 0 /\ c \notin watch
  <2>1. Monitoring(c) <= 0
    BY <1>1, <1>5 DEF CallsOnce, One
  <2>2. Occurs(asked, AsksOf("monitor", c)) \in Nat /\ Occurs(inbox[c], AnswersTo("monitor")) \in Nat
    BY ClientFacts
  <2> QED  BY <2>1, <2>2 DEF Monitoring, One
<1>7. /\ \A m \in Range(asked) : m \notin AsksOf("monitor", c)
      /\ \A m \in Range(inbox[c]) : m \notin AnswersTo("monitor")
  BY <1>2, <1>6, OccursRange, ClientFacts
<1>8. SharedTypes'
  BY <1>1, <1>2, <1>3 DEF SharedTypes
<1>9. CountInv'
  BY <1>1 DEF SharedIInv, CountInv, Counts
<1>10. OnlyOf(c)
  BY <1>1, <1>2, <1>3 DEF OnlyOf, SharedTypes
<1>11. CallsOnce(c)'
  <2>1. Monitoring(c)' = Monitoring(c) /\ Querying(c)' = Querying(c)
    BY <1>1 DEF Monitoring, Querying
  <2> QED  BY <1>1, <1>3, <1>5, <2>1 DEF CallsOnce
<1>12. AsksLatest(c)'
  <2>1. ASSUME NEW p \in Object PROVE Reached(c, p)' <= boxes'[c][p]
    <3>1. boxes'[c][p] \in Nat
      BY <1>1, ObjectFacts
    <3>2. Reached(c, p)' = 0
      BY <1>3, ReachedIs, NoObjIs DEF One
    <3> QED  BY <3>1, <3>2
  <2> QED  BY <1>1, <1>3, <1>5, <1>6, <1>7, <2>1 DEF AsksLatest
<1> QED  BY <1>4, <1>8, <1>9, <1>10, <1>11, <1>12, OthersKept DEF SharedIInv

LEMMA ReleaseObjKeeps ==
    ASSUME SharedIInv, NEW c \in Client, NEW o \in Object, ReleaseObj(c, o)
    PROVE  SharedIInv'
<1> USE DEF history, server, bounds, value
<1>1. /\ boxes[c][o] > Reached(c, o)
      /\ boxes' = [boxes EXCEPT ![c][o] = @ - 1] /\ getref' = [getref EXCEPT ![o] = @ - 1]
      /\ UNCHANGED <<server, asked, inbox, value, app, monitor, history, bounds>>
  BY DEF ReleaseObj
<1>2. SharedTypes
  BY DEF SharedIInv
<1>3. /\ Reached(c, o) \in Nat /\ boxes[c][o] \in Nat /\ getref[o] \in Nat
      /\ boxes[c][o] >= 1 /\ getref[o] >= boxes[c][o]
  <2>1. Reached(c, o) \in Nat
    BY ReachedIs DEF One
  <2>2. /\ boxes[c][o] \in Nat /\ Occurs(inbox[c], Carrying(o)) \in Nat /\ getref[o] \in Nat
        /\ boxes[c][o] + Occurs(inbox[c], Carrying(o)) <= Carriers(boxes, inbox, o)
        /\ Carriers(boxes, inbox, o) \in Nat /\ Occurs(asked, Confirms(o)) \in Nat /\ lost[o] \in Nat
        /\ getref[o] = One(pool = o) + Carriers(boxes, inbox, o) + Occurs(asked, Confirms(o)) + lost[o]
    BY ObjectFacts
  <2>3. One(pool = o) \in Nat
    BY DEF One
  <2> QED  BY <1>1, <2>1, <2>2, <2>3
<1>4. /\ getref' \in [Object -> Nat] /\ \A p \in Object : getref'[p] = getref[p] - One(p = o)
  <2>1. \A p \in Object : getref[p] \in Nat
    BY <1>2 DEF SharedTypes
  <2>2. getref[o] - 1 \in Nat
    BY <1>3
  <2>3. /\ getref \in [Object -> Nat] /\ getref' = [getref EXCEPT ![o] = @ - 1]
    BY <1>1, <1>2 DEF SharedTypes
  <2>4. /\ [getref EXCEPT ![o] = @ - 1] \in [Object -> Nat]
        /\ \A p \in Object : [getref EXCEPT ![o] = @ - 1][p] = getref[p] - One(p = o)
    BY <2>2, <2>3 DEF One
  <2> QED  BY <2>3, <2>4
<1>5. /\ boxes' \in [Client -> [Object -> Nat]] /\ \A p \in Object : boxes'[c][p] = boxes[c][p] - One(p = o)
      /\ \A d \in Client : d # c => boxes'[d] = boxes[d]
  <2>1. boxes[c] \in [Object -> Nat] /\ boxes[c][o] - 1 \in Nat /\ boxes \in [Client -> [Object -> Nat]]
    BY <1>2, <1>3 DEF SharedTypes
  <2>2. /\ [boxes[c] EXCEPT ![o] = @ - 1] \in [Object -> Nat]
        /\ \A p \in Object : [boxes[c] EXCEPT ![o] = @ - 1][p] = boxes[c][p] - One(p = o)
    BY <2>1 DEF One
  <2>3. boxes' = [boxes EXCEPT ![c] = [boxes[c] EXCEPT ![o] = @ - 1]]
    BY <1>1
  <2> QED  BY <2>1, <2>2, <2>3
<1>6. Alive(c) /\ Alive(c)'
  BY <1>1, <1>3 DEF SharedIInv, DeadInv, Ended, Alive
<1>7. SharedTypes'
  BY <1>1, <1>2, <1>4, <1>5 DEF SharedTypes
<1>8. CountInv'
  <2> SUFFICES ASSUME NEW p \in Object PROVE Counts(p)'
    BY DEF CountInv
  <2>1. Counts(p) /\ boxes \in [Client -> [Object -> Nat]] /\ inbox \in [Client -> Seq(Answers)]
    BY <1>2 DEF SharedIInv, CountInv, SharedTypes
  <2>2. OneShare(boxes, inbox, boxes', inbox, p, c)
    BY <1>5, <2>1, CarriersOne
  <2>3. /\ getref[p] \in Nat /\ lost[p] \in Nat /\ Carriers(boxes, inbox, p) \in Nat /\ Occurs(asked, Confirms(p)) \in Nat
        /\ boxes[c][p] \in Nat /\ Occurs(inbox[c], Carrying(p)) \in Nat
        /\ boxes[c][p] > 0 => objmap[p] # "nil"
    BY ObjectFacts
  <2>4. Carriers(boxes', inbox, p) \in Nat /\ One(p = o) \in Nat /\ One(pool = p) \in Nat
    BY <1>5, <2>1, HeldType DEF One
  <2>5. boxes'[c][p] = boxes[c][p] - One(p = o) /\ getref'[p] = getref[p] - One(p = o)
    BY <1>4, <1>5
  <2>6. Carriers(boxes', inbox, p) = Carriers(boxes, inbox, p) - One(p = o)
    BY <2>2, <2>3, <2>4, <2>5 DEF OneShare
  <2>7. getref[p] = One(pool = p) + Carriers(boxes, inbox, p) + Occurs(asked, Confirms(p)) + lost[p]
    BY <2>1 DEF Counts
  <2>8. getref'[p] = One(pool = p) + Carriers(boxes', inbox, p) + Occurs(asked, Confirms(p)) + lost[p]
    BY <2>3, <2>4, <2>5, <2>6, <2>7
  <2>9. objmap[p] = "nil" => p # o
    BY <1>3, <2>3
  <2>10. objmap[p] = "nil" => getref'[p] = 0
    BY <2>1, <2>3, <2>5, <2>9 DEF Counts, One
  <2> QED  BY <1>1, <2>1, <2>8, <2>10 DEF Counts
<1>9. LeftAlone(c)
  <2>1. ASSUME NEW p \in Object PROVE boxes'[c][p] \in Nat /\ (boxes'[c][p] >= boxes[c][p] \/ boxes'[c][p] >= Reached(c, p))
    <3>1. boxes[c][p] \in Nat /\ boxes'[c][p] \in Nat /\ boxes'[c][p] = boxes[c][p] - One(p = o)
      BY <1>5, ObjectFacts
    <3> QED  BY <1>1, <1>3, <3>1 DEF One
  <2> QED  BY <1>1, <2>1 DEF LeftAlone
<1>10. OnlyOf(c)
  BY <1>1, <1>2, <1>5 DEF OnlyOf, SharedTypes
<1>11. CallsOnce(c)' /\ AsksLatest(c)'
  BY <1>6, <1>9, ClientKept
<1> QED  BY <1>6, <1>7, <1>8, <1>10, <1>11, OthersKept DEF SharedIInv

(* The references in the answers that a client leaves unread *)
LEMMA CarriedIs ==
    ASSUME NEW c \in Client, NEW o \in Object, inbox[c] \in Seq(Answers)
    PROVE  Carried(c, o) = Occurs(inbox[c], Carrying(o))
<1>1. \A i \in DOMAIN inbox[c] : inbox[c][i].obj = o <=> inbox[c][i] \in Carrying(o)
  BY DEF Carrying
<1> QED  BY <1>1 DEF Carried, Occurs

LEMMA ExitKeeps == ASSUME SharedIInv, NEW c \in Client, Exit(c) PROVE SharedIInv'
<1> USE DEF server
<1>1. /\ Alive(c) /\ deaths' = deaths + 1
      /\ app' = [app EXCEPT ![c] = "dead"] /\ inbox' = [inbox EXCEPT ![c] = <<>>]
      /\ lost' = [o \in Object |-> lost[o] + Carried(c, o)]
      /\ getref' = [o \in Object |-> getref[o] - boxes[c][o]]
      /\ boxes' = [boxes EXCEPT ![c] = [o \in Object |-> 0]]
      /\ obj' = [obj EXCEPT ![c] = NoObj] /\ update' = [update EXCEPT ![c] = NoObj]
      /\ cached' = [cached EXCEPT ![c] = FALSE] /\ monitor' = [monitor EXCEPT ![c] = "none"]
      /\ UNCHANGED <<server, asked, orphans, deleted>>
  BY DEF Exit
<1>2. SharedTypes
  BY DEF SharedIInv
<1>3. ASSUME NEW o \in Object
      PROVE  /\ getref[o] \in Nat /\ lost[o] \in Nat /\ Carriers(boxes, inbox, o) \in Nat /\ Occurs(asked, Confirms(o)) \in Nat
             /\ boxes[c][o] \in Nat /\ Occurs(inbox[c], Carrying(o)) \in Nat
             /\ getref[o] >= boxes[c][o] /\ (boxes[c][o] > 0 => objmap[o] # "nil")
             /\ lost'[o] = lost[o] + Occurs(inbox[c], Carrying(o)) /\ getref'[o] = getref[o] - boxes[c][o]
  <2>1. /\ getref[o] \in Nat /\ lost[o] \in Nat /\ Carriers(boxes, inbox, o) \in Nat /\ Occurs(asked, Confirms(o)) \in Nat
        /\ boxes[c][o] \in Nat /\ Occurs(inbox[c], Carrying(o)) \in Nat
        /\ boxes[c][o] + Occurs(inbox[c], Carrying(o)) <= Carriers(boxes, inbox, o)
        /\ boxes[c][o] > 0 => objmap[o] # "nil"
        /\ getref[o] = One(pool = o) + Carriers(boxes, inbox, o) + Occurs(asked, Confirms(o)) + lost[o]
    BY ObjectFacts
  <2>2. One(pool = o) \in Nat
    BY DEF One
  <2>3. Carried(c, o) = Occurs(inbox[c], Carrying(o))
    BY <1>2, CarriedIs DEF SharedTypes
  <2>4. lost'[o] = lost[o] + Carried(c, o) /\ getref'[o] = getref[o] - boxes[c][o]
    BY <1>1
  <2>5. getref[o] >= boxes[c][o]
    BY <2>1, <2>2
  <2> QED  BY <2>1, <2>3, <2>4, <2>5
<1>4. lost' \in [Object -> Nat] /\ getref' \in [Object -> Nat]
  <2>1. \A o \in Object : lost'[o] \in Nat /\ getref'[o] \in Nat
    BY <1>3
  <2>2. lost' = [o \in Object |-> lost'[o]] /\ getref' = [o \in Object |-> getref'[o]]
    BY <1>1
  <2> QED  BY <2>1, <2>2
<1>5. /\ inbox' \in [Client -> Seq(Answers)] /\ boxes' \in [Client -> [Object -> Nat]] /\ deaths \in Nat
      /\ obj' \in [Client -> Object \cup {NoObj}] /\ update' \in [Client -> Object \cup {NoObj}]
      /\ cached' \in [Client -> BOOLEAN] /\ app' \in [Client -> {"idle", "query", "dead"}]
      /\ monitor' \in [Client -> {"none", "call", "error"}]
  <2>1. <<>> \in Seq(Answers) /\ [o \in Object |-> 0] \in [Object -> Nat]
    OBVIOUS
  <2> QED  BY <1>1, <1>2, <2>1 DEF SharedTypes
<1>6. /\ inbox'[c] = <<>> /\ boxes'[c] = [o \in Object |-> 0] /\ obj'[c] = NoObj /\ update'[c] = NoObj /\ app'[c] = "dead"
      /\ \A d \in Client : d # c =>
            /\ obj'[d] = obj[d] /\ update'[d] = update[d] /\ cached'[d] = cached[d]
            /\ app'[d] = app[d] /\ monitor'[d] = monitor[d] /\ inbox'[d] = inbox[d] /\ boxes'[d] = boxes[d]
  BY <1>1, <1>2 DEF SharedTypes
<1>7. SharedTypes'
  BY <1>1, <1>2, <1>4, <1>5 DEF SharedTypes
<1>8. CountInv'
  <2> SUFFICES ASSUME NEW p \in Object PROVE Counts(p)'
    BY DEF CountInv
  <2>1. Counts(p) /\ boxes \in [Client -> [Object -> Nat]] /\ inbox \in [Client -> Seq(Answers)]
    BY <1>2 DEF SharedIInv, CountInv, SharedTypes
  <2>2. OneShare(boxes, inbox, boxes', inbox', p, c)
    BY <1>5, <1>6, <2>1, CarriersOne
  <2>3. boxes'[c][p] = 0 /\ Occurs(inbox'[c], Carrying(p)) = 0
    <3>1. {i \in DOMAIN <<>> : <<>>[i] \in Carrying(p)} = {}
      OBVIOUS
    <3>2. Occurs(<<>>, Carrying(p)) = 0
      BY <3>1, FS_EmptySet DEF Occurs
    <3> QED  BY <1>6, <3>2
  <2>4. Carriers(boxes', inbox', p) \in Nat /\ One(pool = p) \in Nat
    BY <1>5, HeldType DEF One
  <2>5. Carriers(boxes', inbox', p) + boxes[c][p] + Occurs(inbox[c], Carrying(p)) = Carriers(boxes, inbox, p)
    BY <1>3, <2>2, <2>3, <2>4 DEF OneShare
  <2>6. getref[p] = One(pool = p) + Carriers(boxes, inbox, p) + Occurs(asked, Confirms(p)) + lost[p]
    BY <2>1 DEF Counts
  <2>7. getref'[p] = One(pool = p) + Carriers(boxes', inbox', p) + Occurs(asked, Confirms(p)) + lost'[p]
    BY <1>3, <2>4, <2>5, <2>6
  <2>8. objmap[p] = "nil" => getref'[p] = 0
    BY <1>3, <2>1 DEF Counts
  <2>9. deaths' > 0
    BY <1>1, <1>5
  <2> QED  BY <1>1, <2>1, <2>7, <2>8, <2>9 DEF Counts
<1>9. OnlyOf(c)
  BY <1>1, <1>5, <1>6 DEF OnlyOf
<1>10. ~Alive(c)'
  BY <1>6 DEF Alive
<1>11. Ended(c)'
  BY <1>1, <1>5, <1>6 DEF Ended
<1> QED  BY <1>7, <1>8, <1>9, <1>10, <1>11, OthersKept DEF SharedIInv

-----------------------------------------------------------------------------
(* The invariant of the specification *)

LEMMA SharedKeeps == ASSUME SharedIInv, [SharedNext]_sharedVars PROVE SharedIInv'
<1>1. CASE UNCHANGED sharedVars
  BY <1>1 DEF sharedVars, server, value, history, bounds, SharedIInv, SharedTypes, CountInv, Counts, DeadInv, Ended,
     Alive, ClientInv, CallsOnce, AsksLatest, ChainInv, Querying, Monitoring, Latest, Reached
<1>2. CASE New
  BY <1>2, NewKeeps
<1>3. CASE DeleteObject
  BY <1>3, DeleteKeeps
<1>4. CASE UpdateObject
  BY <1>4, UpdateObjectKeeps
<1>5. CASE UpdateFails
  BY <1>5, UpdateFailsKeeps
<1>6. CASE ServeQuery
  BY <1>6, QueryServed
<1>7. CASE ServeConfirm
  BY <1>7, ConfirmServed
<1>8. CASE ServeMonitor
  BY <1>8, MonitorServed
<1>9. ASSUME NEW o \in Object, Collect(o) PROVE SharedIInv'
  BY <1>9, CollectKeeps
<1>10. ASSUME NEW c \in Client,
              \/ Query(c) \/ QueryReturns(c) \/ Told(c) \/ TheEnd(c) \/ MonitorFails(c)
              \/ Access(c) \/ LetGo(c) \/ Exit(c)
       PROVE  SharedIInv'
  BY <1>10, QueryKeeps, QueryReturnsKeeps, ToldKeeps, TheEndKeeps, MonitorFailsKeeps, AccessKeeps, LetGoKeeps, ExitKeeps
<1>11. ASSUME NEW c \in Client, NEW o \in Object, ReleaseObj(c, o) PROVE SharedIInv'
  BY <1>11, ReleaseObjKeeps
<1> QED  BY <1>1, <1>2, <1>3, <1>4, <1>5, <1>6, <1>7, <1>8, <1>9, <1>10, <1>11 DEF SharedNext

(* The references to an object, as they were added up *)
LEMMA ReferencesAre ==
    ASSUME SharedIInv, NEW o \in Object
    PROVE  References(o) = One(pool = o) + Carriers(boxes, inbox, o) + Occurs(asked, Confirms(o))
<1>1. boxes \in [Client -> [Object -> Nat]] /\ inbox \in [Client -> Seq(Answers)] /\ asked \in Seq(Asking)
  BY DEF SharedIInv, SharedTypes
<1>2. ASSUME NEW c \in Client PROVE boxes[c][o] + Carried(c, o) = Held(boxes, inbox, o)[c]
  BY <1>1, CarriedIs, HeldType
<1>3. UNION {{c} \X (1 .. boxes[c][o] + Carried(c, o)) : c \in Client} = Pairs(Held(boxes, inbox, o))
  BY <1>2 DEF Pairs
<1>4. {i \in DOMAIN asked : asked[i].op = "confirm" /\ asked[i].obj = o} = {i \in DOMAIN asked : asked[i] \in Confirms(o)}
  BY <1>1 DEF Confirms
<1> QED  BY <1>3, <1>4 DEF References, Carriers, Occurs, One

LEMMA SharedIsInv == SharedIInv => SharedDataInv
<1> SUFFICES ASSUME SharedIInv PROVE SharedDataInv
  OBVIOUS
<1>1. CountedExactly
  <2> SUFFICES ASSUME NEW o \in Object
               PROVE  /\ getref[o] = References(o) + lost[o]
                      /\ o \in gone => References(o) = 0
                      /\ lost[o] > 0 => deaths > 0 \/ deleted
    BY DEF CountedExactly
  <2>1. /\ getref[o] \in Nat /\ lost[o] \in Nat /\ Carriers(boxes, inbox, o) \in Nat /\ Occurs(asked, Confirms(o)) \in Nat
        /\ getref[o] = One(pool = o) + Carriers(boxes, inbox, o) + Occurs(asked, Confirms(o)) + lost[o]
    BY ObjectFacts
  <2>2. Counts(o)
    BY DEF SharedIInv, CountInv
  <2>3. References(o) = One(pool = o) + Carriers(boxes, inbox, o) + Occurs(asked, Confirms(o)) /\ One(pool = o) \in Nat
    BY ReferencesAre DEF One
  <2>4. getref[o] = References(o) + lost[o] /\ References(o) \in Nat
    BY <2>1, <2>3
  <2>5. o \in gone => getref[o] = 0
    BY <2>2 DEF Counts
  <2>6. lost[o] > 0 => deaths > 0 \/ deleted
    BY <2>2 DEF Counts
  <2> QED  BY <2>1, <2>4, <2>5, <2>6
<1>2. WatchedFor
  <2> SUFFICES ASSUME NEW c \in Client, Alive(c)
               PROVE  /\ monitor[c] = "call" => c \in watch \cup orphans \/ UnderWay(c)
                      /\ c \in watch => pool = Latest(c)
                      /\ monitor[c] = "error" => deleted
    BY DEF WatchedFor, Latest
  <2>1. CallsOnce(c) /\ AsksLatest(c)
    BY DEF SharedIInv, ClientInv
  <2>2. inbox[c] \in Seq(Answers) /\ asked \in Seq(Asking)
    BY DEF SharedIInv, SharedTypes
  <2>3. ASSUME Occurs(asked, AsksOf("monitor", c)) # 0 PROVE UnderWay(c)
    <3>1. PICK i \in DOMAIN asked : asked[i] \in AsksOf("monitor", c)
      BY <2>2, <2>3, OccursSome
    <3> QED  BY <3>1 DEF UnderWay, AsksOf
  <2>4. ASSUME Occurs(inbox[c], AnswersTo("monitor")) # 0 PROVE UnderWay(c)
    <3>1. PICK i \in DOMAIN inbox[c] : inbox[c][i] \in AnswersTo("monitor")
      BY <2>2, <2>4, OccursSome
    <3> QED  BY <3>1 DEF UnderWay, AnswersTo
  <2>5. ASSUME Monitoring(c) = 1 PROVE c \in watch \/ UnderWay(c)
    BY <2>3, <2>4, <2>5 DEF Monitoring, One
  <2> QED  BY <2>1, <2>5 DEF CallsOnce, AsksLatest
<1> QED  BY <1>1, <1>2 DEF SharedDataInv

(* Theorem: in every reachable state of sharedatad and any number of       *)
(* clients, getref of an object is the number of its references, but for   *)
(* those that went with a client or with a failed monitor; none that has   *)
(* references is freed; and a monitor that calls is watched for or has its *)
(* question or its answer under way, about the object that is the latest.  *)
THEOREM SharedDataHolds == SharedSpec => []SharedDataInv
<1>1. SharedInit => SharedIInv
  BY SharedInitHolds
<1>2. SharedIInv /\ [SharedNext]_sharedVars => SharedIInv'
  BY SharedKeeps
<1>3. SharedIInv => SharedDataInv
  BY SharedIsInv
<1> QED  BY <1>1, <1>2, <1>3, PTL DEF SharedSpec

(* Theorem: the pointers that a client reads its tables through are of     *)
(* objects that are not freed, in sd.box and in its value.                 *)
NoneFreed == \A c \in Client : {obj[c], update[c]} \cap gone = {}
THEOREM PointersLive == SharedSpec => []NoneFreed
<1>1. SharedInit => SharedIInv
  BY SharedInitHolds
<1>2. SharedIInv /\ [SharedNext]_sharedVars => SharedIInv'
  BY SharedKeeps
<1>3. SharedIInv => NoneFreed
  <2> SUFFICES ASSUME SharedIInv, NEW c \in Client, NEW o \in gone PROVE obj[c] # o /\ update[c] # o
    BY DEF NoneFreed
  <2>1. o \in Object /\ objmap[o] = "nil"
    BY DEF SharedIInv, SharedTypes, CountInv, Counts
  <2>2. boxes[c][o] = 0
    BY <2>1, ObjectFacts
  <2>3. CASE Alive(c)
    <3>1. Reached(c, o) <= 0 /\ Reached(c, o) = One(obj[c] = o) + One(update[c] = o)
      BY <2>1, <2>2, <2>3, ReachedIs DEF SharedIInv, ClientInv, AsksLatest
    <3> QED  BY <3>1 DEF One
  <2>4. CASE ~Alive(c)
    BY <2>1, <2>4, NoObjIs DEF SharedIInv, DeadInv, Ended
  <2> QED  BY <2>3, <2>4
<1> QED  BY <1>1, <1>2, <1>3, PTL DEF SharedSpec
=============================================================================
