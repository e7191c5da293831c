----------------------------- MODULE HarborProofs -----------------------------
(***************************************************************************)
(* Proofs about Harbor for every set of peers, services and names, and any *)
(* number of messages: each message has one fate, none stays in a queue    *)
(* that nobody will empty, and a socket carries the handshake and then the *)
(* messages for each service and each name in their order.                 *)
(***************************************************************************)
EXTENDS Harbor, SequenceTheorems, TLAPS

Harbors == Peer \cup {Self}
Msg == [id : Nat, to : Handle \cup Name, dest : Nat]
Cell == Msg \cup {Hello}

(* Whom the messages of a sequence are meant for *)
Tos(ms) == {ms[i].to : i \in {j \in DOMAIN ms : ms[j].id # 0}}

(* Messages for the same destination have ascending ids, in one sequence   *)
(* and from one to another that is sent after it.                          *)
Before(ms, ns) ==
    \A i \in DOMAIN ms : \A j \in DOMAIN ns :
        (ms[i].id # 0 /\ ns[j].id # 0 /\ ms[i].to = ns[j].to) => ms[i].id < ns[j].id
Ordered(ms) ==
    \A i, j \in DOMAIN ms :
        (i < j /\ ms[i].id # 0 /\ ms[j].id # 0 /\ ms[i].to = ms[j].to) => ms[i].id < ms[j].id

-----------------------------------------------------------------------------
(* Every cell has an id, which is a number. *)
LEMMA CellId == ASSUME NEW m \in Cell PROVE m.id \in Nat
BY DEF Cell, Msg, Hello

(* The cells of two sequences, one after the other *)
LEMMA ConcatCells ==
    ASSUME NEW a \in Seq(Cell), NEW b \in Seq(Cell)
    PROVE  /\ a \o b \in Seq(Cell)
           /\ Len(a) \in Nat /\ Len(b) \in Nat /\ Len(a \o b) = Len(a) + Len(b)
           /\ DOMAIN a = 1 .. Len(a) /\ DOMAIN b = 1 .. Len(b)
           /\ DOMAIN (a \o b) = 1 .. Len(a) + Len(b)
           /\ \A i \in 1 .. Len(a) : (a \o b)[i] = a[i]
           /\ \A j \in 1 .. Len(b) : (a \o b)[Len(a) + j] = b[j]
           /\ \A k \in 1 .. Len(a) + Len(b) :
                 \/ k \in 1 .. Len(a)
                 \/ k - Len(a) \in 1 .. Len(b) /\ (a \o b)[k] = b[k - Len(a)]
OBVIOUS

(* A concatenation carries the messages of both parts, *)
LEMMA ConcatIds ==
    ASSUME NEW a \in Seq(Cell), NEW b \in Seq(Cell)
    PROVE  Ids(a \o b) = Ids(a) \cup Ids(b)
<1>1. \A i \in DOMAIN a : i \in DOMAIN (a \o b) /\ (a \o b)[i].id = a[i].id
  BY ConcatCells
<1>2. \A j \in DOMAIN b : Len(a) + j \in DOMAIN (a \o b) /\ (a \o b)[Len(a) + j].id = b[j].id
  BY ConcatCells
<1>3. \A k \in DOMAIN (a \o b) : \/ k \in DOMAIN a
                                 \/ k - Len(a) \in DOMAIN b /\ (a \o b)[k].id = b[k - Len(a)].id
  BY ConcatCells
<1> HIDE DEF Ids
<1>4. Ids(a) \subseteq Ids(a \o b)  BY <1>1 DEF Ids
<1>5. Ids(b) \subseteq Ids(a \o b)  BY <1>2 DEF Ids
<1>6. Ids(a \o b) \subseteq Ids(a) \cup Ids(b)  BY <1>1, <1>3 DEF Ids
<1> QED  BY <1>4, <1>5, <1>6

(* for the destinations of both parts, *)
LEMMA ConcatTos ==
    ASSUME NEW a \in Seq(Cell), NEW b \in Seq(Cell)
    PROVE  Tos(a \o b) = Tos(a) \cup Tos(b)
<1>1. \A i \in DOMAIN a : i \in DOMAIN (a \o b) /\ (a \o b)[i] = a[i]
  BY ConcatCells
<1>2. \A j \in DOMAIN b : Len(a) + j \in DOMAIN (a \o b) /\ (a \o b)[Len(a) + j] = b[j]
  BY ConcatCells
<1>3. \A k \in DOMAIN (a \o b) : \/ k \in DOMAIN a
                                 \/ k - Len(a) \in DOMAIN b /\ (a \o b)[k] = b[k - Len(a)]
  BY ConcatCells
<1>4. Tos(a) \subseteq Tos(a \o b)  BY <1>1 DEF Tos
<1>5. Tos(b) \subseteq Tos(a \o b)  BY <1>2 DEF Tos
<1>6. Tos(a \o b) \subseteq Tos(a) \cup Tos(b)  BY <1>1, <1>3 DEF Tos
<1> QED  BY <1>4, <1>5, <1>6

(* each message once, when the parts share none, *)
LEMMA ConcatOnce ==
    ASSUME NEW a \in Seq(Cell), NEW b \in Seq(Cell), Once(a), Once(b), Ids(a) \cap Ids(b) = {}
    PROVE  Once(a \o b)
<1> SUFFICES ASSUME NEW i \in DOMAIN (a \o b), NEW j \in DOMAIN (a \o b),
                    (a \o b)[i].id = (a \o b)[j].id
             PROVE  i = j
  BY DEF Once
<1>1. \A k \in DOMAIN a : a[k].id \in Ids(a)  BY DEF Ids
<1>2. \A k \in DOMAIN b : b[k].id \in Ids(b)  BY DEF Ids
<1>3. CASE i \in DOMAIN a /\ j \in DOMAIN a
  BY <1>3, ConcatCells DEF Once
<1>4. CASE i \notin DOMAIN a /\ j \notin DOMAIN a
  BY <1>4, ConcatCells DEF Once
<1>5. CASE i \in DOMAIN a /\ j \notin DOMAIN a
  BY <1>1, <1>2, <1>5, ConcatCells
<1>6. CASE i \notin DOMAIN a /\ j \in DOMAIN a
  BY <1>1, <1>2, <1>6, ConcatCells
<1> QED  BY <1>3, <1>4, <1>5, <1>6

(* in order, when the first part was sent before the second, *)
LEMMA ConcatOrdered ==
    ASSUME NEW a \in Seq(Cell), NEW b \in Seq(Cell), Ordered(a), Ordered(b), Before(a, b)
    PROVE  Ordered(a \o b)
<1> SUFFICES ASSUME NEW i \in DOMAIN (a \o b), NEW j \in DOMAIN (a \o b), i < j,
                    (a \o b)[i].id # 0, (a \o b)[j].id # 0, (a \o b)[i].to = (a \o b)[j].to
             PROVE  (a \o b)[i].id < (a \o b)[j].id
  BY DEF Ordered
<1>1. CASE i \in DOMAIN a /\ j \in DOMAIN a
  BY <1>1, ConcatCells DEF Ordered
<1>2. CASE i \notin DOMAIN a /\ j \notin DOMAIN a
  <2>1. /\ i - Len(a) \in DOMAIN b /\ j - Len(a) \in DOMAIN b /\ i - Len(a) < j - Len(a)
        /\ (a \o b)[i] = b[i - Len(a)] /\ (a \o b)[j] = b[j - Len(a)]
    BY <1>2, ConcatCells
  <2> QED  BY <2>1 DEF Ordered
<1>3. CASE i \in DOMAIN a /\ j \notin DOMAIN a
  BY <1>3, ConcatCells DEF Before
<1>4. CASE i \notin DOMAIN a /\ j \in DOMAIN a
  BY <1>4, ConcatCells
<1> QED  BY <1>1, <1>2, <1>3, <1>4

(* and it is before or after what both parts are before or after. *)
LEMMA ConcatBefore ==
    ASSUME NEW a \in Seq(Cell), NEW b \in Seq(Cell), NEW c \in Seq(Cell)
    PROVE  /\ Before(a, c) /\ Before(b, c) => Before(a \o b, c)
           /\ Before(c, a) /\ Before(c, b) => Before(c, a \o b)
<1>1. \A k \in DOMAIN (a \o b) : \/ k \in DOMAIN a /\ (a \o b)[k] = a[k]
                                 \/ k - Len(a) \in DOMAIN b /\ (a \o b)[k] = b[k - Len(a)]
  BY ConcatCells
<1> QED  BY <1>1 DEF Before

(* What keeps two sequences in order: nobody gets messages from both, or   *)
(* all ids of the second are larger.                                       *)
LEMMA ApartBefore ==
    ASSUME NEW a \in Seq(Cell), NEW b \in Seq(Cell),
           Tos(a) \cap Tos(b) = {} \/ \A x \in Ids(a), y \in Ids(b) : x < y
    PROVE  Before(a, b)
<1> SUFFICES ASSUME NEW i \in DOMAIN a, NEW j \in DOMAIN b,
                    a[i].id # 0, b[j].id # 0, a[i].to = b[j].to
             PROVE  a[i].id < b[j].id
  BY DEF Before
<1>1. a[i].id \in Ids(a) /\ b[j].id \in Ids(b)
  BY DEF Ids
<1>2. a[i].to \in Tos(a) /\ b[j].to \in Tos(b)
  BY DEF Tos
<1> QED  BY <1>1, <1>2

(* A sequence of one cell, and of none *)
LEMMA OneCell ==
    ASSUME NEW m \in Cell
    PROVE  /\ <<m>> \in Seq(Cell) /\ Ids(<<m>>) = {m.id} /\ Once(<<m>>) /\ Ordered(<<m>>)
           /\ Tos(<<m>>) \subseteq {m.to} /\ (m.id = 0 => Tos(<<m>>) = {})
<1>1. <<m>> \in Seq(Cell) /\ DOMAIN <<m>> = {1} /\ <<m>>[1] = m
  OBVIOUS
<1> QED  BY <1>1 DEF Ids, Once, Ordered, Tos

(* An empty queue has all of these properties. *)
LEMMA NoCell ==
    /\ <<>> \in Seq(Cell) /\ <<>> \in Seq(Msg) /\ Ids(<<>>) = {} /\ Tos(<<>>) = {} /\ Once(<<>>) /\ Ordered(<<>>)
    /\ \A ms : Before(<<>>, ms) /\ Before(ms, <<>>)
<1>1. DOMAIN <<>> = {}
  OBVIOUS
<1> QED  BY <1>1 DEF Ids, Once, Ordered, Tos, Before

(* Messages are cells; an empty sequence has no ids. *)
LEMMA MsgCells == ASSUME NEW ms \in Seq(Msg) PROVE ms \in Seq(Cell)
BY SeqMonotonic DEF Cell

(* What Addressed changes is none of this. *)
LEMMA AddressedSame ==
    ASSUME NEW ms \in Seq(Msg), NEW h \in Handle
    PROVE  /\ Addressed(ms, h) \in Seq(Msg)
           /\ Ids(Addressed(ms, h)) = Ids(ms) /\ Tos(Addressed(ms, h)) = Tos(ms)
           /\ Once(ms) => Once(Addressed(ms, h))
           /\ Ordered(ms) => Ordered(Addressed(ms, h))
<1> DEFINE as == Addressed(ms, h)
<1>1. h.service \in Nat
  BY HarborAssumption DEF Handle
<1>2. \A i \in DOMAIN ms : ms[i] \in Msg
  OBVIOUS
<1>3. DOMAIN as = DOMAIN ms
  BY DEF Addressed
<1>4. \A i \in DOMAIN ms : as[i] \in Msg /\ as[i].id = ms[i].id /\ as[i].to = ms[i].to
  BY <1>1, <1>2 DEF Addressed, Msg
<1>5. as \in Seq(Msg)
  <2>1. DOMAIN ms = 1 .. Len(ms) /\ Len(ms) \in Nat
    OBVIOUS
  <2>2. as = [i \in 1 .. Len(ms) |-> as[i]]
    BY <2>1 DEF Addressed
  <2> HIDE DEF as
  <2>3. as \in [1 .. Len(ms) -> Msg]
    BY <2>1, <2>2, <1>4
  <2> QED  BY <2>1, <2>3, SeqDef
<1> HIDE DEF as
<1>6. Ids(as) = Ids(ms)  BY <1>3, <1>4 DEF Ids
<1>7. Tos(as) = Tos(ms)  BY <1>3, <1>4 DEF Tos
<1>8. Once(ms) => Once(as)  BY <1>3, <1>4 DEF Once
<1>9. Ordered(ms) => Ordered(as)  BY <1>3, <1>4 DEF Ordered
<1> QED  BY <1>5, <1>6, <1>7, <1>8, <1>9 DEF as

(* The handshake stays the first cell of a socket, and the only one. *)
HelloHead(ms) == \A i \in DOMAIN ms : (ms[i].id = 0) <=> (i = 1)

(* What is written behind the handshake leaves it at the head. *)
LEMMA ConcatHello ==
    ASSUME NEW a \in Seq(Cell), NEW b \in Seq(Cell), a # <<>>, HelloHead(a), 0 \notin Ids(b)
    PROVE  HelloHead(a \o b)
<1> SUFFICES ASSUME NEW k \in DOMAIN (a \o b)
             PROVE  ((a \o b)[k].id = 0) <=> (k = 1)
  BY DEF HelloHead
<1>1. Len(a) >= 1
  OBVIOUS
<1>2. CASE k \in DOMAIN a
  BY <1>2, ConcatCells DEF HelloHead
<1>3. CASE k \notin DOMAIN a
  <2>1. k - Len(a) \in DOMAIN b /\ (a \o b)[k] = b[k - Len(a)] /\ k > 1
    BY <1>1, <1>3, ConcatCells
  <2>2. b[k - Len(a)].id # 0
    BY <2>1 DEF Ids
  <2> QED  BY <2>1, <2>2
<1> QED  BY <1>2, <1>3

(* Append is a concatenation with one element. *)
LEMMA AppendConcat == ASSUME NEW S, NEW s \in Seq(S), NEW m \in S PROVE Append(s, m) = s \o <<m>>
BY AppendIsConcat

-----------------------------------------------------------------------------
(* The ids in some of several sequences *)
LEMMA IdsAtIs ==
    ASSUME NEW f, NEW S
    PROVE  \A i : i \in IdsAt(f, S) <=> \E x \in S : i \in Ids(f[x])
BY DEF IdsAt

(* The places that a message may be in, and the ids in each of them *)
Place == {<<"wire", p>> : p \in Peer} \cup {<<"queue", p>> : p \in Harbors}
         \cup {<<"name", n>> : n \in Name} \cup {<<"local", 0>>, <<"dropped", 0>>}
Held == [x \in Place |-> CASE x[1] = "wire" -> Ids(wire[x[2]]) \ {0}
                           [] x[1] = "queue" -> Ids(queue[x[2]])
                           [] x[1] = "name" -> Ids(nqueue[x[2]])
                           [] x[1] = "local" -> Ids(local)
                           [] OTHER -> dropped]

(* Every message so far is in one place. *)
Fate == /\ \A x \in Place : Held[x] \subseteq 1 .. sent
        /\ \A i \in 1 .. sent : \E x \in Place : i \in Held[x]
        /\ \A x, y \in Place : x # y => Held[x] \cap Held[y] = {}

Status == {"WAIT", "HANDSHAKE", "HEADER", "DOWN"}

HTypeOK ==
    /\ fd \subseteq Peer /\ alive \subseteq fd /\ sent \in Nat
    /\ status \in [Harbors -> Status]
    /\ queue \in [Harbors -> Seq(Msg)] /\ nqueue \in [Name -> Seq(Msg)]
    /\ value \in [Name -> Handle \cup {NoHandle}]
    /\ wire \in [Peer -> Seq(Cell)] /\ local \in Seq(Msg)

(* A harbor without a socket has never had one, and nothing was written. *)
Linked == /\ \A p \in Harbors : p \notin fd <=> status[p] = "WAIT"
          /\ \A p \in Peer : wire[p] = <<>> <=> p \notin fd

AllOnce == /\ Once(local) /\ \A p \in Peer : Once(wire[p])
           /\ (\A p \in Harbors : Once(queue[p])) /\ \A n \in Name : Once(nqueue[n])

(* What waits for a peer comes after what was written to it. *)
Orders == /\ \A p \in Peer : Ordered(wire[p]) /\ Ordered(queue[p]) /\ Before(wire[p], queue[p])
          /\ \A n \in Name : Ordered(nqueue[n])

(* All messages for a name that is not known are in its queue. *)
Unknown ==
    \A n \in Name : /\ Tos(nqueue[n]) \subseteq {n}
                    /\ value[n] = NoHandle => \A p \in Peer : n \notin Tos(wire[p]) /\ n \notin Tos(queue[p])

Hellos == \A p \in Peer : HelloHead(wire[p])

HarborInv == HTypeOK /\ Fate /\ Linked /\ AllOnce /\ NothingStuck /\ Orders /\ Unknown /\ Hellos

(* What is held where, by the kind of the place *)
HeldIs == /\ \A p \in Peer : <<"wire", p>> \in Place /\ Held[<<"wire", p>>] = Ids(wire[p]) \ {0}
          /\ \A p \in Harbors : <<"queue", p>> \in Place /\ Held[<<"queue", p>>] = Ids(queue[p])
          /\ \A n \in Name : <<"name", n>> \in Place /\ Held[<<"name", n>>] = Ids(nqueue[n])
          /\ <<"local", 0>> \in Place /\ Held[<<"local", 0>>] = Ids(local)
          /\ <<"dropped", 0>> \in Place /\ Held[<<"dropped", 0>>] = dropped

(* Where a message is held, before and after a step *)
LEMMA HeldAt == HeldIs /\ HeldIs'
<1>1. HeldIs
  BY DEF HeldIs, Held, Place
<1>2. HeldIs'
  BY DEF HeldIs, Held, Place
<1> QED  BY <1>1, <1>2

(* The places, one kind at a time *)
LEMMA Places ==
    ASSUME NEW x \in Place
    PROVE  \/ \E p \in Peer : x = <<"wire", p>>
           \/ \E p \in Harbors : x = <<"queue", p>>
           \/ \E n \in Name : x = <<"name", n>>
           \/ x = <<"local", 0>> \/ x = <<"dropped", 0>>
BY DEF Place

(* If the messages in G, old or new, go to the place y and leave the       *)
(* others, each message is still in one place.                             *)
LEMMA FateStep ==
    ASSUME Fate, sent \in Nat, sent' \in Nat, NEW y \in Place, NEW G,
           G \subseteq 1 .. sent', 1 .. sent \subseteq 1 .. sent', 1 .. sent' \subseteq (1 .. sent) \cup G,
           Held'[y] = Held[y] \cup G,
           \A x \in Place \ {y} : Held'[x] = Held[x] \ G
    PROVE  Fate'
<1> DEFINE I == 1 .. sent
           J == 1 .. sent'
<1>0. Place' = Place
  BY DEF Place, Harbors
<1> HIDE DEF I, J
<1>1. \A x \in Place : Held[x] \subseteq I
  BY DEF Fate, I
<1>2. \A i \in I : \E x \in Place : i \in Held[x]
  BY DEF Fate, I
<1>3. \A x, z \in Place : x # z => Held[x] \cap Held[z] = {}
  BY DEF Fate
<1>4. G \subseteq J /\ I \subseteq J /\ J \subseteq I \cup G
  BY DEF I, J
<1>5. \A x \in Place : Held'[x] \subseteq J
  BY <1>1, <1>4
<1>6. \A i \in J : \E x \in Place : i \in Held'[x]
  BY <1>2, <1>4
<1>7. \A x, z \in Place : x # z => Held'[x] \cap Held'[z] = {}
  BY <1>3
<1> QED  BY <1>0, <1>5, <1>6, <1>7 DEF Fate, J

(* The states a step gives to a peer are states of the source. *)
LEMMA Statuses == {"WAIT", "HANDSHAKE", "HEADER", "DOWN"} \subseteq Status
BY DEF Status

(* HarborInv in the beginning *)
LEMMA HarborInit == Init => HarborInv
<1> SUFFICES ASSUME Init PROVE HarborInv
  OBVIOUS
<1>1. HTypeOK
  BY NoCell, Statuses DEF Init, HTypeOK, Harbors
<1>2. \A x \in Place : Held[x] = {}
  BY HeldAt, Places, NoCell DEF HeldIs, Init, Harbors
<1>3. Fate
  BY <1>2 DEF Fate, Init
<1>4. Linked /\ NothingStuck
  BY DEF Init, Linked, NothingStuck, Harbors
<1>5. AllOnce /\ Orders /\ Unknown
  BY NoCell DEF Init, AllOnce, Orders, Unknown, Harbors
<1>6. Hellos
  BY DEF Init, Hellos, HelloHead
<1> QED  BY <1>1, <1>3, <1>4, <1>5, <1>6 DEF HarborInv

-----------------------------------------------------------------------------
(* Facts that every step needs about the sequences of a state *)
LEMMA Cells ==
    ASSUME HTypeOK
    PROVE  /\ \A p \in Peer : p \in Harbors /\ wire[p] \in Seq(Cell)
           /\ \A p \in Harbors : queue[p] \in Seq(Msg) /\ queue[p] \in Seq(Cell)
           /\ \A n \in Name : nqueue[n] \in Seq(Msg) /\ nqueue[n] \in Seq(Cell)
           /\ local \in Seq(Msg) /\ local \in Seq(Cell)
BY MsgCells DEF HTypeOK, Harbors

(* Ids are those of messages that were sent, and two places share none. *)
LEMMA HeldApart ==
    ASSUME Fate, HTypeOK
    PROVE  /\ \A p \in Peer : Ids(wire[p]) \subseteq (1 .. sent) \cup {0}
           /\ \A p \in Harbors : Ids(queue[p]) \subseteq 1 .. sent
           /\ \A n \in Name : Ids(nqueue[n]) \subseteq 1 .. sent
           /\ Ids(local) \subseteq 1 .. sent /\ dropped \subseteq 1 .. sent
           /\ \A p \in Peer, q \in Harbors : Ids(wire[p]) \cap Ids(queue[q]) = {}
           /\ \A n \in Name : /\ \A p \in Peer : Ids(wire[p]) \cap Ids(nqueue[n]) = {}
                              /\ \A p \in Harbors : Ids(queue[p]) \cap Ids(nqueue[n]) = {}
                              /\ \A m \in Name \ {n} : Ids(nqueue[m]) \cap Ids(nqueue[n]) = {}
                              /\ Ids(local) \cap Ids(nqueue[n]) = {}
                              /\ dropped \cap Ids(nqueue[n]) = {}
<1>1. HeldIs
  BY HeldAt
<1>2. /\ \A p \in Peer : Ids(wire[p]) \ {0} \subseteq 1 .. sent
      /\ \A p \in Harbors : Ids(queue[p]) \subseteq 1 .. sent
      /\ \A n \in Name : Ids(nqueue[n]) \subseteq 1 .. sent
      /\ Ids(local) \subseteq 1 .. sent /\ dropped \subseteq 1 .. sent
  <2> DEFINE I == 1 .. sent
  <2>1. \A x \in Place : Held[x] \subseteq I
    BY DEF Fate
  <2> HIDE DEF I
  <2>2. \A p \in Peer : Ids(wire[p]) \ {0} \subseteq I
    BY <1>1, <2>1 DEF HeldIs
  <2>3. \A p \in Harbors : Ids(queue[p]) \subseteq I
    BY <1>1, <2>1 DEF HeldIs
  <2>4. \A n \in Name : Ids(nqueue[n]) \subseteq I
    BY <1>1, <2>1 DEF HeldIs
  <2>5. Ids(local) \subseteq I /\ dropped \subseteq I
    BY <1>1, <2>1 DEF HeldIs
  <2> QED  BY <2>2, <2>3, <2>4, <2>5 DEF I
<1>3. sent \in Nat
  BY DEF HTypeOK
<1>4. ASSUME NEW x \in Place, NEW y \in Place, x # y
      PROVE  Held[x] \cap Held[y] = {}
  BY <1>4 DEF Fate
<1>5. \A p \in Peer, q \in Harbors : (Ids(wire[p]) \ {0}) \cap Ids(queue[q]) = {}
  <2> TAKE p \in Peer, q \in Harbors
  <2>1. <<"wire", p>> # <<"queue", q>>
    OBVIOUS
  <2> QED  BY <1>1, <1>4, <2>1 DEF HeldIs
<1>6. ASSUME NEW n \in Name
      PROVE  /\ \A p \in Peer : (Ids(wire[p]) \ {0}) \cap Ids(nqueue[n]) = {}
             /\ \A p \in Harbors : Ids(queue[p]) \cap Ids(nqueue[n]) = {}
             /\ \A m \in Name \ {n} : Ids(nqueue[m]) \cap Ids(nqueue[n]) = {}
             /\ Ids(local) \cap Ids(nqueue[n]) = {}
             /\ dropped \cap Ids(nqueue[n]) = {}
  <2>1. \A p \in Harbors : <<"wire", p>> # <<"name", n>> /\ <<"queue", p>> # <<"name", n>>
    OBVIOUS
  <2>2. \A m \in Name \ {n} : <<"name", m>> # <<"name", n>>
    OBVIOUS
  <2>3. <<"local", 0>> # <<"name", n>> /\ <<"dropped", 0>> # <<"name", n>>
    OBVIOUS
  <2>4. \A p \in Peer : (Ids(wire[p]) \ {0}) \cap Ids(nqueue[n]) = {}
    BY <1>1, <1>4, <2>1 DEF HeldIs, Harbors
  <2>5. \A p \in Harbors : Ids(queue[p]) \cap Ids(nqueue[n]) = {}
    BY <1>1, <1>4, <2>1, ZenonT(30) DEF HeldIs
  <2>6. \A m \in Name \ {n} : Ids(nqueue[m]) \cap Ids(nqueue[n]) = {}
    BY <1>1, <1>4, <2>2, ZenonT(30) DEF HeldIs
  <2>7. Ids(local) \cap Ids(nqueue[n]) = {} /\ dropped \cap Ids(nqueue[n]) = {}
    BY <1>1, <1>4, <2>3 DEF HeldIs
  <2> QED  BY <2>4, <2>5, <2>6, <2>7
<1>7. \A p \in Peer, q \in Harbors : Ids(wire[p]) \cap Ids(queue[q]) = {}
  BY <1>2, <1>3, <1>5
<1>8. \A n \in Name, p \in Peer : Ids(wire[p]) \cap Ids(nqueue[n]) = {}
  BY <1>2, <1>3, <1>6
<1> QED  BY <1>2, <1>6, <1>7, <1>8

(* Messages ms go to where the handle h is: to a service of this node, to  *)
(* the socket or the queue of a peer, or nowhere.                          *)
PutLocal(ms) == local' = local \o ms /\ UNCHANGED <<queue, wire, dropped>>
PutWire(ms, p) == /\ p \in alive /\ Before(ms, queue[p])
                  /\ wire' = [wire EXCEPT ![p] = @ \o ms] /\ UNCHANGED <<queue, local, dropped>>
PutNowhere(ms) == dropped' = dropped \cup Ids(ms) /\ UNCHANGED <<queue, wire, local>>
PutQueue(ms, p) == /\ p \in Peer /\ status[p] \in {"WAIT", "HANDSHAKE"}
                   /\ queue' = [queue EXCEPT ![p] = @ \o ms] /\ UNCHANGED <<wire, local, dropped>>

(* They are new, or leave the queue of a name; nothing else has their ids. *)
Source(ms) ==
    /\ ms \in Seq(Msg) /\ Once(ms) /\ Ordered(ms)
    /\ \A p \in Peer : /\ Before(wire[p], ms) /\ Before(queue[p], ms)
                       /\ Ids(wire[p]) \cap Ids(ms) = {}
    /\ \A p \in Harbors : Ids(queue[p]) \cap Ids(ms) = {}
    /\ Ids(local) \cap Ids(ms) = {} /\ dropped \cap Ids(ms) = {}
    /\ sent' \in Nat /\ Ids(ms) \subseteq 1 .. sent'
    /\ 1 .. sent \subseteq 1 .. sent' /\ 1 .. sent' \subseteq (1 .. sent) \cup Ids(ms)
    /\ nqueue' \in [Name -> Seq(Msg)] /\ value' \in [Name -> Handle \cup {NoHandle}]
    /\ \A n \in Name : /\ Ids(nqueue'[n]) = Ids(nqueue[n]) \ Ids(ms)
                       /\ nqueue'[n] \in {nqueue[n], <<>>}
                       /\ value'[n] = NoHandle => value[n] = NoHandle /\ n \notin Tos(ms)
                       /\ nqueue'[n] # <<>> => value'[n] = NoHandle

(* The part of the invariant that does not depend on where they go *)
LEMMA SourceKeeps ==
    ASSUME HarborInv, NEW ms, Source(ms)
    PROVE  /\ \A n \in Name : Once(nqueue'[n]) /\ Ordered(nqueue'[n]) /\ Tos(nqueue'[n]) \subseteq {n}
           /\ \A n \in Name : Held'[<<"name", n>>] = Held[<<"name", n>>] \ Ids(ms)
           /\ ms \in Seq(Cell) /\ 0 \notin Ids(ms)
<1>1. \A n \in Name : Once(nqueue[n]) /\ Ordered(nqueue[n]) /\ Tos(nqueue[n]) \subseteq {n}
  BY DEF HarborInv, AllOnce, Orders, Unknown
<1>2. \A n \in Name : nqueue'[n] = nqueue[n] \/ nqueue'[n] = <<>>
  BY DEF Source
<1>3. \A n \in Name : Once(nqueue'[n]) /\ Ordered(nqueue'[n]) /\ Tos(nqueue'[n]) \subseteq {n}
  BY <1>1, <1>2, NoCell
<1>4. \A n \in Name : Held'[<<"name", n>>] = Held[<<"name", n>>] \ Ids(ms)
  <2> TAKE n \in Name
  <2>1. Held'[<<"name", n>>] = Ids(nqueue'[n]) /\ Held[<<"name", n>>] = Ids(nqueue[n])
    BY HeldAt DEF HeldIs
  <2>2. Ids(nqueue'[n]) = Ids(nqueue[n]) \ Ids(ms)
    BY DEF Source
  <2> QED  BY <2>1, <2>2
<1>5. ms \in Seq(Cell) /\ 0 \notin Ids(ms)
  BY MsgCells DEF Source
<1> QED  BY <1>3, <1>4, <1>5

(* A place that they do not go to *)
LEMMA Elsewhere ==
    ASSUME HarborInv, NEW ms, Source(ms), NEW x \in Place,
           \A q \in Peer : x = <<"wire", q>> => wire'[q] = wire[q],
           \A q \in Harbors : x = <<"queue", q>> => queue'[q] = queue[q],
           x = <<"local", 0>> => local' = local,
           x = <<"dropped", 0>> => dropped' = dropped
    PROVE  Held'[x] = Held[x] \ Ids(ms)
<1>1. CASE \E q \in Peer : x = <<"wire", q>>
  BY <1>1, HeldAt DEF HeldIs, Source
<1>2. CASE \E q \in Harbors : x = <<"queue", q>>
  BY <1>2, HeldAt DEF HeldIs, Source
<1>3. CASE \E n \in Name : x = <<"name", n>>
  BY <1>3, SourceKeeps
<1>4. CASE x = <<"local", 0>>
  BY <1>4, HeldAt DEF HeldIs, Source
<1>5. CASE x = <<"dropped", 0>>
  BY <1>5, HeldAt DEF HeldIs, Source
<1> QED  BY <1>1, <1>2, <1>3, <1>4, <1>5, Places

(* A message that is delivered here keeps the invariant, *)
LEMMA PutLocalKeeps ==
    ASSUME HarborInv, NEW ms, Source(ms), PutLocal(ms), UNCHANGED peerVars
    PROVE  HarborInv'
<1> DEFINE y == <<"local", 0>>
<1> USE DEF HarborInv
<1>1. /\ \A n \in Name : Once(nqueue'[n]) /\ Ordered(nqueue'[n]) /\ Tos(nqueue'[n]) \subseteq {n}
      /\ \A n \in Name : Held'[<<"name", n>>] = Held[<<"name", n>>] \ Ids(ms)
      /\ ms \in Seq(Cell)
  BY SourceKeeps
<1>2. local \in Seq(Cell) /\ local \in Seq(Msg) /\ ms \in Seq(Msg)
  BY Cells DEF Source
<1>3. Ids(local') = Ids(local) \cup Ids(ms) /\ Once(local') /\ local' \in Seq(Msg)
  BY <1>1, <1>2, ConcatIds, ConcatOnce DEF PutLocal, Source, AllOnce
<1>4. HTypeOK'
  BY <1>3 DEF HTypeOK, PutLocal, Source, peerVars
<1>5. Fate'
  <2>1. y \in Place /\ Held'[y] = Held[y] \cup Ids(ms)
    BY <1>3, HeldAt DEF HeldIs
  <2>2. ASSUME NEW x \in Place \ {y} PROVE Held'[x] = Held[x] \ Ids(ms)
    BY Elsewhere DEF PutLocal
  <2> QED  BY <2>1, <2>2, FateStep DEF HTypeOK, Source
<1>6. Linked' /\ NothingStuck'
  BY DEF Linked, NothingStuck, PutLocal, Source, peerVars
<1>7. AllOnce' /\ Orders'
  BY <1>1, <1>3 DEF AllOnce, Orders, PutLocal
<1>8. Unknown'
  BY <1>1 DEF Unknown, PutLocal, Source
<1>9. Hellos'
  BY DEF Hellos, PutLocal
<1> QED  BY <1>4, <1>5, <1>6, <1>7, <1>8, <1>9

(* one that is dropped, *)
LEMMA PutNowhereKeeps ==
    ASSUME HarborInv, NEW ms, Source(ms), PutNowhere(ms), UNCHANGED peerVars
    PROVE  HarborInv'
<1> DEFINE y == <<"dropped", 0>>
<1> USE DEF HarborInv
<1>1. /\ \A n \in Name : Once(nqueue'[n]) /\ Ordered(nqueue'[n]) /\ Tos(nqueue'[n]) \subseteq {n}
      /\ \A n \in Name : Held'[<<"name", n>>] = Held[<<"name", n>>] \ Ids(ms)
  BY SourceKeeps
<1>2. HTypeOK'
  BY DEF HTypeOK, PutNowhere, Source, peerVars
<1>3. Fate'
  <2>1. y \in Place /\ Held'[y] = Held[y] \cup Ids(ms)
    BY HeldAt DEF HeldIs, PutNowhere
  <2>2. ASSUME NEW x \in Place \ {y} PROVE Held'[x] = Held[x] \ Ids(ms)
    BY Elsewhere DEF PutNowhere
  <2> QED  BY <2>1, <2>2, FateStep DEF HTypeOK, Source
<1>4. Linked' /\ NothingStuck'
  BY DEF Linked, NothingStuck, PutNowhere, Source, peerVars
<1>5. AllOnce' /\ Orders'
  BY <1>1 DEF AllOnce, Orders, PutNowhere
<1>6. Unknown'
  BY <1>1 DEF Unknown, PutNowhere, Source
<1>7. Hellos'
  BY DEF Hellos, PutNowhere
<1> QED  BY <1>2, <1>3, <1>4, <1>5, <1>6, <1>7

(* one that is written to a socket, *)
LEMMA PutWireKeeps ==
    ASSUME HarborInv, NEW ms, NEW p, Source(ms), PutWire(ms, p), UNCHANGED peerVars
    PROVE  HarborInv'
<1> DEFINE y == <<"wire", p>>
<1> USE DEF HarborInv
<1>1. /\ \A n \in Name : Once(nqueue'[n]) /\ Ordered(nqueue'[n]) /\ Tos(nqueue'[n]) \subseteq {n}
      /\ \A n \in Name : Held'[<<"name", n>>] = Held[<<"name", n>>] \ Ids(ms)
      /\ ms \in Seq(Cell) /\ 0 \notin Ids(ms)
  BY SourceKeeps
<1>2. p \in Peer /\ p \in fd /\ p \in Harbors /\ wire[p] \in Seq(Cell) /\ queue[p] \in Seq(Cell)
  BY Cells DEF PutWire, HTypeOK
<1>3. /\ wire'[p] = wire[p] \o ms /\ \A q \in Peer \ {p} : wire'[q] = wire[q]
      /\ wire' = [wire EXCEPT ![p] = wire[p] \o ms]
  BY <1>2 DEF PutWire, HTypeOK
<1>4. /\ wire'[p] \in Seq(Cell) /\ Ids(wire'[p]) = Ids(wire[p]) \cup Ids(ms)
      /\ Tos(wire'[p]) = Tos(wire[p]) \cup Tos(ms)
  BY <1>1, <1>2, <1>3, ConcatIds, ConcatTos, ConcatCells
<1>5. Once(wire'[p]) /\ Ordered(wire'[p])
  BY <1>1, <1>2, <1>3, ConcatOnce, ConcatOrdered DEF AllOnce, Orders, Source
<1>6. Before(wire'[p], queue[p])
  BY <1>1, <1>2, <1>3, ConcatBefore DEF Orders, PutWire
<1>7. wire[p] # <<>> /\ HelloHead(wire'[p]) /\ wire'[p] # <<>>
  <2>1. wire[p] # <<>>
    BY <1>2 DEF Linked
  <2>2. HelloHead(wire'[p])
    BY <1>1, <1>2, <1>3, <2>1, ConcatHello DEF Hellos
  <2>3. wire[p] \o ms # <<>>
    BY <1>1, <1>2, <2>1
  <2> QED  BY <1>3, <2>1, <2>2, <2>3
<1>8. HTypeOK'
  BY <1>2, <1>3, <1>4 DEF HTypeOK, PutWire, Source, peerVars
<1>9. Fate'
  <2>1. y \in Place /\ Held'[y] = Held[y] \cup Ids(ms)
    BY <1>1, <1>2, <1>4, HeldAt DEF HeldIs
  <2>2. ASSUME NEW x \in Place \ {y} PROVE Held'[x] = Held[x] \ Ids(ms)
    <3>1. \A q \in Peer : x = <<"wire", q>> => wire'[q] = wire[q]
      BY <1>3
    <3> QED  BY <3>1, Elsewhere DEF PutWire
  <2> QED  BY <2>1, <2>2, FateStep DEF HTypeOK, Source
<1>10. Linked' /\ NothingStuck'
  BY <1>3, <1>7 DEF Linked, NothingStuck, PutWire, Source, peerVars
<1>11. AllOnce' /\ Orders'
  BY <1>1, <1>3, <1>5, <1>6 DEF AllOnce, Orders, PutWire
<1>12. Unknown'
  BY <1>1, <1>3, <1>4 DEF Unknown, PutWire, Source
<1>13. Hellos'
  BY <1>3, <1>7 DEF Hellos, PutWire
<1> QED  BY <1>8, <1>9, <1>10, <1>11, <1>12, <1>13

(* one that is queued for a peer, *)
LEMMA PutQueueKeeps ==
    ASSUME HarborInv, NEW ms, NEW p, Source(ms), PutQueue(ms, p), UNCHANGED peerVars
    PROVE  HarborInv'
<1> DEFINE y == <<"queue", p>>
<1> USE DEF HarborInv
<1>1. /\ \A n \in Name : Once(nqueue'[n]) /\ Ordered(nqueue'[n]) /\ Tos(nqueue'[n]) \subseteq {n}
      /\ \A n \in Name : Held'[<<"name", n>>] = Held[<<"name", n>>] \ Ids(ms)
      /\ ms \in Seq(Cell) /\ ms \in Seq(Msg)
  BY SourceKeeps DEF Source
<1>2. /\ p \in Peer /\ p \in Harbors /\ wire[p] \in Seq(Cell) /\ queue[p] \in Seq(Cell)
      /\ queue[p] \in Seq(Msg)
  BY Cells DEF PutQueue
<1>3. /\ queue'[p] = queue[p] \o ms /\ \A q \in Harbors \ {p} : queue'[q] = queue[q]
      /\ queue' = [queue EXCEPT ![p] = queue[p] \o ms]
  BY <1>2 DEF PutQueue, HTypeOK
<1>4. /\ queue'[p] \in Seq(Msg) /\ Ids(queue'[p]) = Ids(queue[p]) \cup Ids(ms)
      /\ Tos(queue'[p]) = Tos(queue[p]) \cup Tos(ms)
  BY <1>1, <1>2, <1>3, ConcatIds, ConcatTos
<1>5. Once(queue'[p]) /\ Ordered(queue'[p])
  BY <1>1, <1>2, <1>3, ConcatOnce, ConcatOrdered DEF AllOnce, Orders, Source
<1>6. Before(wire[p], queue'[p])
  BY <1>1, <1>2, <1>3, ConcatBefore DEF Orders, Source
<1>7. HTypeOK'
  BY <1>2, <1>3, <1>4 DEF HTypeOK, PutQueue, Source, peerVars
<1>8. Fate'
  <2>1. y \in Place /\ Held'[y] = Held[y] \cup Ids(ms)
    BY <1>2, <1>4, HeldAt DEF HeldIs
  <2>2. ASSUME NEW x \in Place \ {y} PROVE Held'[x] = Held[x] \ Ids(ms)
    <3>1. \A q \in Harbors : x = <<"queue", q>> => queue'[q] = queue[q]
      BY <1>3
    <3> QED  BY <3>1, Elsewhere DEF PutQueue
  <2> QED  BY <2>1, <2>2, FateStep DEF HTypeOK, Source
<1>9. Linked'
  BY DEF Linked, PutQueue, peerVars
<1>10. NothingStuck'
  <2>1. Self \in Harbors /\ Self # p
    BY <1>2, HarborAssumption DEF Harbors
  <2>2. \A q \in Peer : queue'[q] # <<>> => status'[q] \in {"WAIT", "HANDSHAKE"}
    BY <1>3 DEF NothingStuck, PutQueue, peerVars, Harbors
  <2> QED  BY <1>3, <2>1, <2>2 DEF NothingStuck, Source
<1>11. AllOnce' /\ Orders'
  BY <1>1, <1>3, <1>5, <1>6 DEF AllOnce, Orders, PutQueue, Harbors
<1>12. Unknown'
  BY <1>1, <1>3, <1>4 DEF Unknown, PutQueue, Source, Harbors
<1>13. Hellos'
  BY DEF Hellos, PutQueue
<1> QED  BY <1>7, <1>8, <1>9, <1>10, <1>11, <1>12, <1>13

-----------------------------------------------------------------------------
(* Where remote_send_handle, and dispatch_name_queue, put messages *)
Put(ms) == \/ PutLocal(ms) \/ PutNowhere(ms)
           \/ \E p \in Peer : PutWire(ms, p) \/ PutQueue(ms, p)

(* and so one that is put anywhere. *)
LEMMA PutKeeps ==
    ASSUME HarborInv, NEW ms, Source(ms), Put(ms), UNCHANGED peerVars
    PROVE  HarborInv'
BY PutLocalKeeps, PutNowhereKeeps, PutWireKeeps, PutQueueKeeps DEF Put

(* No handle is NoHandle: the service of a handle is not 0. *)
LEMMA RealHandle == ASSUME NEW h \in Handle PROVE h # NoHandle /\ h.service \in Nat /\ h.harbor \in Harbors
<1>1. h.service \in Service /\ h.harbor \in Peer \cup {Self}
  BY DEF Handle
<1>2. h.service \in Nat /\ h.service # 0
  BY <1>1, HarborAssumption
<1>3. NoHandle.service = 0
  BY DEF NoHandle
<1> QED  BY <1>1, <1>2, <1>3 DEF Harbors

(* A message of remote_send_handle goes to one place, and none is overtaken. *)
LEMMA RoutePuts ==
    ASSUME HarborInv, NEW m \in Msg, NEW h \in Handle, Route(m, h)
    PROVE  Put(<<m>>)
<1> DEFINE p == h.harbor
<1> USE DEF HarborInv
<1>1. p \in Harbors /\ (p # Self => p \in Peer)
  BY RealHandle DEF Harbors
<1>2. <<m>> \in Seq(Cell) /\ <<m>> \in Seq(Msg) /\ Ids(<<m>>) = {m.id}
  BY OneCell DEF Cell
<1>3. queue[p] \in Seq(Msg) /\ local \in Seq(Msg)
  BY <1>1, Cells
<1> HIDE DEF p
<1>4. CASE p = Self
  <2>1. local' = Append(local, m) /\ UNCHANGED <<queue, wire, dropped>>
    BY <1>4 DEF Route, p
  <2> QED  BY <1>3, <2>1, AppendConcat DEF Put, PutLocal
<1>5. CASE p # Self /\ p \in fd /\ status[p] # "HANDSHAKE"
  <2>1. SendRemote(p, <<m>>) /\ UNCHANGED <<queue, local>>
    BY <1>5 DEF Route, p
  <2>2. queue[p] = <<>>
    BY <1>1, <1>5 DEF NothingStuck, Linked
  <2>3. Before(<<m>>, queue[p])
    BY <2>2, NoCell
  <2>4. CASE p \in alive
    <3>1. PutWire(<<m>>, p)
      BY <2>1, <2>3, <2>4 DEF SendRemote, PutWire
    <3> QED  BY <1>1, <1>5, <3>1 DEF Put
  <2>5. CASE p \notin alive
    <3>1. PutNowhere(<<m>>)
      BY <2>1, <2>5 DEF SendRemote, PutNowhere
    <3> QED  BY <3>1 DEF Put
  <2> QED  BY <2>4, <2>5
<1>6. CASE p # Self /\ ~(p \in fd /\ status[p] # "HANDSHAKE") /\ status[p] = "DOWN"
  <2>1. dropped' = dropped \cup {m.id} /\ UNCHANGED <<queue, wire, local>>
    BY <1>6 DEF Route, p
  <2> QED  BY <1>2, <2>1 DEF Put, PutNowhere
<1>7. CASE p # Self /\ ~(p \in fd /\ status[p] # "HANDSHAKE") /\ status[p] # "DOWN"
  <2>1. queue' = [queue EXCEPT ![p] = Append(@, m)] /\ UNCHANGED <<wire, local, dropped>>
    BY <1>7 DEF Route, p, fateVars
  <2>2. Append(queue[p], m) = queue[p] \o <<m>>
    BY <1>3, AppendConcat
  <2>3. queue' = [queue EXCEPT ![p] = queue[p] \o <<m>>]
    BY <2>1, <2>2
  <2>4. status[p] \in {"WAIT", "HANDSHAKE"}
    BY <1>1, <1>7 DEF Linked
  <2>5. PutQueue(<<m>>, p)
    BY <1>1, <1>7, <2>1, <2>3, <2>4 DEF PutQueue
  <2> QED  BY <1>1, <1>7, <2>5 DEF Put
<1> QED  BY <1>4, <1>5, <1>6, <1>7

(* A message that a service sends now is newer than all others. *)
LEMMA NewSource ==
    ASSUME HarborInv, NEW to \in Handle \cup Name, NEW dest \in Nat,
           to \in Name => value[to] # NoHandle,
           sent' = sent + 1, UNCHANGED <<nqueue, value>>
    PROVE  Message(to, dest) \in Msg /\ Source(<<Message(to, dest)>>)
<1> DEFINE m == Message(to, dest)
           ms == <<m>>
           I == 1 .. sent
<1> USE DEF HarborInv
<1>1. sent \in Nat /\ sent + 1 \in Nat
  BY DEF HTypeOK
<1>2. m \in Msg /\ m.id = sent + 1 /\ m.to = to
  BY <1>1 DEF Message, Msg
<1> HIDE DEF m
<1>3. /\ ms \in Seq(Cell) /\ ms \in Seq(Msg) /\ Ids(ms) = {sent + 1} /\ Once(ms) /\ Ordered(ms)
      /\ Tos(ms) \subseteq {to}
  BY <1>2, OneCell DEF Cell
<1> HIDE DEF ms
<1>4. /\ sent + 1 \notin I /\ 0 # sent + 1
      /\ 1 .. sent + 1 = I \cup {sent + 1}
      /\ \A i \in I \cup {0} : i < sent + 1
  BY <1>1
<1>5. /\ \A p \in Peer : Ids(wire[p]) \subseteq I \cup {0}
      /\ \A p \in Harbors : Ids(queue[p]) \subseteq I
      /\ \A n \in Name : Ids(nqueue[n]) \subseteq I
      /\ Ids(local) \subseteq I /\ dropped \subseteq I
  BY HeldApart
<1>6. I \subseteq 1 .. sent' /\ Ids(ms) \subseteq 1 .. sent' /\ 1 .. sent' \subseteq I \cup Ids(ms)
  BY <1>3, <1>4
<1> HIDE DEF I
<1>7. ASSUME NEW p \in Peer
      PROVE  Before(wire[p], ms) /\ Before(queue[p], ms) /\ Ids(wire[p]) \cap Ids(ms) = {}
  <2>1. p \in Harbors /\ wire[p] \in Seq(Cell) /\ queue[p] \in Seq(Cell)
    BY Cells
  <2>2. \A x \in Ids(wire[p]), y \in Ids(ms) : x < y
    BY <1>3, <1>4, <1>5
  <2>3. \A x \in Ids(queue[p]), y \in Ids(ms) : x < y
    BY <1>3, <1>4, <1>5, <2>1
  <2> QED  BY <1>3, <1>4, <1>5, <2>1, <2>2, <2>3, ApartBefore
<1>8. \A p \in Harbors : Ids(queue[p]) \cap Ids(ms) = {}
  BY <1>3, <1>4, <1>5
<1>9. Ids(local) \cap Ids(ms) = {} /\ dropped \cap Ids(ms) = {}
  BY <1>3, <1>4, <1>5
<1>10. ASSUME NEW n \in Name
       PROVE  /\ Ids(nqueue'[n]) = Ids(nqueue[n]) \ Ids(ms)
              /\ nqueue'[n] \in {nqueue[n], <<>>}
              /\ value'[n] = NoHandle => value[n] = NoHandle /\ n \notin Tos(ms)
              /\ nqueue'[n] # <<>> => value'[n] = NoHandle
  <2>1. Ids(nqueue[n]) \cap Ids(ms) = {}
    BY <1>3, <1>4, <1>5
  <2>2. n \in Tos(ms) => value[n] # NoHandle
    BY <1>3
  <2> QED  BY <2>1, <2>2 DEF NothingStuck
<1>11. nqueue' \in [Name -> Seq(Msg)] /\ value' \in [Name -> Handle \cup {NoHandle}]
  BY DEF HTypeOK
<1>12. sent' \in Nat
  BY <1>1
<1>13. Source(ms)
  BY <1>3, <1>6, <1>7, <1>8, <1>9, <1>10, <1>11, <1>12 DEF Source, I
<1> QED  BY <1>2, <1>13 DEF ms, m

(* A message for a handle *)
LEMMA SendHandleKeeps ==
    ASSUME HarborInv, NEW h \in Handle, SendHandle(h)
    PROVE  HarborInv'
<1>1. h \in Handle \cup Name /\ h.service \in Nat /\ h \notin Name
  BY RealHandle, NameAssumption
<1>2. Message(h, h.service) \in Msg /\ Source(<<Message(h, h.service)>>)
  BY <1>1, NewSource DEF SendHandle
<1>3. Put(<<Message(h, h.service)>>)
  BY <1>2, RoutePuts DEF SendHandle
<1> QED  BY <1>2, <1>3, PutKeeps DEF SendHandle

(* The messages of a name that becomes known leave its queue.  They are    *)
(* older than others perhaps, but none of the others is for that name.     *)
LEMMA NameSource ==
    ASSUME HarborInv, NEW n \in Name, NEW h \in Handle, nqueue[n] # <<>>,
           nqueue' = [nqueue EXCEPT ![n] = <<>>], value' = [value EXCEPT ![n] = h], sent' = sent,
           NEW ms \in Seq(Msg), Ids(ms) = Ids(nqueue[n]), Tos(ms) = Tos(nqueue[n]), Once(ms), Ordered(ms)
    PROVE  Source(ms) /\ \A p \in Peer : Before(ms, queue[p])
<1> USE DEF HarborInv
<1> DEFINE I == 1 .. sent
<1>1. value[n] = NoHandle /\ Tos(ms) \subseteq {n} /\ ms \in Seq(Cell)
  BY MsgCells DEF NothingStuck, Unknown
<1>2. ASSUME NEW p \in Peer
      PROVE  /\ Before(wire[p], ms) /\ Before(queue[p], ms) /\ Before(ms, queue[p])
             /\ Ids(wire[p]) \cap Ids(ms) = {}
  <2>1. p \in Harbors /\ wire[p] \in Seq(Cell) /\ queue[p] \in Seq(Cell)
    BY Cells
  <2>2. Tos(wire[p]) \cap Tos(ms) = {} /\ Tos(queue[p]) \cap Tos(ms) = {}
    BY <1>1 DEF Unknown
  <2> QED  BY <1>1, <2>1, <2>2, ApartBefore, HeldApart
<1>3. \A p \in Harbors : Ids(queue[p]) \cap Ids(ms) = {}
  BY HeldApart
<1>4. Ids(local) \cap Ids(ms) = {} /\ dropped \cap Ids(ms) = {}
  BY HeldApart
<1>5. Ids(ms) \subseteq I
  BY HeldApart
<1> HIDE DEF I
<1>6. sent' \in Nat /\ nqueue' \in [Name -> Seq(Msg)] /\ value' \in [Name -> Handle \cup {NoHandle}]
  BY NoCell DEF HTypeOK
<1>7. ASSUME NEW k \in Name
      PROVE  /\ Ids(nqueue'[k]) = Ids(nqueue[k]) \ Ids(ms)
             /\ nqueue'[k] \in {nqueue[k], <<>>}
             /\ value'[k] = NoHandle => value[k] = NoHandle /\ k \notin Tos(ms)
             /\ nqueue'[k] # <<>> => value'[k] = NoHandle
  <2>1. CASE k = n
    <3>1. nqueue'[k] = <<>> /\ value'[k] = h
      BY <2>1 DEF HTypeOK
    <3> QED  BY <2>1, <3>1, NoCell, RealHandle
  <2>2. CASE k # n
    <3>1. nqueue'[k] = nqueue[k] /\ value'[k] = value[k]
      BY <2>2 DEF HTypeOK
    <3>2. Ids(nqueue[k]) \cap Ids(ms) = {}
      BY <2>2, HeldApart
    <3> QED  BY <1>1, <2>2, <3>1, <3>2 DEF NothingStuck
  <2> QED  BY <2>1, <2>2
<1>8. Source(ms)
  BY <1>2, <1>3, <1>4, <1>5, <1>6, <1>7 DEF Source, I
<1> QED  BY <1>2, <1>8

(* dispatch_name_queue puts them somewhere, whatever the harbor of h is. *)
LEMMA DispatchNameQueuePuts ==
    ASSUME HarborInv, NEW h \in Handle, NEW ms \in Seq(Msg), DispatchNameQueue(ms, h),
           \A p \in Peer : Before(Addressed(ms, h), queue[p])
    PROVE  Put(Addressed(ms, h)) \/ Put(ms)
<1> DEFINE p == h.harbor
           as == Addressed(ms, h)
<1> USE DEF HarborInv
<1>1. p \in Harbors /\ (p # Self => p \in Peer) /\ Self \in Harbors /\ Self \notin fd
  BY RealHandle, HarborAssumption DEF Harbors, HTypeOK
<1>2. Ids(as) = Ids(ms)
  BY AddressedSame
<1> HIDE DEF p
<1>3. CASE p \in fd
  <2> HIDE DEF as
  <2>1. SendRemote(p, as) /\ UNCHANGED <<queue, local>>
    BY <1>3 DEF DispatchNameQueue, p, as
  <2>2. p \in Peer
    BY <1>1, <1>3
  <2>3. CASE p \in alive
    <3>1. PutWire(as, p)
      BY <2>1, <2>2, <2>3 DEF SendRemote, PutWire, as
    <3> QED  BY <2>2, <3>1 DEF Put, as
  <2>4. CASE p \notin alive
    <3>1. PutNowhere(as)
      BY <2>1, <2>4 DEF SendRemote, PutNowhere
    <3> QED  BY <3>1 DEF Put, as
  <2> QED  BY <2>3, <2>4
<1>4. CASE p \notin fd
  <2>1. status[p] = "WAIT"
    BY <1>1, <1>4 DEF Linked
  <2>2. CASE p = Self
    <3>1. /\ local' = local \o Addressed(queue[p] \o ms, h)
          /\ queue' = [queue EXCEPT ![p] = <<>>] /\ UNCHANGED <<wire, dropped>>
      BY <1>4, <2>1, <2>2 DEF DispatchNameQueue, p
    <3>2. queue[p] = <<>>
      BY <2>2 DEF NothingStuck
    <3>3. queue' = queue
      BY <1>1, <3>1, <3>2 DEF HTypeOK
    <3>4. queue[p] \o ms = ms
      BY <3>2
    <3> QED  BY <3>1, <3>3, <3>4 DEF Put, PutLocal
  <2>3. CASE p # Self
    <3>1. queue' = [queue EXCEPT ![p] = @ \o ms] /\ UNCHANGED <<wire, local, dropped>>
      BY <1>4, <2>1, <2>3 DEF DispatchNameQueue, p, fateVars
    <3>2. PutQueue(ms, p)
      BY <1>1, <2>1, <2>3, <3>1 DEF PutQueue
    <3> QED  BY <1>1, <2>3, <3>2 DEF Put
  <2> QED  BY <2>2, <2>3
<1> QED  BY <1>3, <1>4

(* A name becomes known, and its queue is dispatched. *)
LEMMA UpdateNameKeeps ==
    ASSUME HarborInv, NEW n \in Name, NEW h \in Handle, UpdateName(n, h)
    PROVE  HarborInv'
<1> DEFINE ms == nqueue[n]
<1>1. /\ nqueue' = [nqueue EXCEPT ![n] = <<>>] /\ value' = [value EXCEPT ![n] = h]
      /\ sent' = sent /\ UNCHANGED peerVars
  BY DEF UpdateName
<1>2. ms \in Seq(Msg) /\ Once(ms) /\ Ordered(ms)
  BY Cells DEF HarborInv, AllOnce, Orders
<1>3. CASE ms # <<>>
  <2>1. Source(ms)
    BY <1>1, <1>2, <1>3, NameSource
  <2>2. Source(Addressed(ms, h)) /\ \A p \in Peer : Before(Addressed(ms, h), queue[p])
    BY <1>1, <1>2, <1>3, NameSource, AddressedSame
  <2>3. DispatchNameQueue(ms, h)
    BY <1>3 DEF UpdateName
  <2>4. Put(Addressed(ms, h)) \/ Put(ms)
    BY <1>2, <2>2, <2>3, DispatchNameQueuePuts
  <2> QED  BY <1>1, <2>1, <2>2, <2>4, PutKeeps
<1>4. CASE ms = <<>>
  <2> USE DEF HarborInv
  <2>1. UNCHANGED <<queue, wire, local, dropped>>
    BY <1>4 DEF UpdateName, fateVars
  <2>2. nqueue' = nqueue
    BY <1>1, <1>4 DEF HTypeOK
  <2>3. value' \in [Name -> Handle \cup {NoHandle}]
    BY <1>1 DEF HTypeOK
  <2>4. \A k \in Name : value'[k] = NoHandle => value[k] = NoHandle
    BY <1>1, RealHandle DEF HTypeOK
  <2>5. \A k \in Name : nqueue'[k] # <<>> => value'[k] = NoHandle
    BY <1>1, <1>4, <2>2 DEF HTypeOK, NothingStuck
  <2>6. HTypeOK'
    BY <1>1, <2>1, <2>2, <2>3 DEF HTypeOK, peerVars
  <2>7. Fate'
    <3>1. Held' = Held /\ Place' = Place
      BY <2>1, <2>2 DEF Held, Place, Harbors
    <3> QED  BY <1>1, <3>1 DEF Fate
  <2>8. Linked' /\ AllOnce' /\ NothingStuck' /\ Orders' /\ Hellos'
    BY <1>1, <2>1, <2>2, <2>5 DEF Linked, AllOnce, NothingStuck, Orders, Hellos, peerVars
  <2>9. Unknown'
    BY <2>1, <2>2, <2>4 DEF Unknown
  <2> QED  BY <2>6, <2>7, <2>8, <2>9
<1> QED  BY <1>3, <1>4

(* A message for a name that is not known waits in its queue. *)
LEMMA SendNameKeeps ==
    ASSUME HarborInv, NEW n \in Name, SendName(n)
    PROVE  HarborInv'
<1>1. CASE value[n] # NoHandle
  <2>1. value[n] \in Handle
    BY <1>1 DEF HarborInv, HTypeOK
  <2>2. Message(n, value[n].service) \in Msg /\ Source(<<Message(n, value[n].service)>>)
    BY <1>1, <2>1, NewSource, RealHandle DEF SendName
  <2>3. Put(<<Message(n, value[n].service)>>)
    BY <1>1, <2>1, <2>2, RoutePuts DEF SendName
  <2> QED  BY <1>1, <2>2, <2>3, PutKeeps DEF SendName
<1>2. CASE value[n] = NoHandle
  <2> DEFINE m == Message(n, 0)
             ms == <<m>>
             y == <<"name", n>>
             G == {sent + 1}
             I == 1 .. sent
             J == 1 .. sent'
  <2> USE DEF HarborInv
  <2>1. /\ nqueue' = [nqueue EXCEPT ![n] = Append(nqueue[n], m)] /\ sent' = sent + 1
        /\ UNCHANGED <<queue, wire, local, dropped, peerVars, value>>
    BY <1>2 DEF SendName, fateVars
  <2>2. sent \in Nat /\ sent' \in Nat
    BY <2>1 DEF HTypeOK
  <2>3. m \in Msg /\ m.id = sent + 1 /\ m.to = n
    BY <2>2 DEF Message, Msg
  <2> HIDE DEF m
  <2>4. /\ ms \in Seq(Cell) /\ ms \in Seq(Msg) /\ Ids(ms) = G /\ Once(ms) /\ Ordered(ms)
        /\ Tos(ms) \subseteq {n}
    BY <2>3, OneCell DEF Cell
  <2>5. nqueue[n] \in Seq(Msg) /\ nqueue[n] \in Seq(Cell)
    BY Cells
  <2>6. /\ nqueue'[n] = nqueue[n] \o ms /\ \A k \in Name \ {n} : nqueue'[k] = nqueue[k]
        /\ nqueue' = [nqueue EXCEPT ![n] = nqueue[n] \o ms]
    BY <2>1, <2>3, <2>5, AppendConcat DEF HTypeOK
  <2> HIDE DEF ms
  <2>7. /\ sent + 1 \notin I /\ \A i \in I : i < sent + 1
        /\ G \subseteq J /\ I \subseteq J /\ J \subseteq I \cup G
    BY <2>1, <2>2
  <2> HIDE DEF G
  <2>8. /\ nqueue'[n] \in Seq(Msg) /\ Ids(nqueue'[n]) = Ids(nqueue[n]) \cup G
        /\ Tos(nqueue'[n]) \subseteq {n}
    <3>1. Ids(nqueue[n] \o ms) = Ids(nqueue[n]) \cup Ids(ms)
      BY <2>4, <2>5, ConcatIds
    <3>2. Tos(nqueue[n] \o ms) = Tos(nqueue[n]) \cup Tos(ms)
      BY <2>4, <2>5, ConcatTos
    <3>3. nqueue[n] \o ms \in Seq(Msg)
      BY <2>4, <2>5
    <3> QED  BY <2>4, <2>6, <3>1, <3>2, <3>3 DEF Unknown
  <2>9. /\ Ids(nqueue[n]) \subseteq I /\ Ids(local) \subseteq I /\ dropped \subseteq I
        /\ \A p \in Peer : Ids(wire[p]) \ {0} \subseteq I
        /\ \A p \in Harbors : Ids(queue[p]) \subseteq I
        /\ \A k \in Name : Ids(nqueue[k]) \subseteq I
    BY HeldApart
  <2> HIDE DEF I, J
  <2>10. Once(nqueue'[n]) /\ Ordered(nqueue'[n])
    <3>1. \A a \in Ids(nqueue[n]), b \in Ids(ms) : a < b
      BY <2>4, <2>7, <2>9 DEF G
    <3>2. Before(nqueue[n], ms) /\ Ids(nqueue[n]) \cap Ids(ms) = {}
      BY <2>4, <2>5, <2>7, <2>9, <3>1, ApartBefore DEF G
    <3> QED  BY <2>4, <2>5, <2>6, <3>2, ConcatOnce, ConcatOrdered DEF AllOnce, Orders
  <2>11. HTypeOK'
    BY <2>1, <2>2, <2>6, <2>8 DEF HTypeOK, peerVars
  <2>12. Fate'
    <3>1. y \in Place /\ Held'[y] = Held[y] \cup G
      BY <2>8, HeldAt DEF HeldIs
    <3>2. G \cap I = {}
      BY <2>7 DEF G
    <3>3. ASSUME NEW x \in Place \ {y} PROVE Held'[x] = Held[x] \ G
      <4>1. Held[x] \subseteq I
        BY DEF Fate, I
      <4>2. Held'[x] = Held[x]
        <5>1. CASE \E q \in Peer : x = <<"wire", q>>
          BY <2>1, <5>1, HeldAt, ZenonT(30) DEF HeldIs
        <5>2. CASE \E q \in Harbors : x = <<"queue", q>>
          BY <2>1, <5>2, HeldAt DEF HeldIs
        <5>3. CASE \E k \in Name \ {n} : x = <<"name", k>>
          BY <2>6, <5>3, HeldAt DEF HeldIs
        <5>4. CASE x = <<"local", 0>>
          BY <2>1, <5>4, HeldAt DEF HeldIs
        <5>5. CASE x = <<"dropped", 0>>
          BY <2>1, <5>5, HeldAt DEF HeldIs
        <5> QED  BY <5>1, <5>2, <5>3, <5>4, <5>5, Places
      <4> QED  BY <3>2, <4>1, <4>2
    <3> QED  BY <2>2, <2>7, <3>1, <3>3, FateStep DEF I, J
  <2>13. Linked' /\ Hellos'
    BY <2>1 DEF Linked, Hellos, peerVars
  <2>14. NothingStuck'
    BY <1>2, <2>1, <2>6 DEF NothingStuck, peerVars
  <2>15. AllOnce' /\ Orders'
    BY <2>1, <2>6, <2>10 DEF AllOnce, Orders
  <2>16. Unknown'
    BY <2>1, <2>6, <2>8 DEF Unknown
  <2> QED  BY <2>11, <2>12, <2>13, <2>14, <2>15, <2>16
<1> QED  BY <1>1, <1>2

-----------------------------------------------------------------------------
(* The queue of a peer goes to its socket, after what is on it: w is that, *)
(* or the handshake on a socket that is new.                               *)
LEMMA FlushKeeps ==
    ASSUME HarborInv, NEW p \in Peer, NEW w \in Seq(Cell), w # <<>>,
           Ids(w) \ {0} = Ids(wire[p]) \ {0}, Tos(w) = Tos(wire[p]),
           Once(w), Ordered(w), HelloHead(w), Before(w, queue[p]),
           wire' = [wire EXCEPT ![p] = w \o queue[p]], queue' = [queue EXCEPT ![p] = <<>>],
           status' = [status EXCEPT ![p] = "HEADER"], fd' = fd \cup {p}, alive' \subseteq fd',
           UNCHANGED <<value, nqueue, local, dropped, sent>>
    PROVE  HarborInv'
<1> DEFINE y == <<"wire", p>>
           G == Ids(queue[p])
<1> USE DEF HarborInv
<1>1. p \in Harbors /\ queue[p] \in Seq(Msg) /\ queue[p] \in Seq(Cell) /\ wire[p] \in Seq(Cell)
  BY Cells
<1>2. /\ wire'[p] = w \o queue[p] /\ \A q \in Peer \ {p} : wire'[q] = wire[q]
      /\ queue'[p] = <<>> /\ (\A q \in Harbors \ {p} : queue'[q] = queue[q])
      /\ status'[p] = "HEADER" /\ \A q \in Harbors \ {p} : status'[q] = status[q]
  BY <1>1 DEF HTypeOK
<1>3. G \subseteq 1 .. sent /\ 0 \notin G /\ Ids(wire[p]) \cap G = {}
  BY <1>1, HeldApart DEF HTypeOK
<1>4. Ids(w) \cap G = {}
  BY <1>3
<1>5. /\ wire'[p] \in Seq(Cell) /\ Ids(wire'[p]) = Ids(w) \cup G
      /\ Tos(wire'[p]) = Tos(wire[p]) \cup Tos(queue[p])
  <2>1. Ids(w \o queue[p]) = Ids(w) \cup G
    BY <1>1, ConcatIds
  <2>2. Tos(w \o queue[p]) = Tos(w) \cup Tos(queue[p])
    BY <1>1, ConcatTos
  <2>3. w \o queue[p] \in Seq(Cell)
    BY <1>1, ConcatCells
  <2> QED  BY <1>2, <2>1, <2>2, <2>3
<1>6. Once(wire'[p]) /\ Ordered(wire'[p]) /\ HelloHead(wire'[p])
  <2>1. Once(queue[p]) /\ Ordered(queue[p])
    BY <1>1 DEF AllOnce, Orders
  <2>2. Once(w \o queue[p])
    BY <1>1, <1>4, <2>1, ConcatOnce
  <2>3. Ordered(w \o queue[p])
    BY <1>1, <2>1, ConcatOrdered
  <2>4. HelloHead(w \o queue[p])
    BY <1>1, <1>3, ConcatHello
  <2> QED  BY <1>2, <2>2, <2>3, <2>4
<1>7. wire'[p] # <<>>
  <2>1. w \o queue[p] # <<>>
    BY <1>1
  <2> QED  BY <1>2, <2>1
<1>8. HTypeOK'
  <2>1. wire' \in [Peer -> Seq(Cell)] /\ queue' \in [Harbors -> Seq(Msg)]
    BY <1>2, <1>5, NoCell DEF HTypeOK
  <2>2. status' \in [Harbors -> Status] /\ fd' \subseteq Peer
    BY Statuses DEF HTypeOK
  <2> QED  BY <2>1, <2>2 DEF HTypeOK
<1>9. Fate'
  <2>1. y \in Place /\ Held'[y] = Held[y] \cup G
    BY <1>3, <1>5, HeldAt DEF HeldIs
  <2>2. ASSUME NEW x \in Place \ {y} PROVE Held'[x] = Held[x] \ G
    <3>1. CASE x = <<"queue", p>>
      <4>1. Held'[x] = {} /\ Held[x] = G
        BY <1>1, <1>2, <3>1, HeldAt, NoCell DEF HeldIs
      <4> QED  BY <4>1
    <3>2. CASE x # <<"queue", p>>
      <4>1. <<"queue", p>> \in Place /\ Held[<<"queue", p>>] = G
        BY <1>1, HeldAt DEF HeldIs
      <4>2. Held[x] \cap G = {}
        BY <3>2, <4>1 DEF Fate
      <4>3. Held'[x] = Held[x]
        <5>1. ASSUME NEW q \in Peer \ {p}, x = <<"wire", q>> PROVE Held'[x] = Held[x]
          <6>1. Held'[x] = Ids(wire'[q]) \ {0} /\ Held[x] = Ids(wire[q]) \ {0}
            BY <5>1, HeldAt DEF HeldIs
          <6> QED  BY <1>2, <6>1
        <5>2. CASE \E q \in Harbors \ {p} : x = <<"queue", q>>
          BY <1>2, <5>2, HeldAt DEF HeldIs
        <5>3. CASE \E k \in Name : x = <<"name", k>>
          BY <5>3, HeldAt DEF HeldIs
        <5>4. CASE x = <<"local", 0>>
          BY <5>4, HeldAt DEF HeldIs
        <5>5. CASE x = <<"dropped", 0>>
          BY <5>5, HeldAt DEF HeldIs
        <5> QED  BY <3>2, <5>1, <5>2, <5>3, <5>4, <5>5, Places
      <4> QED  BY <4>2, <4>3
    <3> QED  BY <3>1, <3>2
  <2>3. sent \in Nat
    BY DEF HTypeOK
  <2> HIDE DEF G
  <2> QED  BY <1>3, <2>1, <2>2, <2>3, FateStep
<1>10. Linked'
  BY <1>2, <1>7 DEF Linked, Harbors
<1>11. NothingStuck'
  <2>1. Self \in Harbors /\ Self # p
    BY HarborAssumption DEF Harbors
  <2> QED  BY <1>2, <2>1 DEF NothingStuck, Harbors
<1>12. AllOnce' /\ Orders'
  BY <1>2, <1>6, NoCell DEF AllOnce, Orders, Harbors
<1>13. Unknown'
  BY <1>1, <1>2, <1>5, NoCell DEF Unknown, Harbors
<1>14. Hellos'
  BY <1>2, <1>6 DEF Hellos
<1> QED  BY <1>8, <1>9, <1>10, <1>11, <1>12, <1>13, <1>14

(* The handshake on a socket that is new *)
LEMMA HelloCell ==
    /\ Hello \in Cell /\ <<Hello>> \in Seq(Cell) /\ <<Hello>> # <<>> /\ Ids(<<Hello>>) = {0}
    /\ Tos(<<Hello>>) = {} /\ Once(<<Hello>>) /\ Ordered(<<Hello>>) /\ HelloHead(<<Hello>>)
    /\ \A ms \in Seq(Cell) : Before(<<Hello>>, ms)
<1>1. Hello \in Cell /\ Hello.id = 0
  BY DEF Hello, Cell
<1>2. DOMAIN <<Hello>> = {1} /\ <<Hello>>[1] = Hello
  OBVIOUS
<1>3. HelloHead(<<Hello>>)
  BY <1>1, <1>2 DEF HelloHead
<1>4. \A ms \in Seq(Cell) : Before(<<Hello>>, ms)
  BY <1>1, <1>2 DEF Before
<1> QED  BY <1>1, <1>2, <1>3, <1>4, OneCell

(* A peer connects to this harbor. *)
LEMMA AcceptKeeps ==
    ASSUME HarborInv, NEW p \in Peer, Accept(p)
    PROVE  HarborInv'
<1> USE DEF HarborInv
<1>1. p \notin fd /\ wire[p] = <<>> /\ fd' = fd \cup {p} /\ alive' = alive \cup {p} /\ queue[p] \in Seq(Cell)
  BY Cells DEF Accept, Started, Linked
<1>2. Append(wire[p], Hello) = <<Hello>>
  BY <1>1
<1>3. alive' \subseteq fd'
  BY <1>1 DEF HTypeOK
<1> QED  BY <1>1, <1>2, <1>3, HelloCell, NoCell, FlushKeeps DEF Accept

(* This harbor connects to a peer. *)
LEMMA ConnectKeeps ==
    ASSUME HarborInv, NEW p \in Peer, Connect(p)
    PROVE  HarborInv'
<1> USE DEF HarborInv
<1>1. p \notin fd /\ wire[p] = <<>> /\ p \in Harbors /\ queue[p] \in Seq(Cell)
  BY Cells DEF Connect, Started, Linked
<1>2. wire' = [wire EXCEPT ![p] = <<Hello>>] /\ wire'[p] = <<Hello>> /\ \A q \in Peer \ {p} : wire'[q] = wire[q]
  BY <1>1 DEF Connect, HTypeOK
<1>3. /\ status' = [status EXCEPT ![p] = "HANDSHAKE"] /\ fd' = fd \cup {p} /\ alive' = alive \cup {p}
      /\ status'[p] = "HANDSHAKE" /\ (\A q \in Harbors \ {p} : status'[q] = status[q])
      /\ UNCHANGED <<queue, value, nqueue, local, dropped, sent>>
  BY <1>1 DEF Connect, Started, HTypeOK
<1>4. HTypeOK'
  BY <1>2, <1>3, HelloCell, Statuses DEF HTypeOK
<1>5. Fate'
  <2>1. ASSUME NEW x \in Place PROVE Held'[x] = Held[x]
    <3>1. ASSUME NEW q \in Peer \ {p}, x = <<"wire", q>> PROVE Held'[x] = Held[x]
      BY <1>2, <3>1, HeldAt DEF HeldIs
    <3>2. CASE x = <<"wire", p>>
      <4>1. Held'[x] = {} /\ Held[x] = {}
        BY <1>1, <1>2, <3>2, HeldAt, HelloCell, NoCell DEF HeldIs
      <4> QED  BY <4>1
    <3>3. CASE \E q \in Harbors : x = <<"queue", q>>
      BY <1>3, <3>3, HeldAt DEF HeldIs
    <3>4. CASE \E k \in Name : x = <<"name", k>>
      BY <1>3, <3>4, HeldAt DEF HeldIs
    <3>5. CASE x = <<"local", 0>> \/ x = <<"dropped", 0>>
      BY <1>3, <3>5, HeldAt DEF HeldIs
    <3> QED  BY <3>1, <3>2, <3>3, <3>4, <3>5, Places
  <2>2. Place' = Place
    BY DEF Place, Harbors
  <2> QED  BY <1>3, <2>1, <2>2 DEF Fate
<1>6. Linked'
  BY <1>2, <1>3, HelloCell DEF Linked, Harbors
<1>7. NothingStuck'
  BY <1>3 DEF NothingStuck, Harbors
<1>8. AllOnce' /\ Orders'
  BY <1>1, <1>2, <1>3, HelloCell DEF AllOnce, Orders
<1>9. Unknown'
  BY <1>2, <1>3, HelloCell DEF Unknown
<1>10. Hellos'
  BY <1>2, HelloCell DEF Hellos
<1> QED  BY <1>4, <1>5, <1>6, <1>7, <1>8, <1>9, <1>10

-----------------------------------------------------------------------------
(* The queues of the peers ps, which have a socket, and of the names ns    *)
(* are freed.                                                              *)
LEMMA FreedKeeps ==
    ASSUME HarborInv, NEW ps, ps \subseteq fd, NEW ns, ns \subseteq Name,
           dropped' = dropped \cup IdsAt(nqueue, ns) \cup IdsAt(queue, ps),
           queue' = [q \in Harbors |-> IF q \in ps THEN <<>> ELSE queue[q]],
           nqueue' = [n \in Name |-> IF n \in ns THEN <<>> ELSE nqueue[n]],
           fd' = fd, alive' \subseteq alive,
           NEW v \in {"HEADER", "DOWN"},
           status' = [q \in Harbors |-> IF q \in ps THEN v ELSE status[q]],
           UNCHANGED <<wire, local, value, sent>>
    PROVE  HarborInv'
<1> DEFINE y == <<"dropped", 0>>
           G == IdsAt(nqueue, ns) \cup IdsAt(queue, ps)
<1> USE DEF HarborInv
<1>1. ps \subseteq Peer /\ ps \subseteq Harbors
  BY DEF HTypeOK, Harbors
<1>2. \A q \in Harbors : queue'[q] = IF q \in ps THEN <<>> ELSE queue[q]
  OBVIOUS
<1>3. \A n \in Name : nqueue'[n] = IF n \in ns THEN <<>> ELSE nqueue[n]
  OBVIOUS
<1>4. HTypeOK'
  <2>1. status' \in [Harbors -> Status]
    BY Statuses DEF HTypeOK
  <2> QED  BY <1>2, <1>3, <2>1, NoCell DEF HTypeOK
<1>5. Fate'
  <2>1. HeldIs /\ HeldIs'
    BY HeldAt
  <2>2. /\ \A n \in ns : <<"name", n>> \in Place /\ Held[<<"name", n>>] = Ids(nqueue[n])
        /\ \A p \in ps : <<"queue", p>> \in Place /\ Held[<<"queue", p>>] = Ids(queue[p])
    BY <1>1, <2>1 DEF HeldIs
  <2>3. \A i \in G : \/ \E n \in ns : i \in Held[<<"name", n>>]
                     \/ \E p \in ps : i \in Held[<<"queue", p>>]
    BY <2>2, IdsAtIs
  <2>4. \A n \in ns : Ids(nqueue[n]) \subseteq G
    BY IdsAtIs
  <2>5. \A p \in ps : Ids(queue[p]) \subseteq G
    BY IdsAtIs
  <2>6. dropped' = dropped \cup G
    OBVIOUS
  <2> HIDE DEF G
  <2>7. G \subseteq 1 .. sent
    <3> DEFINE I == 1 .. sent
    <3>1. \A x \in Place : Held[x] \subseteq I
      BY DEF Fate
    <3> HIDE DEF I
    <3>2. G \subseteq I
      BY <2>2, <2>3, <3>1
    <3> QED  BY <3>2 DEF I
  <2>8. y \in Place /\ Held'[y] = Held[y] \cup G
    BY <2>1, <2>6 DEF HeldIs
  <2>9. ASSUME NEW x \in Place,
               \A n \in ns : x # <<"name", n>>, \A p \in ps : x # <<"queue", p>>
        PROVE  Held[x] \cap G = {}
    <3>1. \A z \in Place : x # z => Held[x] \cap Held[z] = {}
      BY DEF Fate
    <3> QED  BY <2>2, <2>3, <2>9, <3>1
  <2>10. ASSUME NEW x \in Place \ {y} PROVE Held'[x] = Held[x] \ G
    <3>1. ASSUME NEW q \in Peer, x = <<"wire", q>>
          PROVE  Held'[x] = Held[x] \ G
      <4>1. Held'[x] = Held[x]
        BY <2>1, <3>1 DEF HeldIs
      <4>2. Held[x] \cap G = {}
        BY <2>9, <3>1
      <4> QED  BY <4>1, <4>2
    <3>2. CASE x = <<"local", 0>>
      <4>1. Held'[x] = Held[x]
        BY <2>1, <3>2 DEF HeldIs
      <4>2. Held[x] \cap G = {}
        BY <2>9, <3>2
      <4> QED  BY <4>1, <4>2
    <3>3. ASSUME NEW q \in Harbors, x = <<"queue", q>>
          PROVE  Held'[x] = Held[x] \ G
      <4>1. CASE q \in ps
        BY <1>2, <2>1, <2>5, <3>3, <4>1, NoCell DEF HeldIs
      <4>2. CASE q \notin ps
        <5>1. Held'[x] = Held[x]
          BY <1>2, <2>1, <3>3, <4>2 DEF HeldIs
        <5>2. Held[x] \cap G = {}
          BY <2>9, <3>3, <4>2
        <5> QED  BY <5>1, <5>2
      <4> QED  BY <4>1, <4>2
    <3>4. ASSUME NEW n \in Name, x = <<"name", n>>
          PROVE  Held'[x] = Held[x] \ G
      <4>1. CASE n \in ns
        BY <1>3, <2>1, <2>4, <3>4, <4>1, NoCell DEF HeldIs
      <4>2. CASE n \notin ns
        <5>1. Held'[x] = Held[x]
          BY <1>3, <2>1, <3>4, <4>2 DEF HeldIs
        <5>2. Held[x] \cap G = {}
          BY <2>9, <3>4, <4>2
        <5> QED  BY <5>1, <5>2
      <4> QED  BY <4>1, <4>2
    <3> QED  BY <3>1, <3>2, <3>3, <3>4, Places
  <2>11. sent \in Nat
    BY DEF HTypeOK
  <2> QED  BY <2>7, <2>8, <2>10, <2>11, FateStep
<1>6. \A q \in Harbors : status'[q] = IF q \in ps THEN v ELSE status[q]
  OBVIOUS
<1>7. Linked'
  BY <1>1, <1>6 DEF Linked
<1>8. NothingStuck'
  <2>1. Self \in Harbors /\ Self \notin ps /\ Peer \subseteq Harbors
    BY <1>1, HarborAssumption DEF Harbors
  <2> QED  BY <1>2, <1>3, <1>6, <2>1 DEF NothingStuck
<1>9. AllOnce' /\ Orders'
  BY <1>2, <1>3, NoCell DEF AllOnce, Orders, Harbors
<1>10. Unknown'
  BY <1>2, <1>3, NoCell DEF Unknown, Harbors
<1>11. Hellos'
  BY DEF Hellos
<1> QED  BY <1>4, <1>5, <1>7, <1>8, <1>9, <1>10, <1>11

(* The peer's handshake arrives, and its queue is dispatched. *)
LEMMA HandshakeKeeps ==
    ASSUME HarborInv, NEW p \in Peer, Handshake(p)
    PROVE  HarborInv'
<1> USE DEF HarborInv
<1>1. p \in fd /\ p \in Harbors /\ wire[p] \in Seq(Cell) /\ queue[p] \in Seq(Cell)
  BY Cells DEF Handshake
<1>2. /\ queue' = [queue EXCEPT ![p] = <<>>] /\ status' = [status EXCEPT ![p] = "HEADER"]
      /\ UNCHANGED <<fd, alive, value, nqueue, local, sent>> /\ SendRemote(p, queue[p])
  BY DEF Handshake
<1>3. CASE p \in alive
  <2>1. wire' = [wire EXCEPT ![p] = wire[p] \o queue[p]] /\ UNCHANGED dropped
    BY <1>2, <1>3 DEF SendRemote
  <2>2. /\ wire[p] # <<>> /\ Once(wire[p]) /\ Ordered(wire[p]) /\ HelloHead(wire[p])
        /\ Before(wire[p], queue[p])
    BY <1>1 DEF Linked, AllOnce, Orders, Hellos
  <2>3. fd' = fd \cup {p} /\ alive' \subseteq fd'
    BY <1>1, <1>2 DEF HTypeOK
  <2> QED  BY <1>1, <1>2, <2>1, <2>2, <2>3, FlushKeeps
<1>4. CASE p \notin alive
  <2> DEFINE ps == {p}
             ns == {}
  <2>1. UNCHANGED wire /\ dropped' = dropped \cup Ids(queue[p])
    BY <1>2, <1>4 DEF SendRemote
  <2>2. IdsAt(nqueue, ns) = {} /\ IdsAt(queue, ps) = Ids(queue[p])
    BY IdsAtIs
  <2>3. queue' = [q \in Harbors |-> IF q \in ps THEN <<>> ELSE queue[q]]
    BY <1>2 DEF HTypeOK
  <2>4. nqueue' = [n \in Name |-> IF n \in ns THEN <<>> ELSE nqueue[n]]
    BY <1>2 DEF HTypeOK
  <2>5. status' = [q \in Harbors |-> IF q \in ps THEN "HEADER" ELSE status[q]]
    BY <1>2 DEF HTypeOK
  <2>6. ps \subseteq fd /\ ns \subseteq Name
    BY <1>1
  <2> HIDE DEF ps, ns
  <2>7. dropped' = dropped \cup IdsAt(nqueue, ns) \cup IdsAt(queue, ps)
    BY <2>1, <2>2
  <2>8. fd' = fd /\ alive' \subseteq alive /\ UNCHANGED <<wire, local, value, sent>>
    BY <1>2, <2>1
  <2> QED  BY <2>3, <2>4, <2>5, <2>6, <2>7, <2>8, FreedKeeps
<1> QED  BY <1>3, <1>4

(* close_harbor, when what the caller frees is the queues of some names *)
LEMMA CloseHarborKeeps ==
    ASSUME HarborInv, NEW ps, ps \subseteq fd, NEW ns, ns \subseteq Name,
           CloseHarbor(ps, IdsAt(nqueue, ns)),
           nqueue' = [n \in Name |-> IF n \in ns THEN <<>> ELSE nqueue[n]],
           UNCHANGED <<value, sent>>
    PROVE  HarborInv'
<1> USE DEF HarborInv
<1>1. queue' = [q \in Harbors |-> IF q \in ps THEN <<>> ELSE queue[q]]
  BY DEF CloseHarbor, HTypeOK
<1>2. status' = [q \in Harbors |-> IF q \in ps THEN "DOWN" ELSE status[q]]
  BY DEF CloseHarbor, HTypeOK
<1>3. /\ dropped' = dropped \cup IdsAt(nqueue, ns) \cup IdsAt(queue, ps)
      /\ fd' = fd /\ alive' \subseteq alive /\ UNCHANGED <<wire, local, value, sent>>
  BY DEF CloseHarbor
<1> QED  BY <1>1, <1>2, <1>3, FreedKeeps

(* Every step keeps the invariant. *)
LEMMA HarborNext == HarborInv /\ [Next]_vars => HarborInv'
<1> SUFFICES ASSUME HarborInv, [Next]_vars
             PROVE  HarborInv'
  OBVIOUS
<1>0. HTypeOK
  BY DEF HarborInv
<1>1. ASSUME NEW h \in Handle, SendHandle(h) PROVE HarborInv'
  BY <1>1, SendHandleKeeps
<1>2. ASSUME NEW n \in Name, SendName(n) PROVE HarborInv'
  BY <1>2, SendNameKeeps
<1>3. ASSUME NEW n \in Name, NEW h \in Handle, UpdateName(n, h) PROVE HarborInv'
  BY <1>3, UpdateNameKeeps
<1>4. ASSUME NEW p \in Peer, Connect(p) PROVE HarborInv'
  BY <1>4, ConnectKeeps
<1>5. ASSUME NEW p \in Peer, Accept(p) PROVE HarborInv'
  BY <1>5, AcceptKeeps
<1>6. ASSUME NEW p \in Peer, Handshake(p) PROVE HarborInv'
  BY <1>6, HandshakeKeeps
<1>7. ASSUME NEW p \in Peer, BadData(p) PROVE HarborInv'
  <2> DEFINE ns == {}
  <2>1. IdsAt(nqueue, ns) = {} /\ {p} \subseteq fd /\ ns \subseteq Name
    BY <1>7, IdsAtIs DEF BadData
  <2>2. nqueue' = [n \in Name |-> IF n \in ns THEN <<>> ELSE nqueue[n]]
    BY <1>0, <1>7 DEF BadData, HTypeOK
  <2> HIDE DEF ns
  <2>3. CloseHarbor({p}, IdsAt(nqueue, ns)) /\ UNCHANGED <<value, sent>>
    BY <1>7, <2>1 DEF BadData
  <2> QED  BY <2>1, <2>2, <2>3, CloseHarborKeeps
<1>8. ASSUME NEW p \in Peer, SocketClosed(p) PROVE HarborInv'
  <2>1. /\ UNCHANGED <<fd, status, queue, value, nqueue, wire, local, dropped, sent>>
        /\ alive' \subseteq alive
    BY <1>8 DEF SocketClosed, fateVars
  <2>2. Held' = Held /\ Place' = Place
    BY <2>1 DEF Held, Place, Harbors
  <2>3. HTypeOK'
    BY <1>0, <2>1 DEF HTypeOK
  <2>4. Fate' /\ Linked'
    BY <2>1, <2>2 DEF HarborInv, Fate, Linked
  <2>5. AllOnce' /\ NothingStuck' /\ Orders' /\ Unknown' /\ Hellos'
    BY <2>1 DEF HarborInv, AllOnce, NothingStuck, Orders, Unknown, Hellos
  <2> QED  BY <2>3, <2>4, <2>5 DEF HarborInv
<1>9. ASSUME Release PROVE HarborInv'
  <2> DEFINE ps == {p \in fd : status[p] # "DOWN"}
  <2>1. nqueue' = [n \in Name |-> IF n \in Name THEN <<>> ELSE nqueue[n]]
    BY <1>9 DEF Release
  <2>2. CloseHarbor(ps, IdsAt(nqueue, Name)) /\ UNCHANGED <<value, sent>>
    BY <1>9 DEF Release
  <2>3. ps \subseteq fd
    OBVIOUS
  <2> HIDE DEF ps
  <2> QED  BY <2>1, <2>2, <2>3, CloseHarborKeeps
<1>10. CASE UNCHANGED vars
  <2>1. UNCHANGED <<fd, alive, status, queue, value, nqueue, wire, local, dropped, sent>>
    BY <1>10 DEF vars, peerVars, fateVars
  <2>2. Held' = Held /\ Place' = Place
    BY <2>1 DEF Held, Place, Harbors
  <2> QED  BY <2>1, <2>2 DEF HarborInv, HTypeOK, Fate, Linked, AllOnce, NothingStuck, Orders, Unknown, Hellos
<1> QED  BY <1>1, <1>2, <1>3, <1>4, <1>5, <1>6, <1>7, <1>8, <1>9, <1>10 DEF Next

-----------------------------------------------------------------------------
(* The inductive invariant of the harbor holds at all times. *)
LEMMA HarborInvHolds == Spec => []HarborInv
BY HarborInit, HarborNext, PTL DEF Spec

(* What HarborInv says of the fates of the messages *)
LEMMA FatesKept == HarborInv => MessagesKept
<1> SUFFICES ASSUME HarborInv PROVE MessagesKept
  OBVIOUS
<1> USE DEF HarborInv
<1> DEFINE I == 1 .. sent
<1>1. HeldIs
  BY HeldAt
<1>2. DOMAIN queue = Harbors /\ Peer \subseteq Harbors
  BY DEF HTypeOK, Harbors
<1>3. Waiting = IdsAt(queue, Harbors) \cup IdsAt(nqueue, Name)
  BY <1>2 DEF Waiting
<1>4. /\ \A x \in Place : Held[x] \subseteq I
      /\ \A i \in I : \E x \in Place : i \in Held[x]
      /\ \A x, z \in Place : x # z => Held[x] \cap Held[z] = {}
  BY DEF Fate
<1> HIDE DEF I
<1>5. \A i : i \in Written <=> \E p \in Peer : i \in Held[<<"wire", p>>]
  <2>1. \A i : i \in Written <=> (i # 0 /\ \E p \in Peer : i \in Ids(wire[p]))
    BY IdsAtIs DEF Written
  <2> QED  BY <1>1, <2>1 DEF HeldIs
<1>6. \A i : i \in Waiting <=> \/ \E p \in Harbors : i \in Held[<<"queue", p>>]
                               \/ \E n \in Name : i \in Held[<<"name", n>>]
  <2>1. \A i : i \in Waiting <=> (\E p \in Harbors : i \in Ids(queue[p])) \/ (\E n \in Name : i \in Ids(nqueue[n]))
    BY <1>3, IdsAtIs
  <2>2. /\ \A p \in Harbors : Ids(queue[p]) = Held[<<"queue", p>>]
        /\ \A n \in Name : Ids(nqueue[n]) = Held[<<"name", n>>]
    BY <1>1 DEF HeldIs
  <2> QED  BY <2>1, <2>2
<1>7. Ids(local) = Held[<<"local", 0>>] /\ dropped = Held[<<"dropped", 0>>]
  BY <1>1 DEF HeldIs
<1>8. /\ \A p \in Peer : <<"wire", p>> \in Place
      /\ \A p \in Harbors : <<"queue", p>> \in Place
      /\ \A n \in Name : <<"name", n>> \in Place
      /\ <<"local", 0>> \in Place /\ <<"dropped", 0>> \in Place
  BY <1>1 DEF HeldIs
<1>9. I = Written \cup Waiting \cup Ids(local) \cup dropped
  <2>1. ASSUME NEW i \in I PROVE i \in Written \cup Waiting \cup Ids(local) \cup dropped
    <3>1. PICK x \in Place : i \in Held[x]
      BY <1>4
    <3> QED  BY <1>5, <1>6, <1>7, <3>1, Places
  <2>2. Written \subseteq I /\ Waiting \subseteq I /\ Ids(local) \subseteq I /\ dropped \subseteq I
    <3>1. \A i : (\E x \in Place : i \in Held[x]) => i \in I
      BY <1>4
    <3>2. Written \subseteq I
      BY <1>5, <1>8, <3>1
    <3>3. Waiting \subseteq I
      BY <1>6, <1>8, <3>1
    <3>4. Ids(local) \subseteq I /\ dropped \subseteq I
      BY <1>7, <1>8, <3>1
    <3> QED  BY <3>2, <3>3, <3>4
  <2> QED  BY <2>1, <2>2
<1>10. \A p, q \in Peer : p # q => Ids(wire[p]) \cap Ids(wire[q]) \subseteq {0}
  <2> SUFFICES ASSUME NEW p \in Peer, NEW q \in Peer, p # q
               PROVE  Ids(wire[p]) \cap Ids(wire[q]) \subseteq {0}
    OBVIOUS
  <2>1. <<"wire", p>> # <<"wire", q>>
    OBVIOUS
  <2>2. Held[<<"wire", p>>] \cap Held[<<"wire", q>>] = {}
    BY <1>4, <1>8, <2>1
  <2> QED  BY <1>1, <2>2 DEF HeldIs
<1>11. ASSUME NEW i, NEW x \in Place, NEW z \in Place, i \in Held[x], i \in Held[z]
       PROVE  x = z
  BY <1>4, <1>11
<1>12. ASSUME NEW i \in Written PROVE i \notin Waiting /\ i \notin Ids(local) /\ i \notin dropped
  <2>1. PICK p \in Peer : i \in Held[<<"wire", p>>]
    BY <1>5
  <2>2. \A x \in Place : i \in Held[x] => x = <<"wire", p>>
    BY <1>8, <1>11, <2>1
  <2>3. /\ \A q \in Harbors : <<"queue", q>> # <<"wire", p>>
        /\ \A n \in Name : <<"name", n>> # <<"wire", p>>
        /\ <<"local", 0>> # <<"wire", p>> /\ <<"dropped", 0>> # <<"wire", p>>
    OBVIOUS
  <2> QED  BY <1>6, <1>7, <1>8, <2>2, <2>3
<1>13. ASSUME NEW i \in Waiting PROVE i \notin Ids(local) /\ i \notin dropped
  <2>1. PICK z \in Place : i \in Held[z] /\ z # <<"local", 0>> /\ z # <<"dropped", 0>>
    BY <1>6, <1>8
  <2> QED  BY <1>7, <1>8, <1>11, <2>1
<1>14. Ids(local) \cap dropped = {}
  <2>1. <<"local", 0>> # <<"dropped", 0>>
    OBVIOUS
  <2> QED  BY <1>4, <1>7, <1>8, <2>1
<1>15. /\ Written \cap (Waiting \cup Ids(local) \cup dropped) = {}
       /\ Waiting \cap (Ids(local) \cup dropped) = {}
  BY <1>12, <1>13
<1>16. Once(local) /\ \A p \in Peer : Once(wire[p]) /\ Once(queue[p])
  BY <1>2 DEF AllOnce
<1>17. OneFate
  BY <1>9, <1>10, <1>14, <1>15, <1>16 DEF OneFate, I
<1> QED  BY <1>17 DEF MessagesKept

(***************************************************************************)
(* Whatever the order of messages, names, connections and failures, every  *)
(* message that a service gave to the harbor is in one place, and none is  *)
(* in a queue of service_harbor.c that nobody will empty.                  *)
(***************************************************************************)
THEOREM MessagesKeptHolds == Spec => []MessagesKept
BY HarborInvHolds, FatesKept, PTL

(***************************************************************************)
(* The first thing written to a socket is the handshake, there is only     *)
(* one, and the messages for a service or a name follow in the order in    *)
(* which they were sent, though remote_send_name and remote_send_handle    *)
(* may have kept them in two queues one after the other.                   *)
(***************************************************************************)
THEOREM WireInvHolds == Spec => []WireInv
<1>1. HarborInv => WireInv
  BY DEF HarborInv, Hellos, HelloHead, Orders, Ordered, WireInv, HelloFirst, InOrder
<1> QED  BY <1>1, HarborInvHolds, PTL
=============================================================================
