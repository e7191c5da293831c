---------------------------------- MODULE Gate ----------------------------------
(***************************************************************************)
(* The gate service in C (service_gate.c): its clients in a hash table of  *)
(* fixed size (hashid.h), what they sent in buffers (databuffer.h), the    *)
(* packets it takes out of them, and the commands of other services.       *)
(*                                                                         *)
(* Each socket message is one action, but dispatch_message, which goes on  *)
(* packet by packet (busy).  The socket server reports what happens to an  *)
(* id in order: accept, data, close; `box' holds the reports that are not  *)
(* handled yet, as the commands of others come between them.               *)
(***************************************************************************)
EXTENDS Integers, SequencesExt

CONSTANTS Id,           \* ids of client sockets
          Cap,          \* max_connection
          Buckets,      \* hashmod + 1; 16 or more in the code
          Header,       \* header_size: 2 or 4
          Lens,         \* the lengths of the packets each client sends, Huge or Negative
          Watchdog,     \* TRUE if there is one
          MaxBox,       \* bound: reports of the socket server that wait
          MaxOpen       \* bound: clients accepted, several with the same id

Place == 0 .. Cap - 1
Nil == -1
Huge == -2              \* 0x1000000 or more
Negative == -3          \* 0x80000000 or more in a header of 4 bytes: an int below 0
Broken == 1             \* what bytes that are no length are read as

VARIABLES box,          \* socket messages for the gate
          pos,          \* bytes the client has sent
          life,         \* the socket: "none", "open", "closing" (by the gate), "closed"
          opened,       \* clients so far
          listening,    \* listen_id >= 0
          id, next,     \* hash.id: the id and the link of each node
          hash, count,  \* hash.hash, hash.count
          conn,         \* conn: c->id, c->agent, and the data buffer
          busy,         \* the place dispatch_message is at, or Nil
          out,          \* the packets that were forwarded for each id
          unheard,      \* history: ids with a packet that nobody was there for
          failed        \* the assertion that has failed, or ""

vars == <<box, pos, life, opened, listening, id, next, hash, count, conn, busy, out, unheard, failed>>
sockets == <<box, pos, life, opened>>
table == <<id, next, hash, count>>
history == <<out, unheard>>

Part(c, m, k, n) == [i \in 1 .. n |-> [id |-> c, msg |-> m, part |-> k, at |-> i]]
Body(c, m) == Part(c, m, "content", IF Lens[c][m] \in {Huge, Negative} THEN 1 ELSE Lens[c][m])
Packet(c, m) == Part(c, m, "length", Header) \o Body(c, m)
Stream(c) == FlattenSeq([m \in DOMAIN Lens[c] |-> Packet(c, m)])

NoConn == [id |-> Nil, agent |-> FALSE, header |-> 0, offset |-> 0, list |-> <<>>]

Init == /\ box = <<>> /\ pos = [c \in Id |-> 0] /\ life = [c \in Id |-> "none"] /\ opened = 0
        /\ listening = TRUE
        /\ id = [p \in Place |-> Nil] /\ next = [p \in Place |-> Nil]
        /\ hash = [h \in 0 .. Buckets - 1 |-> Nil] /\ count = 0
        /\ conn = [p \in Place |-> NoConn] /\ busy = Nil
        /\ out = [c \in Id |-> <<>>] /\ unheard = {} /\ failed = ""

-----------------------------------------------------------------------------
(* hashid.h *)

(* The nodes of a chain, from node p on *)
Chain(p) ==
    LET step[k \in 0 .. Cap] == IF k = 0 THEN <<p>>
                                ELSE IF Last(step[k - 1]) = Nil THEN step[k - 1]
                                ELSE Append(step[k - 1], next[Last(step[k - 1])])
    IN  SelectSeq(step[Cap], LAMBDA q : q # Nil)
Bucket(c) == c % Buckets

(* hashid_lookup *)
Lookup(c) == LET l == Chain(hash[Bucket(c)])
                 found == {k \in DOMAIN l : id[l[k]] = c}
             IN  IF found = {} THEN Nil ELSE l[CHOOSE k \in found : \A j \in found : k <= j]

(* The node before p in its chain, or Nil *)
Before(p) == IF \E q \in Place : next[q] = p THEN CHOOSE q \in Place : next[q] = p ELSE Nil

(* hashid_remove of the id at node p *)
RemoveNode(p) ==
    /\ IF Before(p) = Nil
       THEN /\ hash' = [hash EXCEPT ![Bucket(id[p])] = next[p]]
            /\ next' = [next EXCEPT ![p] = Nil]
       ELSE /\ next' = [next EXCEPT ![Before(p)] = next[p], ![p] = Nil]
            /\ UNCHANGED hash
    /\ id' = [id EXCEPT ![p] = Nil] /\ count' = count - 1

(* hashid_insert: the first free place from c on, at the head of its chain *)
Free(c) == LET k == CHOOSE i \in 0 .. Cap - 1 :
                        /\ id[(i + c) % Cap] = Nil
                        /\ \A j \in 0 .. i - 1 : id[(j + c) % Cap] # Nil
           IN  (k + c) % Cap
InsertNode(c) == LET p == Free(c) IN
    /\ id' = [id EXCEPT ![p] = c] /\ count' = count + 1
    /\ next' = [next EXCEPT ![p] = hash[Bucket(c)]]
    /\ hash' = [hash EXCEPT ![Bucket(c)] = p]

-----------------------------------------------------------------------------
(* databuffer.h: a list of what the socket delivered, read from offset on *)

Bytes(list) == FoldLeft(LAMBDA n, b : n + Len(b), 0, list)
InBuffer(c) == Bytes(c.list) - c.offset
Peek(c, n) == SubSeq(FlattenSeq(c.list), c.offset + 1, c.offset + n)

(* databuffer_read of n > 0 bytes: messages that are read to their end are returned. *)
Read(c, n) ==
    LET gone == CHOOSE k \in 0 .. Len(c.list) :
                    /\ Bytes(SubSeq(c.list, 1, k)) <= c.offset + n
                    /\ k < Len(c.list) => Bytes(SubSeq(c.list, 1, k + 1)) > c.offset + n
    IN  [c EXCEPT !.list = SubSeq(@, gone + 1, Len(@)),
                  !.offset = @ + n - Bytes(SubSeq(c.list, 1, gone))]

Length(bytes) == LET b == bytes[1] IN
    IF bytes = Part(b.id, b.msg, "length", Header) THEN Lens[b.id][b.msg] ELSE Broken

-----------------------------------------------------------------------------
(* service_gate.c; its socket messages *)

Idle == busy = Nil /\ failed = ""
Arrives(t) == Idle /\ box # <<>> /\ Head(box).t = t
CloseSocket(c) == life' = [life EXCEPT ![c] = IF @ = "open" THEN "closing" ELSE @]

Accept ==
    /\ Arrives("accept") /\ box' = Tail(box)
    /\ LET c == Head(box).id IN
       \/ ~listening /\ failed' = "accept" /\ UNCHANGED <<life, table, conn>>
       \/ /\ listening /\ count = Cap
          /\ CloseSocket(c) /\ UNCHANGED <<table, conn, failed>>
       \/ /\ listening /\ count < Cap
          /\ InsertNode(c) /\ conn' = [conn EXCEPT ![Free(c)].id = c]
          /\ UNCHANGED <<life, failed>>
    /\ UNCHANGED <<pos, opened, listening, busy, history>>

Data ==
    /\ Arrives("data") /\ box' = Tail(box)
    /\ LET c == Head(box).id
           p == Lookup(c)
       IN  \/ p = Nil /\ CloseSocket(c) /\ UNCHANGED <<conn, busy>>
           \/ /\ p # Nil /\ busy' = p
              /\ conn' = [conn EXCEPT ![p].list = Append(@, Head(box).data)]
              /\ UNCHANGED life
    /\ UNCHANGED <<pos, opened, listening, table, history, failed>>

(* CLOSE and ERROR *)
Close ==
    /\ Arrives("close") /\ box' = Tail(box)
    /\ LET c == Head(box).id
           p == Lookup(c)
       IN  /\ IF p = Nil THEN UNCHANGED <<table, conn>>
              ELSE RemoveNode(p) /\ conn' = [conn EXCEPT ![p] = NoConn]
           /\ life' = [life EXCEPT ![c] = "none"] /\ pos' = [pos EXCEPT ![c] = 0]
           /\ out' = [out EXCEPT ![c] = <<>>] /\ unheard' = unheard \ {c}
    /\ UNCHANGED <<opened, listening, busy, failed>>

(* A step of dispatch_message: databuffer_readheader, and what it finds. A *)
(* length of 0 is left as if there was none; one below 0 is kept, and taken *)
(* for a packet that is not complete, whatever comes.                      *)
Step(c, n) ==
    \/ /\ n # Huge /\ n > InBuffer(c)
       /\ conn' = [conn EXCEPT ![busy] = [c EXCEPT !.header = n]]
       /\ busy' = Nil /\ UNCHANGED <<life, history>>
    \/ /\ n = 0
       /\ conn' = [conn EXCEPT ![busy] = [c EXCEPT !.header = 0]]
       /\ UNCHANGED <<life, busy, history>>
    \/ /\ n = Negative
       /\ conn' = [conn EXCEPT ![busy] = [c EXCEPT !.header = n]]
       /\ busy' = Nil /\ UNCHANGED <<life, history>>
    \/ /\ n = Huge
       /\ IF InBuffer(c) = 0       \* so much is not there yet
          THEN conn' = [conn EXCEPT ![busy] = [c EXCEPT !.header = n]] /\ UNCHANGED <<life, history>>
          ELSE /\ conn' = [conn EXCEPT ![busy] = [NoConn EXCEPT !.id = c.id, !.agent = c.agent]]
               /\ unheard' = unheard \cup {c.id}
               /\ CloseSocket(c.id) /\ UNCHANGED out
       /\ busy' = Nil
    \/ /\ n > 0 /\ n <= InBuffer(c)     \* _forward
       /\ IF c.agent \/ Watchdog
          THEN /\ out' = [out EXCEPT ![c.id] = Append(@, Peek(c, n))]
               /\ conn' = [conn EXCEPT ![busy] = [Read(c, n) EXCEPT !.header = 0]]
               /\ UNCHANGED unheard
          ELSE /\ conn' = [conn EXCEPT ![busy] = [c EXCEPT !.header = 0]]
               /\ unheard' = unheard \cup {c.id} /\ UNCHANGED out
       /\ UNCHANGED <<life, busy>>

DispatchMessage ==
    /\ busy # Nil
    /\ LET c == conn[busy] IN
       IF c.header # 0 THEN Step(c, c.header)
       ELSE IF InBuffer(c) < Header
            THEN busy' = Nil /\ UNCHANGED <<life, conn, history>>
            ELSE Step(Read(c, Header), Length(Peek(c, Header)))
    /\ UNCHANGED <<box, pos, opened, listening, table, failed>>

-----------------------------------------------------------------------------
(* Commands of other services *)

Kick(c) == /\ Idle /\ Lookup(c) # Nil /\ life[c] = "open" /\ CloseSocket(c)
           /\ UNCHANGED <<box, pos, opened, listening, table, conn, busy, history, failed>>

Forward(c) == /\ Idle /\ Lookup(c) # Nil /\ ~conn[Lookup(c)].agent
              /\ conn' = [conn EXCEPT ![Lookup(c)].agent = TRUE]
              /\ UNCHANGED <<sockets, listening, table, busy, history, failed>>

CloseListen == /\ Idle /\ listening /\ listening' = FALSE
               /\ UNCHANGED <<sockets, table, conn, busy, history, failed>>

-----------------------------------------------------------------------------
(* The clients and the socket server *)

Connect(c) ==
    /\ Idle /\ Len(box) < MaxBox /\ life[c] = "none" /\ listening /\ opened < MaxOpen
    /\ opened' = opened + 1 /\ life' = [life EXCEPT ![c] = "open"]
    /\ box' = Append(box, [t |-> "accept", id |-> c, data |-> <<>>])
    /\ UNCHANGED <<pos, listening, table, conn, busy, history, failed>>

Send(c) ==
    /\ Idle /\ Len(box) < MaxBox /\ life[c] = "open"
    /\ \E n \in 1 .. Len(Stream(c)) - pos[c] :
           /\ pos' = [pos EXCEPT ![c] = @ + n]
           /\ box' = Append(box, [t |-> "data", id |-> c, data |-> SubSeq(Stream(c), pos[c] + 1, pos[c] + n)])
    /\ UNCHANGED <<life, opened, listening, table, conn, busy, history, failed>>

(* The socket is closed by either side; its id is free when that is handled *)
(* (a bound: the socket server counts its ids up).                          *)
Closed(c) ==
    /\ Idle /\ Len(box) < MaxBox /\ life[c] \in {"open", "closing"}
    /\ life' = [life EXCEPT ![c] = "closed"]
    /\ box' = Append(box, [t |-> "close", id |-> c, data |-> <<>>])
    /\ UNCHANGED <<pos, opened, listening, table, conn, busy, history, failed>>

Next == \/ Accept \/ Data \/ Close \/ DispatchMessage \/ CloseListen
        \/ \E c \in Id : Kick(c) \/ Forward(c) \/ Connect(c) \/ Send(c) \/ Closed(c)

Spec == Init /\ [][Next]_vars

-----------------------------------------------------------------------------
(***************************************************************************)
(* Every client that was accepted is found in the table, at the place of   *)
(* its connection, and no other; the table is full when the count says so. *)
(***************************************************************************)
TableExact ==
    /\ count = Cardinality({p \in Place : id[p] # Nil})
    /\ \A p \in Place : conn[p].id = id[p] /\ (id[p] = Nil => next[p] = Nil)
    /\ \A p \in Place : id[p] # Nil => Lookup(id[p]) = p
    /\ \A h \in DOMAIN hash : \A k \in DOMAIN Chain(hash[h]) : Bucket(id[Chain(hash[h])[k]]) = h

(* What of the bytes of c has been handled *)
Handled(c) == pos[c] - FoldLeft(LAMBDA n, m : n + (IF m.id = c THEN Len(m.data) ELSE 0), 0, box)

(* The packets in the first n bytes of c, without those of length 0 and    *)
(* what comes after a length that is read as negative                      *)
Packets(c, n) ==
    LET Ends(m) == Len(FlattenSeq([k \in 1 .. m |-> Packet(c, k)]))
        Legible(m) == \A k \in 1 .. m : Lens[c][k] # Negative
        complete == SelectSeq([m \in DOMAIN Lens[c] |-> m],
                              LAMBDA m : Lens[c][m] # 0 /\ Ends(m) <= n /\ Legible(m))
    IN  [k \in DOMAIN complete |-> Body(c, complete[k])]

(***************************************************************************)
(* Each packet whose last byte has come is forwarded, in order, and        *)
(* nothing else is, as long as there was somebody to forward to and no     *)
(* length was over the limit (unheard).  After a length that is read as    *)
(* negative the client is neither closed nor heard again.                  *)
(***************************************************************************)
Reassembled ==
    Idle => \A p \in Place : id[p] # Nil /\ id[p] \notin unheard =>
                out[id[p]] = Packets(id[p], Handled(id[p]))

GateInv == TableExact /\ Reassembled

(* assert(g->listen_id == message->id) *)
AcceptAsserted == failed # "accept"
=============================================================================
