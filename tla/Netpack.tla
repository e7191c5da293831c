-------------------------------- MODULE Netpack --------------------------------
(***************************************************************************)
(* How a gate in Lua takes packets out of the bytes of its clients         *)
(* (lua-netpack.c) and hands them to its handler (dispatch_queue of        *)
(* gateserver.lua).  A packet is two bytes of length and its content; the  *)
(* socket cuts anywhere.  What is unfinished waits in a hash table, and    *)
(* packets that come together wait in a ring that grows.                   *)
(*                                                                         *)
(* A byte is a record that says where the client put it.  One message of   *)
(* the gate runs to its end before the next: run says what it is doing.    *)
(* The handler of a packet may return, yield, or raise an error, and may   *)
(* close a client before that; what that client has sent is dropped then.  *)
(***************************************************************************)
EXTENDS Integers, SequencesExt

CONSTANTS Fd,           \* ids of connections
          Lens,         \* what each client sends: the lengths of its packets
          QueueSize,    \* QUEUESIZE, 1024 in the code
          HashSize,     \* HASHSIZE, 4096 in the code
          MaxOpen,      \* bound: connections, several with the same id
          MaxAsleep     \* bound: handlers that yield

VARIABLES pos,          \* bytes of the connection that have come, or -1
          opened,       \* how many there were
          hash,         \* q->hash: the list of each slot
          ring,         \* q->queue, with cap, head and tail
          run,          \* what the service does, see below
          cur, rest,    \* the connection and what push_more still has to read
          forks,        \* dispatch_queue in the fork queue of the service
          asleep,       \* dispatch_queue coroutines whose handler has yielded
          done,         \* the packets handed to the handler
          shut          \* connection[fd] is false: how many there were then, or -1

vars == <<pos, opened, hash, ring, run, cur, rest, forks, asleep, done, shut>>

Content(f, m) == [i \in 1 .. Lens[f][m] |-> [fd |-> f, msg |-> m, at |-> i + 2]]
Packet(f, m) == [i \in 1 .. 2 |-> [fd |-> f, msg |-> m, at |-> i]] \o Content(f, m)
Stream(f) == FlattenSeq([m \in DOMAIN Lens[f] |-> Packet(f, m)])

(* read_size; two bytes that are no length read as 1. *)
Size(a, b) == IF a.msg = b.msg /\ a.at = 1 /\ b.at = 2 THEN Lens[a.fd][a.msg] ELSE 1

Init == /\ pos = [f \in Fd |-> -1] /\ opened = 0
        /\ hash = [h \in 0 .. HashSize - 1 |-> <<>>]
        /\ ring = [cap |-> QueueSize, head |-> 0, tail |-> 0, slot |-> [i \in 0 .. QueueSize - 1 |-> <<>>]]
        /\ run = "idle" /\ cur = 0 /\ rest = <<>>
        /\ forks = 0 /\ asleep = 0
        /\ done = [f \in Fd |-> <<>>] /\ shut = [f \in Fd |-> -1]

-----------------------------------------------------------------------------
(* lua-netpack.c *)

Slot(f) == f % HashSize
Waiting(f) == {k \in DOMAIN hash[Slot(f)] : hash[Slot(f)][k].id = f}

(* find_uncomplete takes the first of the list out of it. *)
Without(f) == LET l == hash[Slot(f)] IN
              IF Waiting(f) = {} THEN l ELSE RemoveAt(l, CHOOSE k \in Waiting(f) : \A j \in Waiting(f) : k <= j)
Found(f) == hash[Slot(f)][CHOOSE k \in Waiting(f) : \A j \in Waiting(f) : k <= j]

(* A packet of size n with the bytes b: finished with a rest, or not *)
Filled(n, b) == [full |-> Len(b) >= n, size |-> n, read |-> Len(b),
                 data |-> IF Len(b) >= n THEN SubSeq(b, 1, n) ELSE b, rest |-> SubSeq(b, n + 1, Len(b))]

(* The first packet of data: where there is none yet (push_more), and where one is continued *)
Fresh(data) == IF Len(data) = 1 THEN [full |-> FALSE, size |-> 0, read |-> -1, data |-> data, rest |-> <<>>]
               ELSE Filled(Size(data[1], data[2]), SubSeq(data, 3, Len(data)))
Fill(uc, data) == IF uc.read < 0 THEN Filled(Size(uc.data[1], data[1]), Tail(data))
                  ELSE Filled(uc.size, uc.data \o data)

(* save_uncomplete; the list without the packet that was found *)
Save(f, p, list) == hash' = [hash EXCEPT ![Slot(f)] =
                                 <<[id |-> f, size |-> p.size, read |-> p.read, data |-> p.data]>> \o list]

(* expand_queue *)
Expand(q) == [cap |-> q.cap + QueueSize, head |-> 0, tail |-> q.cap,
              slot |-> [i \in 0 .. q.cap + QueueSize - 1 |->
                            IF i < q.cap THEN q.slot[(q.head + i) % q.cap] ELSE <<>>]]

(* push_data *)
Push(f, data) ==
    LET q == [ring EXCEPT !.slot[ring.tail] = <<f, data>>,
                          !.tail = IF @ + 1 >= ring.cap THEN @ + 1 - ring.cap ELSE @ + 1]
    IN  ring' = IF q.head = q.tail THEN Expand(q) ELSE q

(* lpop *)
Empty == ring.head = ring.tail
Pop == ring' = [ring EXCEPT !.slot[ring.head] = <<>>, !.head = IF @ + 1 >= ring.cap THEN 0 ELSE @ + 1]
First == ring.slot[ring.head]

-----------------------------------------------------------------------------
(* gateserver.lua *)

(* gateserver.closeclient, by a handler or a command: connection[f] = false, *)
(* when n packets of f have been handed over                                 *)
Shut(f, n) == pos[f] # -1 /\ shut[f] = -1 /\ shut' = [shut EXCEPT ![f] = n]

(* dispatch_msg: the handler returns and the coroutine goes on at next, or *)
(* it yields or raises an error, and the coroutine is left.  What comes    *)
(* from a client that was closed is dropped.                               *)
Handle(f, data, next) ==
    IF pos[f] = -1 \/ shut[f] # -1 THEN run' = next /\ UNCHANGED <<asleep, done, shut>>
    ELSE /\ done' = [done EXCEPT ![f] = Append(@, data)]
         /\ UNCHANGED shut \/ \E g \in Fd : Shut(g, Len(done[g]) + IF g = f THEN 1 ELSE 0)
         /\ \/ run' = next /\ UNCHANGED asleep
            \/ run' = "next" /\ UNCHANGED asleep
            \/ run' = "next" /\ next = "loop" /\ asleep < MaxAsleep /\ asleep' = asleep + 1

(* A command closes a client, or a handler that had yielded. *)
CloseClient(f) ==
    /\ run = "idle" /\ Shut(f, Len(done[f]))
    /\ UNCHANGED <<pos, opened, hash, ring, run, cur, rest, forks, asleep, done>>

(* SKYNET_SOCKET_TYPE_ACCEPT: a client with this id *)
Open(f) ==
    /\ run = "idle" /\ pos[f] = -1 /\ opened < MaxOpen
    /\ pos' = [pos EXCEPT ![f] = 0] /\ opened' = opened + 1
    /\ done' = [done EXCEPT ![f] = <<>>] /\ shut' = [shut EXCEPT ![f] = -1]
    /\ UNCHANGED <<hash, ring, run, cur, rest, forks, asleep>>

(* Mutant: what the connection has left unfinished stays. *)
CloseLeaves(f) ==
    /\ run = "idle" /\ pos[f] # -1
    /\ pos' = [pos EXCEPT ![f] = -1]
    /\ UNCHANGED <<opened, hash, ring, run, cur, rest, forks, asleep, done, shut>>

(* SKYNET_SOCKET_TYPE_CLOSE and _ERROR, close_uncomplete *)
Close(f) ==
    /\ run = "idle" /\ pos[f] # -1
    /\ pos' = [pos EXCEPT ![f] = -1]
    /\ hash' = [hash EXCEPT ![Slot(f)] = Without(f)]
    /\ UNCHANGED <<opened, ring, run, cur, rest, forks, asleep, done, shut>>

(* SKYNET_SOCKET_TYPE_DATA, filter_data_: one packet is given away at once, *)
(* of several the first goes into the ring, and push_more goes on.          *)
Data(f) ==
    /\ run = "idle" /\ pos[f] # -1
    /\ \E n \in 1 .. Len(Stream(f)) - pos[f] :
        LET data == SubSeq(Stream(f), pos[f] + 1, pos[f] + n)
            p == IF Waiting(f) = {} THEN Fresh(data) ELSE Fill(Found(f), data)
        IN  /\ pos' = [pos EXCEPT ![f] = @ + n]
            /\ \/ /\ ~p.full /\ Save(f, p, Without(f))
                  /\ UNCHANGED <<ring, run, cur, rest, asleep, done, shut>>
               \/ /\ p.full /\ p.rest = <<>>
                  /\ hash' = [hash EXCEPT ![Slot(f)] = Without(f)]
                  /\ Handle(f, p.data, "next")
                  /\ UNCHANGED <<ring, cur, rest>>
               \/ /\ p.full /\ p.rest # <<>>
                  /\ hash' = [hash EXCEPT ![Slot(f)] = Without(f)]
                  /\ Push(f, p.data) /\ run' = "more" /\ cur' = f /\ rest' = p.rest
                  /\ UNCHANGED <<asleep, done, shut>>
    /\ UNCHANGED <<opened, forks>>

(* push_more, until there is no complete packet; then MSG.more *)
PushMore ==
    /\ run = "more"
    /\ LET p == Fresh(rest)
       IN  IF p.full
           THEN /\ Push(cur, p.data)
                /\ rest' = p.rest /\ run' = IF p.rest = <<>> THEN "start" ELSE "more"
                /\ UNCHANGED hash
           ELSE /\ Save(cur, p, hash[Slot(cur)])
                /\ rest' = <<>> /\ run' = "start"
                /\ UNCHANGED ring
    /\ cur' = IF run' = "more" THEN cur ELSE 0
    /\ UNCHANGED <<pos, opened, forks, asleep, done, shut>>

(* dispatch_queue: the first packet, for which it forks, and the others *)
DispatchQueue ==
    /\ run \in {"start", "loop"}
    /\ IF Empty THEN run' = "next" /\ UNCHANGED <<ring, forks, asleep, done, shut>>
       ELSE /\ Pop /\ Handle(First[1], First[2], "loop")
            /\ forks' = IF run = "start" THEN forks + 1 ELSE forks
    /\ UNCHANGED <<pos, opened, hash, cur, rest>>

(* The coroutine has ended or yielded; those that were forked are next. *)
NextFork ==
    /\ run = "next"
    /\ IF forks = 0 THEN run' = "idle" /\ UNCHANGED forks
       ELSE run' = "start" /\ forks' = forks - 1
    /\ UNCHANGED <<pos, opened, hash, ring, cur, rest, asleep, done, shut>>

(* The answer that a handler has waited for; its dispatch_queue goes on. *)
Resume ==
    /\ run = "idle" /\ asleep > 0
    /\ asleep' = asleep - 1 /\ run' = "loop"
    /\ UNCHANGED <<pos, opened, hash, ring, cur, rest, forks, done, shut>>

Next == \/ \E f \in Fd : Open(f) \/ Close(f) \/ CloseClient(f) \/ Data(f)
        \/ PushMore \/ DispatchQueue \/ NextFork \/ Resume

Spec == Init /\ [][Next]_vars

-----------------------------------------------------------------------------
(* Where packet m ends, and how many of the first bytes belong to the next one *)
End(f, m) == Len(FlattenSeq([k \in 1 .. m |-> Packet(f, k)]))
Complete(f) == {m \in DOMAIN Lens[f] : End(f, m) <= pos[f]}

(***************************************************************************)
(* The handler is given the content of each packet that is complete, in    *)
(* the order of its connection, before the service takes its next message, *)
(* whichever handlers yield or fail; and none of a client from the moment  *)
(* on at which the service has closed it, be it in the ring already.       *)
(***************************************************************************)
Delivered ==
    \A f \in Fd : pos[f] # -1 =>
        /\ \A m \in DOMAIN done[f] : m \in Complete(f) /\ done[f][m] = Content(f, m)
        /\ shut[f] # -1 => Len(done[f]) = shut[f]
        /\ run = "idle" => Empty /\ (shut[f] = -1 => Len(done[f]) = Cardinality(Complete(f)))

(***************************************************************************)
(* What is kept of a connection is the start of its next packet, and only  *)
(* of connections that are open.                                           *)
(***************************************************************************)
Unfinished ==
    run = "idle" =>
        \A f \in Fd : LET partial == pos[f] # -1 /\ pos[f] # End(f, Cardinality(Complete(f))) IN
            /\ Cardinality(Waiting(f)) = IF partial THEN 1 ELSE 0
            /\ partial => LET uc == Found(f) IN
                   pos[f] - End(f, Cardinality(Complete(f))) = IF uc.read < 0 THEN 1 ELSE 2 + Len(uc.data)

NetpackInv == Delivered /\ Unfinished
=============================================================================
