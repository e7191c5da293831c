-------------------------------- MODULE Harbor --------------------------------
(***************************************************************************)
(* The harbor service of a node (service_harbor.c): it carries messages to *)
(* services of other nodes, named by handle or by global name, over one    *)
(* socket per peer.  A message waits in the queue of a name until the name *)
(* is known, and in the queue of a peer until the peer is connected.       *)
(*                                                                         *)
(* Every action is one message of the harbor's mailbox: a remote message   *)
(* of a service, a command of the cslave service, or an event of a socket. *)
(* A queue that is NULL and an empty one behave alike and are both <<>>.   *)
(* What a peer sends in is the subject of module HarborStream.             *)
(***************************************************************************)
EXTENDS Naturals, Sequences, FiniteSets

CONSTANTS Self,         \* h->id
          Peer,         \* the ids of the other harbors
          Service,      \* the low 24 bits of handles, not 0
          Name,         \* global names
          MaxSent       \* bound: messages sent in a behaviour, numbered in order

ASSUME HarborAssumption == /\ Self \notin Peer /\ IsFiniteSet(Peer)
                           /\ Service \subseteq Nat \ {0}
                           /\ MaxSent \in Nat

VARIABLES
    fd,         \* the peers with a socket: s->fd is not 0
    status,     \* s->status; "HEADER" also stands for STATUS_CONTENT
    queue,      \* s->queue of each harbor
    value,      \* node->value of each name, or NoHandle
    nqueue,     \* node->queue of each name
    alive,      \* the peers whose socket still carries data
    shut,       \* the peers whose socket the harbor has closed
    wire,       \* what was written to the socket of each peer
    local,      \* what was sent to services of this node
    dropped,    \* the messages that were freed and went nowhere
    errors,     \* the messages whose source got a PTYPE_ERROR
    late,       \* history: the messages sent to a harbor that was down
    sent,       \* messages sent so far
    running     \* harbor_release was not called yet

peerVars == <<fd, status, alive, shut>>
fateVars == <<wire, local, dropped, errors>>
vars == <<peerVars, queue, value, nqueue, fateVars, late, sent, running>>

NoHandle == [harbor |-> 0, service |-> 0]
Handle == [harbor : Peer \cup {Self}, service : Service]

(* A name is a string of 16 bytes, and no handle. *)
ASSUME NameAssumption == Name \cap Handle = {}

(* What handshake() writes: the id of this harbor *)
Hello == [id |-> 0]

(* harbor_create, harbor_init *)
Init == /\ fd = {}
        /\ status = [p \in Peer \cup {Self} |-> "WAIT"]
        /\ queue = [p \in Peer \cup {Self} |-> <<>>]
        /\ value = [n \in Name |-> NoHandle]
        /\ nqueue = [n \in Name |-> <<>>]
        /\ alive = {} /\ shut = {}
        /\ wire = [p \in Peer |-> <<>>]
        /\ local = <<>> /\ dropped = {} /\ errors = {} /\ late = {}
        /\ sent = 0
        /\ running = TRUE

Ids(ms) == {ms[i].id : i \in DOMAIN ms}
IdsAt(f, S) == UNION {Ids(f[x]) : x \in S}

(* The header of a message: who it is meant for, and header.destination. *)
Message(to, dest) == [id |-> sent + 1, to |-> to, dest |-> dest]

-----------------------------------------------------------------------------
(* send_remote: a socket that is gone drops what is written to it. *)
SendRemote(p, ms) ==
    /\ wire' = IF p \in alive THEN [wire EXCEPT ![p] = @ \o ms] ELSE wire
    /\ dropped' = IF p \in alive THEN dropped ELSE dropped \cup Ids(ms)

(* Mutant: a message for a peer that shakes hands is sent at once. *)
RouteEarly(m, handle) ==
    IF handle.harbor = Self
    THEN local' = Append(local, m) /\ UNCHANGED <<queue, wire, dropped, errors>>
    ELSE IF handle.harbor \in fd
    THEN SendRemote(handle.harbor, <<m>>) /\ UNCHANGED <<queue, local, errors>>
    ELSE /\ queue' = [queue EXCEPT ![handle.harbor] = Append(@, m)]
         /\ UNCHANGED fateVars

(* remote_send_handle *)
Route(m, handle) ==
    LET p == handle.harbor
    IN  IF p = Self
        THEN local' = Append(local, m) /\ UNCHANGED <<queue, wire, dropped, errors>>
        ELSE IF p \in fd /\ status[p] # "HANDSHAKE"
        THEN SendRemote(p, <<m>>) /\ UNCHANGED <<queue, local, errors>>
        ELSE IF status[p] = "DOWN"
        THEN /\ errors' = errors \cup {m.id} /\ dropped' = dropped \cup {m.id}
             /\ UNCHANGED <<queue, wire, local>>
        ELSE queue' = [queue EXCEPT ![p] = Append(@, m)] /\ UNCHANGED fateVars

Late(id, handle) == late' = IF status[handle.harbor] = "DOWN" THEN late \cup {id} ELSE late

(* A service sends to a handle of another node (or of this one). *)
SendHandle(handle) ==
    /\ running /\ sent < MaxSent
    /\ Route(Message(handle, handle.service), handle)
    /\ Late(sent + 1, handle)
    /\ sent' = sent + 1
    /\ UNCHANGED <<peerVars, value, nqueue, running>>

(* remote_send_name: an unknown name is asked for, and the message waits. *)
SendName(n) ==
    /\ running /\ sent < MaxSent
    /\ IF value[n] = NoHandle
       THEN /\ nqueue' = [nqueue EXCEPT ![n] = Append(@, Message(n, 0))]
            /\ UNCHANGED <<queue, fateVars, late>>
       ELSE /\ Route(Message(n, value[n].service), value[n])
            /\ Late(sent + 1, value[n])
            /\ UNCHANGED nqueue
    /\ sent' = sent + 1
    /\ UNCHANGED <<peerVars, value, running>>

-----------------------------------------------------------------------------
(* m->header.destination |= handle *)
Addressed(ms, handle) == [i \in DOMAIN ms |-> [ms[i] EXCEPT !.dest = handle.service]]

(* Mutant: the queue of the peer is replaced, not extended. *)
DispatchNameQueueSteals(ms, handle) ==
    IF handle.harbor \in fd
    THEN SendRemote(handle.harbor, Addressed(ms, handle)) /\ UNCHANGED <<queue, local, errors>>
    ELSE queue' = [queue EXCEPT ![handle.harbor] = ms] /\ UNCHANGED fateVars

(* dispatch_name_queue: the messages ms of a name that turned out to be handle *)
DispatchNameQueue(ms, handle) ==
    LET p == handle.harbor
    IN  IF p \in fd
        THEN SendRemote(p, Addressed(ms, handle)) /\ UNCHANGED <<queue, local, errors>>
        ELSE IF status[p] = "DOWN"
        THEN dropped' = dropped \cup Ids(ms) /\ UNCHANGED <<queue, wire, local, errors>>
        ELSE IF p = Self
        THEN /\ local' = local \o Addressed(queue[p] \o ms, handle)
             /\ queue' = [queue EXCEPT ![p] = <<>>]
             /\ UNCHANGED <<wire, dropped, errors>>
        ELSE queue' = [queue EXCEPT ![p] = @ \o ms] /\ UNCHANGED fateVars

(* harbor_command 'N', update_name *)
UpdateName(n, handle) ==
    /\ running
    /\ value' = [value EXCEPT ![n] = handle]
    /\ nqueue' = [nqueue EXCEPT ![n] = <<>>]
    /\ IF nqueue[n] = <<>> THEN UNCHANGED <<queue, fateVars>>
                           ELSE DispatchNameQueue(nqueue[n], handle)
    /\ UNCHANGED <<peerVars, late, sent, running>>

-----------------------------------------------------------------------------
(* harbor_command 'S' and 'A' for a peer that has no socket yet: start the *)
(* socket and write the handshake.                                         *)
Started(p) == running /\ p \notin fd /\ fd' = fd \cup {p} /\ alive' = alive \cup {p}

(* 'S': this side connected, and waits for the id of the other. *)
Connect(p) ==
    /\ Started(p)
    /\ status' = [status EXCEPT ![p] = "HANDSHAKE"]
    /\ wire' = [wire EXCEPT ![p] = Append(@, Hello)]
    /\ UNCHANGED <<shut, queue, value, nqueue, local, dropped, errors, late, sent, running>>

(* 'A': the other side's id is known already, so dispatch_queue. *)
Accept(p) ==
    /\ Started(p)
    /\ status' = [status EXCEPT ![p] = "HEADER"]
    /\ wire' = [wire EXCEPT ![p] = Append(@, Hello) \o queue[p]]
    /\ queue' = [queue EXCEPT ![p] = <<>>]
    /\ UNCHANGED <<shut, value, nqueue, local, dropped, errors, late, sent, running>>

(* close_harbor: release_queue frees what waited; s->fd is not reset.      *)
(* With it go the messages that the caller frees.                          *)
CloseHarbor(ps, freed) ==
    /\ status' = [p \in DOMAIN status |-> IF p \in ps THEN "DOWN" ELSE status[p]]
    /\ alive' = alive \ ps
    /\ shut' = shut \cup ps
    /\ dropped' = dropped \cup freed \cup IdsAt(queue, ps)
    /\ queue' = [p \in DOMAIN queue |-> IF p \in ps THEN <<>> ELSE queue[p]]
    /\ UNCHANGED <<fd, wire, local, errors>>

(* push_socket_data: the id of the peer arrives and is the expected one. *)
Handshake(p) ==
    /\ running /\ p \in fd /\ status[p] = "HANDSHAKE"
    /\ status' = [status EXCEPT ![p] = "HEADER"]
    /\ SendRemote(p, queue[p])
    /\ queue' = [queue EXCEPT ![p] = <<>>]
    /\ UNCHANGED <<fd, alive, shut, value, nqueue, local, errors, late, sent, running>>

(* push_socket_data: a wrong id, or a message that is too long *)
BadData(p) ==
    /\ running /\ p \in fd /\ status[p] \in {"HANDSHAKE", "HEADER"}
    /\ CloseHarbor({p}, {})
    /\ UNCHANGED <<value, nqueue, late, sent, running>>

(* The connection breaks.  The mainloop only tells the cslave service about it. *)
SocketClosed(p) ==
    /\ running /\ p \in alive
    /\ alive' = alive \ {p}
    /\ UNCHANGED <<fd, status, shut, queue, value, nqueue, fateVars, late, sent, running>>

(* harbor_release: close what is not down, and free what waits for a name. *)
Release ==
    /\ running
    /\ running' = FALSE
    /\ CloseHarbor({p \in fd : status[p] # "DOWN"}, IdsAt(nqueue, Name))
    /\ nqueue' = [n \in Name |-> <<>>]
    /\ UNCHANGED <<value, late, sent>>

Next == \/ \E h \in Handle : SendHandle(h)
        \/ \E n \in Name : SendName(n) \/ \E h \in Handle : UpdateName(n, h)
        \/ \E p \in Peer : \/ Connect(p) \/ Accept(p) \/ Handshake(p) \/ BadData(p)
                           \/ SocketClosed(p)
        \/ Release

Spec == Init /\ [][Next]_vars

-----------------------------------------------------------------------------
Written == IdsAt(wire, Peer) \ {0}
Waiting == IdsAt(queue, DOMAIN queue) \cup IdsAt(nqueue, Name)

(* No sequence holds a message twice. *)
Once(ms) == \A i, j \in DOMAIN ms : ms[i].id = ms[j].id => i = j

(***************************************************************************)
(* Every message a service gave to the harbor is in exactly one place: it  *)
(* waits, was written to one socket, was sent locally, or was dropped.  No *)
(* move between the queues of names and peers loses or repeats one.        *)
(***************************************************************************)
OneFate ==
    /\ 1 .. sent = Written \cup Waiting \cup Ids(local) \cup dropped
    /\ \A p, q \in Peer : p # q => Ids(wire[p]) \cap Ids(wire[q]) \subseteq {0}
    /\ (Written \cap (Waiting \cup Ids(local) \cup dropped)) = {}
    /\ (Waiting \cap (Ids(local) \cup dropped)) = {}
    /\ Ids(local) \cap dropped = {}
    /\ Once(local) /\ \A p \in Peer : Once(wire[p]) /\ Once(queue[p])

(***************************************************************************)
(* Nothing waits without a reason: the queue of a name is empty once the   *)
(* name is known, and that of a peer once it is connected or down.         *)
(***************************************************************************)
NothingStuck ==
    /\ \A n \in Name : nqueue[n] # <<>> => value[n] = NoHandle
    /\ \A p \in Peer : queue[p] # <<>> => status[p] \in {"WAIT", "HANDSHAKE"}
    /\ queue[Self] = <<>>

(***************************************************************************)
(* No message is lost or sent twice on its way through the queues of names *)
(* and peers, and none stays in one that nobody will empty.                *)
(***************************************************************************)
MessagesKept == OneFate /\ NothingStuck

(***************************************************************************)
(* Messages for one service, or for one name, reach a socket in the order  *)
(* in which they were sent, however long some of them had to wait.         *)
(***************************************************************************)
InOrder ==
    \A p \in Peer : \A i, j \in DOMAIN wire[p] :
        (i < j /\ wire[p][i].id # 0 /\ wire[p][j].id # 0 /\ wire[p][i].to = wire[p][j].to)
            => wire[p][i].id < wire[p][j].id

(* The first thing on a socket is the handshake, and there is only one.    *)
HelloFirst ==
    \A p \in Peer : \A i \in DOMAIN wire[p] : (wire[p][i].id = 0) <=> (i = 1)

(* A socket carries the handshake and then the messages in their order.    *)
WireInv == HelloFirst /\ InOrder

(***************************************************************************)
(* "S fd id: connect to new harbor, we should send self_id to fd first,    *)
(* and then recv a id (check it), and at last send queue": until the id    *)
(* has come, nothing but the handshake is written.                         *)
(***************************************************************************)
CheckedFirst == \A p \in Peer : status[p] = "HANDSHAKE" => Len(wire[p]) <= 1

(***************************************************************************)
(* The destination of a remote message header is the handle, below the     *)
(* message type: what is written to a socket says for which service it is. *)
(***************************************************************************)
Destined ==
    \A p \in Peer : \A i \in DOMAIN wire[p] : wire[p][i].id # 0 => wire[p][i].dest # 0

(***************************************************************************)
(* "throw an error return to source, report the destination is dead": a    *)
(* message sent to a harbor that is down is answered with an error.        *)
(***************************************************************************)
DownReported == late \subseteq errors
=============================================================================
