---------------------------- MODULE SocketBuffer ----------------------------
(***************************************************************************)
(* One connection as a Lua service reads it: the buffer of lua-socket.c, a *)
(* list of the blocks that came, kept in nodes of a pool, and the socket   *)
(* object of socket.lua with a coroutine that reads and one that closes.   *)
(*                                                                         *)
(* A byte is its position in Stream, which the peer sends and the socket   *)
(* may cut anywhere.  A coroutine runs until it waits; run is what         *)
(* skynet.wakeup has made ready, and the next message is taken when it is  *)
(* empty.  Connecting and UDP are left out.                                *)
(***************************************************************************)
EXTENDS Integers, Sequences, FiniteSets, SequencesExt

CONSTANTS Stream, Sep,  \* what the peer sends, and the separator of readline
          Sizes,        \* the sizes that socket.read is called with
          Limit,        \* buffer_limit
          FirstChunk,   \* nodes of the first chunk of the pool, 16 in the code
          Windows       \* compiled with _WIN32

VARIABLES sent,         \* bytes of Stream that came
          sb,           \* the socket_buffer
          pool,         \* buffer_pool: its free list, its chunks, the nodes in them
          s,            \* the socket object
          sock,         \* the socket: "open", "closing" (by the service), "failed", "closed"
          run, pc,      \* coroutines that are ready, and what each is in
          last,         \* history: the reading that returned last
          gone          \* history: the bytes that left the buffer or were dropped

vars == <<sent, sb, pool, s, sock, run, pc, last, gone>>

(* What is read, and read_required: a size, 0 for any, or one of these *)
Line == -1
All == -2
None == -3
Foreign == 0            \* a node that is in no chunk
Typed == -1             \* a byte that was typed at the console

Init == /\ sent = 0 /\ sb = [nodes |-> <<>>, offset |-> 0, size |-> 0]
        /\ pool = [free |-> <<>>, chunks |-> 0, made |-> 0]
        /\ s = [here |-> TRUE, connected |-> TRUE, required |-> None, co |-> "", closing |-> ""]
        /\ sock = "open" /\ run = <<>> /\ pc = [reader |-> "idle", closer |-> "idle"]
        /\ last = [op |-> None, out |-> <<>>, taken |-> <<>>, ok |-> FALSE] /\ gone = <<>>

-----------------------------------------------------------------------------
(* lua-socket.c.  A node has the number of its place in the pool. *)

Bytes(b) == LET all == FlattenSeq([k \in DOMAIN b.nodes |-> b.nodes[k].msg])
            IN  SubSeq(all, b.offset + 1, Len(all))

Grown(p) == LET size == FirstChunk * 2 ^ p.chunks
            IN  [free |-> [i \in 1 .. size |-> p.made + i], chunks |-> p.chunks + 1, made |-> p.made + size]

Push(msg) ==
    LET p == IF pool.free = <<>> THEN Grown(pool) ELSE pool
    IN  /\ pool' = [p EXCEPT !.free = Tail(@)]
        /\ sb' = [sb EXCEPT !.nodes = Append(@, [node |-> Head(p.free), msg |-> msg]),
                            !.size = @ + Len(msg)]

(* A buffer with the pool and what was taken out of it: b, p, out *)
Have == [b |-> sb, p |-> pool, out |-> <<>>]
ReturnNode(h) == [h EXCEPT !.p.free = <<Head(h.b.nodes).node>> \o @,
                           !.b.nodes = Tail(@), !.b.offset = 0]

RECURSIVE PopString(_, _, _)
PopString(h, sz, skip) ==
    LET msg == Head(h.b.nodes).msg
        bytes == Len(msg) - h.b.offset
        n == IF sz - skip < bytes THEN sz - skip ELSE bytes
        got == [h EXCEPT !.out = @ \o SubSeq(msg, h.b.offset + 1, h.b.offset + n)]
    IN  IF bytes > sz THEN [got EXCEPT !.b.offset = @ + sz]
        ELSE IF bytes = sz THEN ReturnNode(got)
        ELSE PopString(ReturnNode(got), sz - bytes, skip)

RECURSIVE Clear(_)
Clear(h) == IF h.b.nodes = <<>> THEN [h EXCEPT !.b.size = 0] ELSE Clear(ReturnNode(h))

(* On Windows readline and readall begin with a line of the console. *)
Input(h) == IF Windows THEN [h EXCEPT !.b = [nodes |-> <<[node |-> Foreign, msg |-> <<Typed>>]>>,
                                              offset |-> 0, size |-> 1]]
            ELSE h

Chars(msg) == [i \in DOMAIN msg |-> IF msg[i] = Typed THEN "typed" ELSE Stream[msg[i]]]

RECURSIVE CheckSep(_, _, _, _)
CheckSep(b, k, from, sep) ==
    LET msg == b.nodes[k].msg
        sz == Len(msg) - from
    IN  IF sz >= Len(sep) THEN Chars(SubSeq(msg, from + 1, from + Len(sep))) = sep
        ELSE /\ Chars(SubSeq(msg, from + 1, Len(msg))) = SubSeq(sep, 1, sz)
             /\ CheckSep(b, k + 1, 0, SubSeq(sep, sz + 1, Len(sep)))

(* The places where lreadline finds the separator, i in the code *)
Before(b, k) == Len(FlattenSeq([j \in 1 .. k - 1 |-> b.nodes[j].msg]))
Lines(b) ==
    {i \in 0 .. b.size - Len(Sep) :
        \E k \in DOMAIN b.nodes :
            LET from == b.offset + i - Before(b, k)
            IN  from \in 0 .. Len(b.nodes[k].msg) - 1 /\ CheckSep(b, k, from, Sep)}

ReadLine(h) ==
    LET i == CHOOSE i \in Lines(h.b) : \A j \in Lines(h.b) : i <= j
    IN  [PopString(h, i + Len(Sep), Len(Sep)) EXCEPT !.b.size = @ - (i + Len(Sep))]

ReadAll(h) == [Clear(h) EXCEPT !.out = Bytes(h.b)]

-----------------------------------------------------------------------------
(* socket.lua *)

Quiet == run = <<>> /\ pc.reader # "active"
Alive == sock \in {"open", "closing"}
Use(h) == sb' = h.b /\ pool' = h.p
Taken(h) == SubSeq(Bytes(sb), 1, Len(Bytes(sb)) - Len(Bytes(h.b)))
Wake(t) == IF t.co = "" THEN run' = run ELSE run' = Append(run, t.co)

Returns(o, h, ok) ==
    /\ Use(h) /\ gone' = gone \o Taken(h)
    /\ last' = [op |-> o, out |-> h.out, taken |-> Taken(h), ok |-> ok]
    /\ pc' = [pc EXCEPT !.reader = "active"]

(* What the driver finds without waiting *)
Found(o) == CASE o > 0    -> sb.size >= o
              [] o = 0    -> Bytes(Input(Have).b) # <<>>
              [] o = Line -> Lines(Input(Have).b) # {}
              [] o = All  -> FALSE
Answer(o) == CASE o > 0    -> [PopString(Have, o, 0) EXCEPT !.b.size = @ - o]
               [] o = 0    -> ReadAll(Input(Have))
               [] o = Line -> ReadLine(Input(Have))

(* socket.read, readline and readall; an assertion is an error in the reader. *)
Read(o) ==
    /\ s.here /\ (pc.reader = "active" \/ (pc.reader = "idle" /\ Quiet))
    /\ IF Found(o) THEN Returns(o, Answer(o), TRUE) /\ UNCHANGED <<s, run>>
       ELSE IF ~s.connected THEN Returns(o, ReadAll(Input(Have)), FALSE) /\ UNCHANGED <<s, run>>
       ELSE /\ IF s.required # None
               THEN pc' = [pc EXCEPT !.reader = "active"] /\ UNCHANGED s
               ELSE IF s.co # "" THEN s' = [s EXCEPT !.required = o] /\ pc' = [pc EXCEPT !.reader = "active"]
               ELSE s' = [s EXCEPT !.required = o, !.co = "reader"] /\ pc' = [pc EXCEPT !.reader = "wait"]
            /\ last' = [last EXCEPT !.op = o, !.out = <<>>, !.taken = <<>>, !.ok = FALSE]
            /\ UNCHANGED <<sb, pool, run, gone>>
    /\ UNCHANGED <<sent, sock>>

(* suspend returns: a coroutine that closes the socket is woken first. *)
Resumed ==
    /\ run # <<>> /\ Head(run) = "reader" /\ pc.reader = "wait"
    /\ run' = IF s.closing = "" THEN Tail(run) ELSE Append(Tail(run), s.closing)
    /\ LET o == last.op IN
       IF Found(o) /\ (o = Line => s.connected) THEN Returns(o, Answer(o), TRUE)
       ELSE Returns(o, ReadAll(Input(Have)), o = All)
    /\ UNCHANGED <<sent, s, sock>>

(* The reader waits for something else, or does not read any more. *)
Pause == /\ pc.reader = "active" /\ pc' = [pc EXCEPT !.reader = "idle"]
         /\ UNCHANGED <<sent, sb, pool, s, sock, run, last, gone>>

ClearBuffer == Use(Clear(Have)) /\ gone' = gone \o Bytes(sb)

(* socket.close, by a coroutine of its own *)
Close ==
    /\ Quiet /\ s.here /\ pc.closer = "idle"
    /\ IF s.connected
       THEN /\ sock' = (IF sock = "open" THEN "closing" ELSE sock)
            /\ s' = IF s.co = "" THEN [s EXCEPT !.co = "closer"] ELSE [s EXCEPT !.closing = "closer"]
            /\ pc' = [pc EXCEPT !.closer = "close"] /\ UNCHANGED <<sb, pool, gone>>
       ELSE /\ ClearBuffer /\ s' = [s EXCEPT !.here = FALSE]
            /\ pc' = [pc EXCEPT !.closer = "done"] /\ UNCHANGED sock
    /\ UNCHANGED <<sent, run, last>>

CloseReturns ==
    /\ run # <<>> /\ Head(run) = "closer" /\ pc.reader # "active"
    /\ run' = Tail(run) /\ ClearBuffer
    /\ s' = [s EXCEPT !.connected = FALSE, !.here = FALSE] /\ pc' = [pc EXCEPT !.closer = "done"]
    /\ UNCHANGED <<sent, sock, last>>

Shutdown ==
    /\ Quiet /\ s.here /\ sock = "open" /\ ClearBuffer /\ sock' = "closing"
    /\ UNCHANGED <<sent, s, run, pc, last>>

Abandon ==
    /\ Quiet /\ s.here /\ pc.closer = "idle"
    /\ ClearBuffer /\ Wake(s) /\ s' = [s EXCEPT !.connected = FALSE, !.here = FALSE, !.co = ""]
    /\ UNCHANGED <<sent, sock, pc, last>>

(* socket_message[1]: the next n bytes; a block that nobody knows is dropped. *)
Block(n) == [i \in 1 .. n |-> sent + i]
Drop(n) ==
    /\ Quiet /\ ~s.here /\ Alive /\ sent + n <= Len(Stream)
    /\ sent' = sent + n /\ gone' = gone \o Block(n)
    /\ UNCHANGED <<sb, pool, s, sock, run, pc, last>>

DataComes(n) == Quiet /\ s.here /\ Alive /\ n > 0 /\ sent + n <= Len(Stream) /\ sent' = sent + n
Data(n) ==
    LET rr == s.required
        full == rr < 0 /\ sb.size + n > Limit
        enough == IF rr >= 0 THEN sb.size + n >= rr ELSE rr = Line /\ Lines(sb') # {}
    IN  /\ DataComes(n) /\ ~full /\ Push(Block(n))
        /\ IF enough THEN Wake(s) /\ s' = [s EXCEPT !.required = None, !.co = ""]
           ELSE UNCHANGED <<s, run>>
        /\ UNCHANGED <<sock, pc, last, gone>>

(* "socket buffer overflow" *)
Overflow(n) ==
    /\ DataComes(n) /\ s.required < 0 /\ sb.size + n > Limit
    /\ LET p == IF pool.free = <<>> THEN Grown(pool) ELSE pool
           pushed == [Have EXCEPT !.b.nodes = Append(@, [node |-> Head(p.free), msg |-> Block(n)]),
                                  !.p = [p EXCEPT !.free = Tail(@)]]
       IN  Use(Clear(pushed)) /\ gone' = gone \o Bytes(pushed.b)
    /\ sock' = "closing"
    /\ UNCHANGED <<s, run, pc, last>>

(* socket_message[3] and [5] *)
Closed ==
    /\ Quiet /\ sock # "closed" /\ sock' = "closed"
    /\ IF s.here THEN Wake(s) /\ s' = [s EXCEPT !.connected = FALSE, !.co = ""] ELSE UNCHANGED <<s, run>>
    /\ UNCHANGED <<sent, sb, pool, pc, last, gone>>
Error ==
    /\ Quiet /\ Alive /\ s.here /\ sock' = "failed"
    /\ Wake(s) /\ s' = [s EXCEPT !.connected = FALSE, !.co = ""]
    /\ UNCHANGED <<sent, sb, pool, pc, last, gone>>

Next == \/ \E o \in Sizes \cup {0, Line, All} : Read(o)
        \/ Resumed \/ Pause \/ Close \/ CloseReturns \/ Shutdown \/ Abandon
        \/ \E n \in 1 .. Len(Stream) : Data(n) \/ Drop(n) \/ Overflow(n)
        \/ Closed \/ Error

Spec == Init /\ [][Next]_vars

-----------------------------------------------------------------------------
(* The nodes of the pool: each is in the buffer or free, once ("The table  *)
(* pool record all the buffers chunk ... we never free them", line 97).    *)
NodesKept ==
    LET nodes == [k \in DOMAIN sb.nodes |-> sb.nodes[k].node] \o pool.free
    IN  IsInjective(nodes) /\ {nodes[k] : k \in DOMAIN nodes} = 1 .. pool.made

(* Bytes leave in order, none is lost or doubled, and the counts are right. *)
BytesKept ==
    /\ gone \o Bytes(sb) = [i \in 1 .. sent |-> i]
    /\ sb.size = Len(Bytes(sb))
    /\ sb.nodes # <<>> => sb.offset < Len(sb.nodes[1].msg)

(* Where the separator stands in some bytes, as one sees it *)
SepIn(msg) == {i \in 0 .. Len(msg) - Len(Sep) : Chars(SubSeq(msg, i + 1, i + Len(Sep))) = Sep}

(* A reading that succeeds gives what was asked for: that many bytes, or   *)
(* what stands before the first separator, which is taken with it.         *)
GivenAsAsked ==
    last.ok =>
        /\ last.op > 0 => last.out = last.taken /\ Len(last.out) = last.op
        /\ last.op \in {0, All} => last.out = last.taken
        /\ last.op = Line => Chars(last.taken) = Chars(last.out) \o Sep /\ SepIn(last.taken) = {Len(last.out)}

(***************************************************************************)
(* Who waits has a reason to: the reader for bytes that did not come, on a *)
(* socket that is still known; the closer for the end of the connection,   *)
(* or for the reader to leave.                                             *)
(***************************************************************************)
ReaderWaits ==
    pc.reader = "wait" /\ "reader" \notin ToSet(run) =>
        /\ s.co = "reader" /\ s.here /\ s.connected /\ Alive
        /\ last.op > 0 => sb.size < last.op
        /\ last.op = Line => SepIn(Bytes(sb)) = {}
CloserWaits ==
    pc.closer = "close" /\ "closer" \notin ToSet(run) =>
        IF s.closing = "closer" THEN pc.reader = "wait" ELSE s.co = "closer" /\ Alive

(***************************************************************************)
(* "socket.close() will wait last socket buffer operation before clear the *)
(* buffer" (socket.lua:35): refuted, the reader may begin another one      *)
(* before the closer runs, which then removes the socket under it.         *)
(***************************************************************************)
ReaderReturns == ReaderWaits

BufferInv == BytesKept /\ GivenAsAsked /\ NodesKept /\ CloserWaits /\ (s.closing # "" \/ ReaderWaits)
=============================================================================
