----------------------------- MODULE SocketServer -----------------------------
(***************************************************************************)
(* The socket server (skynet-src/socket_server.c), for TCP: worker threads *)
(* reserve slots, write to a socket directly when they can and put all     *)
(* else into the control pipe; the socket thread alone runs the commands,  *)
(* polls, and queues what a socket does not take.                          *)
(*                                                                         *)
(* A message is Size units long, and the network takes any part of it.     *)
(* UDP, the warning size, the statistics and the owner of a socket are     *)
(* left out; the pipe is taken to be reliable and in order.                *)
(***************************************************************************)
EXTENDS Integers, Sequences, FiniteSets, SequencesExt

CONSTANTS Worker,
          Slots,        \* MAX_SOCKET
          Size,         \* units of a message
          Kinds,        \* bound: which of "O" connect, "L" listen, "B" bind are used
          MaxId,        \* bound: ids that are reserved
          MaxMsg,       \* bound: messages that are sent
          MaxCtl,       \* bound: close, shutdown and start requests
          MaxSending,   \* bound: 0xffff, the largest count in s->sending
          Early         \* whether an id is used before SOCKET_OPEN is reported

ASSUME SocketAssumption ==
    /\ IsFiniteSet(Worker) /\ 0 \notin Worker
    /\ {Slots, Size, MaxSending} \subseteq Nat \ {0}
    /\ {MaxId, MaxMsg, MaxCtl} \subseteq Nat
    /\ Kinds \subseteq {"O", "L", "B"} /\ Early \in BOOLEAN

Id == 1 .. MaxId
Msg == 1 .. MaxMsg
Nobody == 0
Hash(id) == id % Slots

VARIABLES
    sock,       \* ss->slot
    alloc_id, pipe, ev,
    phase,      \* where the socket thread is: "ctrl", "events", "close", "free" or "clear"
    closing,    \* the request or the socket it is closing
    at, job,    \* where each worker is, and the request it builds
    nmsg, nctl,
    from,       \* history: who sent each message, how, and to which socket
    freed,      \* history: how often the buffer of each message was freed
    wire,       \* history: what was written to each socket
    issued, bound,      \* history: ids that services know, and those from socket_server_bind
    opened, reported,   \* history: ids with a SOCKET_OPEN, with a SOCKET_CLOSE or SOCKET_ERR
    cut,        \* history: sockets that force_close took a partly sent buffer from
    strayed,    \* history: a request reached a slot that another id is reserving
    failed      \* the assertions that have failed

workerVars == <<at, job>>
threadVars == <<phase, closing, ev>>
bounds == <<nmsg, nctl, from, alloc_id>>
ids == <<issued, bound>>
told == <<ids, opened, reported>>
marks == <<cut, strayed>>
vars == <<sock, pipe, threadVars, workerVars, bounds, told, freed, wire, marks, failed>>

Req(cmd, id, m) == [cmd |-> cmd, id |-> id, m |-> m]
NoReq == Req("", 0, 0)

Init ==
    /\ sock = [k \in 0 .. Slots - 1 |->
          [type |-> "INVALID", id |-> 0, protocol |-> "UNKNOWN", tag |-> 0, sending |-> 0,
           high |-> <<>>, low |-> <<>>, wb |-> 0, dw |-> <<>>, lock |-> Nobody,
           polled |-> FALSE, write |-> FALSE]]
    /\ alloc_id = 0 /\ pipe = <<>> /\ ev = {}
    /\ phase = "ctrl" /\ closing = NoReq
    /\ at = [w \in Worker |-> "idle"] /\ job = [w \in Worker |-> NoReq]
    /\ nmsg = 0 /\ nctl = 0
    /\ from = [m \in Msg |-> [who |-> Nobody, cmd |-> "", id |-> 0]]
    /\ freed = [m \in Msg |-> 0]
    /\ wire = [i \in Id |-> <<>>]
    /\ issued = {} /\ bound = {} /\ opened = {} /\ reported = {}
    /\ cut = {} /\ strayed = FALSE /\ failed = {}

Live(id) == sock[Hash(id)].id = id /\ sock[Hash(id)].type # "INVALID"
SendBufferEmpty(s) == s.high = <<>> /\ s.low = <<>>
NomoreSendingData(s) == SendBufferEmpty(s) /\ s.dw = <<>> /\ s.sending = 0

Msgs(bufs) == {bufs[i].m : i \in DOMAIN bufs}
FreeMsgs(ms) == freed' = [m \in Msg |-> IF m \in ms THEN freed[m] + 1 ELSE freed[m]]
Units(bufs) == FlattenSeq([i \in DOMAIN bufs |->
                   [u \in 1 .. Size - bufs[i].off |-> [m |-> bufs[i].m, u |-> bufs[i].off + u]]])
Left(bufs) == Len(Units(bufs))

-----------------------------------------------------------------------------
(* Worker threads *)

(* reserve_id up to its CAS: the next id whose slot is free *)
Reserve(w, cmd) ==
    \E id \in alloc_id + 1 .. alloc_id + Slots :
        /\ at[w] = "idle" /\ id <= MaxId
        /\ sock[Hash(id)].type = "INVALID"
        /\ \A i \in alloc_id + 1 .. id - 1 : sock[Hash(i)].type # "INVALID"
        /\ alloc_id' = id
        /\ sock' = [sock EXCEPT ![Hash(id)].type = "RESERVE"]
        /\ at' = [at EXCEPT ![w] = "reserve"]
        /\ job' = [job EXCEPT ![w] = Req(cmd, id, 0)]
        /\ UNCHANGED <<pipe, threadVars, nmsg, nctl, from, told, freed, wire, marks, failed>>

(* The rest of reserve_id *)
ReserveSet(w) ==
    /\ at[w] = "reserve"
    /\ at' = [at EXCEPT ![w] = "pipe"]
    /\ sock' = [sock EXCEPT ![Hash(job[w].id)].id = job[w].id,
                            ![Hash(job[w].id)].protocol = "UNKNOWN"]
    /\ UNCHANGED <<pipe, threadVars, job, bounds, told, freed, wire, marks, failed>>

(* send_request; connect, listen and bind return the id after it. *)
SendRequest(w) ==
    /\ at[w] = "pipe"
    /\ pipe' = Append(pipe, job[w])
    /\ at' = [at EXCEPT ![w] = "idle"]
    /\ job' = [job EXCEPT ![w] = NoReq]
    /\ issued' = IF job[w].m = 0 THEN issued \cup {job[w].id} ELSE issued
    /\ bound' = IF job[w].cmd = "B" THEN bound \cup {job[w].id} ELSE bound
    /\ UNCHANGED <<sock, threadVars, bounds, opened, reported, freed, wire, marks, failed>>

(* socket_server_close "K", socket_server_shutdown "Kill", socket_server_start "S" *)
Control(w, cmd, id) ==
    /\ at[w] = "idle" /\ nctl < MaxCtl /\ id \in issued
    /\ nctl' = nctl + 1
    /\ pipe' = Append(pipe, Req(cmd, id, 0))
    /\ UNCHANGED <<sock, threadVars, workerVars, nmsg, from, alloc_id, told, freed, wire, marks, failed>>

(* socket_server_send "D" and socket_server_send_lowpriority "P": the first check *)
Send(w, cmd, id) ==
    /\ at[w] = "idle" /\ nmsg < MaxMsg
    /\ id \in (IF Early THEN issued ELSE opened)
    /\ nmsg' = nmsg + 1
    /\ from' = [from EXCEPT ![nmsg'] = [who |-> w, cmd |-> cmd, id |-> id]]
    /\ IF Live(id)
       THEN /\ at' = [at EXCEPT ![w] = IF cmd = "D" THEN "try" ELSE "inc"]
            /\ job' = [job EXCEPT ![w] = Req(cmd, id, nmsg')]
            /\ UNCHANGED freed
       ELSE FreeMsgs({nmsg'}) /\ UNCHANGED workerVars
    /\ UNCHANGED <<sock, pipe, threadVars, nctl, alloc_id, told, wire, marks, failed>>

CanDirectWrite(s, id) == s.id = id /\ NomoreSendingData(s) /\ s.type = "CONNECTED"

TryDirectWrite(w) ==
    LET k == Hash(job[w].id)
        go == CanDirectWrite(sock[k], job[w].id) /\ sock[k].lock = Nobody
    IN  /\ at[w] = "try"
        /\ at' = [at EXCEPT ![w] = IF go THEN "locked" ELSE "inc"]
        /\ sock' = IF go THEN [sock EXCEPT ![k].lock = w] ELSE sock
        /\ UNCHANGED <<pipe, threadVars, job, bounds, told, freed, wire, marks, failed>>

(* Under the lock: double check, write, and leave the rest to the socket thread. *)
DirectWrite(w) ==
    LET id == job[w].id
        k == Hash(id)
        buf == <<[m |-> job[w].m, off |-> 0]>>
    IN  /\ at[w] = "locked"
        /\ IF ~CanDirectWrite(sock[k], id)
           THEN /\ sock' = [sock EXCEPT ![k].lock = Nobody]
                /\ at' = [at EXCEPT ![w] = "inc"]
                /\ UNCHANGED <<job, freed, wire>>
           ELSE \E n \in 0 .. Size :
                /\ wire' = [wire EXCEPT ![id] = @ \o SubSeq(Units(buf), 1, n)]
                /\ FreeMsgs(IF n = Size THEN {job[w].m} ELSE {})
                /\ sock' = IF n = Size THEN [sock EXCEPT ![k].lock = Nobody]
                           ELSE [sock EXCEPT ![k].lock = Nobody, ![k].write = TRUE,
                                             ![k].dw = <<[m |-> job[w].m, off |-> n]>>]
                /\ at' = [at EXCEPT ![w] = "idle"]
                /\ job' = [job EXCEPT ![w] = NoReq]
        /\ UNCHANGED <<pipe, threadVars, bounds, told, marks, failed>>

(* inc_sending_ref; the tag of s->sending stands for the id it is taken from. *)
IncSendingRef(w) ==
    LET id == job[w].id
        s == sock[Hash(id)]
        same == s.protocol = "TCP" /\ s.tag = id
    IN  /\ at[w] = "inc"
        /\ same => s.sending < MaxSending
        /\ sock' = IF same THEN [sock EXCEPT ![Hash(id)].sending = @ + 1] ELSE sock
        /\ at' = [at EXCEPT ![w] = "pipe"]
        /\ UNCHANGED <<pipe, threadVars, job, bounds, told, freed, wire, marks, failed>>

-----------------------------------------------------------------------------
(* The socket thread: closing and writing *)

Broken(name, holds) == IF holds THEN {} ELSE {name}
Closed(s) == [s EXCEPT !.type = "INVALID", !.high = <<>>, !.low = <<>>, !.dw = <<>>,
                       !.polled = FALSE, !.write = FALSE]

(* force_close, up to its lock: the lists are freed. *)
FreeLists(k, then) ==
    LET s == sock[k]
    IN  /\ failed' = failed \cup Broken("reserve", s.type # "RESERVE")
        /\ FreeMsgs(Msgs(s.high) \cup Msgs(s.low))
        /\ cut' = IF s.high # <<>> /\ Head(s.high).off > 0 THEN cut \cup {s.id} ELSE cut
        /\ UNCHANGED strayed
        /\ sock' = [sock EXCEPT ![k].high = <<>>, ![k].low = <<>>]
        /\ phase' = "free"
        /\ closing' = Req(then, s.id, 0)

(* Mutant: force_close keeps the buffer of an unfinished direct write. *)
ForceCloseLeaks ==
    LET k == Hash(closing.id)
    IN  /\ phase = "free"
        /\ sock[k].lock = Nobody
        /\ sock' = [sock EXCEPT ![k] = Closed(@)]
        /\ reported' = reported \cup {closing.id}
        /\ phase' = closing.cmd
        /\ UNCHANGED <<pipe, ev, closing, workerVars, bounds, ids, opened, freed, wire, marks, failed>>

(* The rest of force_close *)
ForceClose ==
    LET k == Hash(closing.id)
    IN  /\ phase = "free"
        /\ sock[k].lock = Nobody
        /\ FreeMsgs(Msgs(sock[k].dw))
        /\ sock' = [sock EXCEPT ![k] = Closed(@)]
        /\ reported' = reported \cup {closing.id}
        /\ phase' = closing.cmd
        /\ UNCHANGED <<pipe, ev, closing, workerVars, bounds, ids, opened, wire, marks, failed>>

ClearClosedEvent ==
    LET s == sock[Hash(closing.id)]
    IN  /\ phase = "clear"
        /\ ev' = IF s.type = "INVALID" /\ s.id = closing.id
                 THEN {e \in ev : e.slot # Hash(closing.id)} ELSE ev
        /\ phase' = "ctrl"
        /\ closing' = NoReq
        /\ UNCHANGED <<sock, pipe, workerVars, bounds, told, freed, wire, marks, failed>>

(* What is left of a list when n units of it are sent *)
Rest(bufs, n) ==
    LET k == Cardinality({i \in DOMAIN bufs : Left(SubSeq(bufs, 1, i)) <= n})
        rest == SubSeq(bufs, k + 1, Len(bufs))
    IN  IF rest = <<>> THEN rest ELSE [rest EXCEPT ![1].off = @ + n - Left(SubSeq(bufs, 1, k))]

(* Mutant: the rest of a direct write goes behind what was queued since. *)
WithDirectWriteLast(s) ==
    [s EXCEPT !.high = s.high \o s.dw, !.wb = @ + Left(s.dw), !.dw = <<>>]

(* send_buffer puts the rest of a direct write before everything else. *)
WithDirectWrite(s) ==
    [s EXCEPT !.high = s.dw \o s.high, !.wb = @ + Left(s.dw), !.dw = <<>>]

(* Mutant: the write event is turned off when the high list is empty. *)
SentDisarms(s, n) ==
    LET nhigh == IF n < Left(s.high) THEN n ELSE Left(s.high)
        low == Rest(s.low, n - nhigh)
        raise == low # <<>> /\ Head(low).off > 0
    IN  [s EXCEPT !.wb = @ - n,
                  !.high = IF raise THEN <<Head(low)>> ELSE Rest(s.high, nhigh),
                  !.low = IF raise THEN Tail(low) ELSE low,
                  !.write = s.write /\ Rest(s.high, nhigh) # <<>>]

(* send_buffer_, when the network takes n units: the high list first, then   *)
(* the low one, whose head is raised when a part of it was sent.             *)
Sent(s, n) ==
    LET nhigh == IF n < Left(s.high) THEN n ELSE Left(s.high)
        low == Rest(s.low, n - nhigh)
        raise == low # <<>> /\ Head(low).off > 0
        t == [s EXCEPT !.wb = @ - n,
                       !.high = IF raise THEN <<Head(low)>> ELSE Rest(s.high, nhigh),
                       !.low = IF raise THEN Tail(low) ELSE low]
    IN  [t EXCEPT !.write = s.write /\ ~SendBufferEmpty(t)]

(* send_buffer takes the lock, or leaves everything for later. *)
SendBuffer(k, n, err, ifClosed, ifNot) ==
    LET s == WithDirectWrite(sock[k])
        t == Sent(s, n)
        done == SendBufferEmpty(t)
        close == err \/ (done /\ s.type = "HALFCLOSE")
    IN  /\ sock[k].lock = Nobody
        /\ n <= Left(s.high) + Left(s.low)
        /\ err => ~done
        /\ wire' = [wire EXCEPT ![s.id] = @ \o SubSeq(Units(s.high \o s.low), 1, n)]
        /\ FreeMsgs(Msgs(s.high \o s.low) \ (IF close THEN {} ELSE Msgs(t.high \o t.low)))
        /\ sock' = [sock EXCEPT ![k] = IF close THEN Closed(t) ELSE t]
        /\ reported' = IF close THEN reported \cup {s.id} ELSE reported
        /\ failed' = failed \cup Broken("buffer", (s.low # <<>> => Head(s.low).off = 0) /\ (done => t.wb = 0))
        /\ phase' = IF close THEN ifClosed ELSE ifNot

-----------------------------------------------------------------------------
(* The socket thread: control commands *)

Cmd == Head(pipe)
Command(cmds) == phase = "ctrl" /\ pipe # <<>> /\ Cmd.cmd \in cmds /\ pipe' = Tail(pipe)

(* new_fd, and the type its callers set *)
NewFd(id, type, polled, write) ==
    /\ failed' = failed \cup Broken("reserve", sock[Hash(id)].type = "RESERVE")
                        \cup Broken("list", SendBufferEmpty(sock[Hash(id)]))
    /\ sock' = [sock EXCEPT ![Hash(id)] =
          [@ EXCEPT !.type = type, !.id = id, !.protocol = "TCP", !.tag = id, !.sending = 0, !.wb = 0,
                    !.dw = <<>>, !.polled = polled, !.write = write]]

(* open_socket, listen_socket and bind_socket; all but listen can fail. *)
OpenSocket ==
    /\ Command({"O", "L", "B"})
    /\ \/ /\ Cmd.cmd = "O"
          /\ \/ NewFd(Cmd.id, "CONNECTED", TRUE, FALSE) /\ opened' = opened \cup {Cmd.id}
             \/ NewFd(Cmd.id, "CONNECTING", TRUE, TRUE) /\ UNCHANGED opened
          /\ UNCHANGED <<phase, closing, reported>>
       \/ /\ Cmd.cmd = "L" /\ NewFd(Cmd.id, "PLISTEN", FALSE, FALSE)
          /\ UNCHANGED <<phase, closing, opened, reported>>
       \/ /\ Cmd.cmd = "B" /\ NewFd(Cmd.id, "BIND", TRUE, FALSE)
          /\ opened' = opened \cup {Cmd.id} /\ UNCHANGED <<phase, closing, reported>>
       \/ /\ Cmd.cmd # "L"
          /\ sock' = [sock EXCEPT ![Hash(Cmd.id)].type = "INVALID"]
          /\ reported' = reported \cup {Cmd.id}
          /\ phase' = "clear" /\ closing' = Cmd /\ UNCHANGED <<opened, failed>>
    /\ UNCHANGED <<ev, workerVars, bounds, ids, freed, wire, marks>>

StartSocket ==
    LET s == sock[Hash(Cmd.id)]
    IN  /\ Command({"S"})
        /\ \/ /\ ~Live(Cmd.id)
              /\ reported' = reported \cup {Cmd.id}
              /\ phase' = "clear" /\ closing' = Cmd /\ UNCHANGED <<sock, opened, freed, marks, failed>>
           \/ /\ Live(Cmd.id) /\ s.type \in {"PACCEPT", "PLISTEN"}
              /\ sock' = [sock EXCEPT ![Hash(Cmd.id)].polled = TRUE, ![Hash(Cmd.id)].type =
                             IF s.type = "PACCEPT" THEN "CONNECTED" ELSE "LISTEN"]
              /\ opened' = opened \cup {Cmd.id}
              /\ UNCHANGED <<phase, closing, reported, freed, marks, failed>>
           \/ /\ Live(Cmd.id) /\ s.type \in {"PACCEPT", "PLISTEN"}      \* sp_add fails
              /\ FreeLists(Hash(Cmd.id), "clear") /\ UNCHANGED <<opened, reported>>
           \/ /\ Live(Cmd.id) /\ s.type = "CONNECTED"                   \* transfer
              /\ opened' = opened \cup {Cmd.id}
              /\ UNCHANGED <<sock, phase, closing, reported, freed, marks, failed>>
           \/ /\ Live(Cmd.id) /\ s.type \notin {"PACCEPT", "PLISTEN", "CONNECTED"}
              /\ UNCHANGED <<sock, phase, closing, opened, reported, freed, marks, failed>>
        /\ UNCHANGED <<ev, workerVars, bounds, ids, wire>>

(* close_socket, up to its second look at what is left to send *)
CloseSocket ==
    LET k == Hash(Cmd.id)
    IN  /\ Command({"K", "Kill"})
        /\ closing' = Cmd
        /\ strayed' = (strayed \/ (Live(Cmd.id) /\ sock[k].type = "RESERVE"))
        /\ IF ~Live(Cmd.id)
           THEN /\ reported' = reported \cup {Cmd.id}
                /\ phase' = "clear" /\ UNCHANGED <<sock, freed, wire, failed>>
           ELSE \/ /\ NomoreSendingData(sock[k]) \/ sock[k].lock # Nobody
                   /\ phase' = "close" /\ UNCHANGED <<sock, reported, freed, wire, failed>>
                \/ /\ ~NomoreSendingData(sock[k])
                   /\ \E n \in 0 .. MaxMsg * Size, err \in BOOLEAN : SendBuffer(k, n, err, "clear", "close")
        /\ UNCHANGED <<ev, workerVars, bounds, ids, opened, cut>>

(* The rest of close_socket: close now, or when everything is sent *)
CloseOrHalf ==
    LET k == Hash(closing.id)
    IN  /\ phase = "close"
        /\ IF closing.cmd = "Kill" \/ NomoreSendingData(sock[k]) THEN FreeLists(k, "clear")
           ELSE /\ sock' = [sock EXCEPT ![k].type = "HALFCLOSE"]
                /\ phase' = "ctrl" /\ closing' = NoReq /\ UNCHANGED <<freed, marks, failed>>
        /\ UNCHANGED <<pipe, ev, workerVars, bounds, told, wire>>

(* Mutant: send_socket looks at the type of the slot only. *)
DropAnyId(s, id) ==
    s.type \in {"INVALID", "HALFCLOSE", "PACCEPT", "PLISTEN", "LISTEN"}

(* When send_socket frees the message and returns *)
Drop(s, id) ==
    s.id # id \/ s.type \in {"INVALID", "HALFCLOSE", "PACCEPT", "PLISTEN", "LISTEN"}

DecSendingRef(s, id) == IF s.id = id /\ s.protocol = "TCP" THEN [s EXCEPT !.sending = @ - 1] ELSE s

(* send_socket and dec_sending_ref.  A bound descriptor is not CONNECTED.    *)
SendSocket ==
    LET k == Hash(Cmd.id)
        s == sock[k]
        buf == [m |-> Cmd.m, off |-> 0]
        t == IF Drop(s, Cmd.id) THEN s
             ELSE IF SendBufferEmpty(s) /\ s.type = "CONNECTED"
             THEN [s EXCEPT !.high = <<buf>>, !.wb = @ + Size, !.write = TRUE]
             ELSE IF Cmd.cmd = "P" THEN [s EXCEPT !.low = Append(@, buf), !.wb = @ + Size]
             ELSE [s EXCEPT !.high = Append(@, buf), !.wb = @ + Size]
    IN  /\ Command({"D", "P"})
        /\ FreeMsgs(IF Drop(s, Cmd.id) THEN {Cmd.m} ELSE {})
        /\ sock' = [sock EXCEPT ![k] = DecSendingRef(t, Cmd.id)]
        /\ failed' = failed \cup Broken("sending", sock'[k].sending >= 0)
        /\ strayed' = (strayed \/ (~Drop(s, Cmd.id) /\ s.type = "RESERVE"))
        /\ UNCHANGED <<threadVars, workerVars, bounds, told, wire, cut>>

-----------------------------------------------------------------------------
(* The socket thread: events *)

(* There are no more commands (checkctrl). *)
CtrlDone ==
    /\ phase = "ctrl" /\ pipe = <<>>
    /\ phase' = "events"
    /\ UNCHANGED <<sock, pipe, ev, closing, workerVars, bounds, told, freed, wire, marks, failed>>

(* sp_wait; commands come before the events it returns. *)
Wait ==
    LET Polled == {k \in DOMAIN sock : sock[k].polled}
        Kind(k) == IF sock[k].write THEN {"none", "read", "write", "both", "error"}
                   ELSE {"none", "read", "error"}
    IN  /\ phase = "events" /\ ev = {}
        /\ \E kind \in [Polled -> {"none", "read", "write", "both", "error"}] :
              /\ \A k \in Polled : kind[k] \in Kind(k)
              /\ ev' = {[slot |-> k, kind |-> kind[k]] : k \in {x \in Polled : kind[x] # "none"}}
        /\ ev' # {} \/ pipe # <<>>
        /\ phase' = "ctrl"
        /\ UNCHANGED <<sock, pipe, closing, workerVars, bounds, told, freed, wire, marks, failed>>

Event(e, types) == phase = "events" /\ e \in ev /\ sock[e.slot].type \in types

ReportConnect(e) ==
    /\ Event(e, {"CONNECTING"})
    /\ ev' = ev \ {e}
    /\ \/ /\ sock' = [sock EXCEPT ![e.slot].type = "CONNECTED",
                                  ![e.slot].write = ~NomoreSendingData(sock[e.slot])]
          /\ opened' = opened \cup {sock[e.slot].id}
          /\ UNCHANGED <<phase, closing, freed, marks, failed>>
       \/ FreeLists(e.slot, "events") /\ UNCHANGED opened
    /\ UNCHANGED <<pipe, workerVars, bounds, ids, reported, wire>>

(* report_accept, with its reserve_id; without a slot the client is dropped. *)
ReportAccept(e) ==
    /\ Event(e, {"LISTEN"})
    /\ ev' = ev \ {e}
    /\ \/ UNCHANGED <<sock, alloc_id, issued>>
       \/ \E id \in alloc_id + 1 .. alloc_id + Slots :
            /\ id <= MaxId /\ sock[Hash(id)].type = "INVALID"
            /\ \A i \in alloc_id + 1 .. id - 1 : sock[Hash(i)].type # "INVALID"
            /\ alloc_id' = id
            /\ issued' = issued \cup {id}
            /\ sock' = [sock EXCEPT ![Hash(id)] =
                  [@ EXCEPT !.type = "PACCEPT", !.id = id, !.protocol = "TCP", !.tag = id,
                            !.sending = 0, !.wb = 0]]
    /\ UNCHANGED <<phase, closing, pipe, workerVars, nmsg, nctl, from, bound, opened, reported, freed,
                   wire, marks, failed>>

(* forward_message_tcp, or an error event *)
ReadEvent(e) ==
    /\ Event(e, {"CONNECTED", "HALFCLOSE", "BIND", "RESERVE"})
    /\ e.kind \in {"read", "both", "error"}
    /\ \/ /\ e.kind # "error"           \* data, or nothing to read
          /\ sock[e.slot].type # "RESERVE"
          /\ ev' = (ev \ {e}) \cup (IF e.kind = "both" THEN {[e EXCEPT !.kind = "write"]} ELSE {})
          /\ UNCHANGED <<sock, phase, closing, freed, marks, failed>>
       \/ ev' = ev \ {e} /\ FreeLists(e.slot, "events")
    /\ UNCHANGED <<pipe, workerVars, bounds, told, wire>>

(* A stale event may find a reserved slot: it has nothing to write to yet. *)
WriteEvent(e, n, err) ==
    /\ Event(e, {"CONNECTED", "HALFCLOSE", "BIND", "RESERVE"})
    /\ e.kind = "write"
    /\ ev' = ev \ {e}
    /\ \/ sock[e.slot].type # "RESERVE" /\ SendBuffer(e.slot, n, err, "events", "events")
       \/ /\ sock[e.slot].lock # Nobody \/ sock[e.slot].type = "RESERVE"
          /\ UNCHANGED <<sock, phase, reported, freed, wire, failed>>
    /\ UNCHANGED <<pipe, closing, workerVars, bounds, ids, opened, marks>>

SkipEvent(e) ==
    /\ Event(e, {"INVALID"})
    /\ ev' = ev \ {e}
    /\ UNCHANGED <<sock, phase, closing, pipe, workerVars, bounds, told, freed, wire, marks, failed>>

-----------------------------------------------------------------------------
WorkerStep(w) ==
    ReserveSet(w) \/ SendRequest(w) \/ TryDirectWrite(w) \/ DirectWrite(w) \/ IncSendingRef(w)
Request(w) ==
    \/ \E cmd \in Kinds : Reserve(w, cmd)
    \/ \E id \in Id : \/ \E cmd \in {"K", "Kill", "S"} : Control(w, cmd, id)
                      \/ \E cmd \in {"D", "P"} : Send(w, cmd, id)
SocketThread ==
    \/ ForceClose \/ ClearClosedEvent \/ CloseOrHalf
    \/ OpenSocket \/ StartSocket \/ CloseSocket \/ SendSocket
    \/ CtrlDone \/ Wait
    \/ \E e \in ev : \/ ReportConnect(e) \/ ReportAccept(e) \/ ReadEvent(e) \/ SkipEvent(e)
                     \/ \E n \in 0 .. MaxMsg * Size, err \in BOOLEAN : WriteEvent(e, n, err)

(* A failed assertion ends the process. *)
Next == /\ failed = {}
        /\ (\E w \in Worker : Request(w) \/ WorkerStep(w)) \/ SocketThread

(***************************************************************************)
(* Both kinds of thread keep running, and a socket that stays open takes   *)
(* everything in the end: sp_wait reports it and the write gets through.   *)
(***************************************************************************)
Ready(k) == Wait /\ [slot |-> k, kind |-> "write"] \in ev'
Drained(e) == \E n \in 1 .. MaxMsg * Size : WriteEvent(e, n, FALSE) /\ SendBufferEmpty(sock'[e.slot])
Fairness == /\ WF_vars(failed = {} /\ SocketThread)
            /\ \A w \in Worker : WF_vars(failed = {} /\ WorkerStep(w))
            /\ \A k \in 0 .. Slots - 1 : /\ SF_vars(failed = {} /\ Ready(k))
                                         /\ SF_vars(failed = {} /\ \E e \in ev : e.slot = k /\ Drained(e))

Spec == Init /\ [][Next]_vars
FairSpec == Spec /\ Fairness

-----------------------------------------------------------------------------
Whole(q) ==
    \A i \in DOMAIN q : IF i = 1 \/ q[i - 1].u = Size THEN q[i].u = 1
                        ELSE q[i] = [m |-> q[i - 1].m, u |-> q[i - 1].u + 1]

(***************************************************************************)
(* What the properties of the stream take for granted: no assertion has    *)
(* failed, and no request for the last id of a slot was let through while  *)
(* reserve_id was giving it to the next one (see ReserveAssert, ListAssert *)
(* for what can come of that).                                             *)
(***************************************************************************)
Sound == failed = {} /\ ~strayed

(***************************************************************************)
(* What a peer receives is a sequence of whole messages, in spite of       *)
(* partial writes by two kinds of thread and of two priorities (up to      *)
(* where force_close cuts one off).                                        *)
(***************************************************************************)
StreamWhole == Sound => \A id \in Id \ cut : Whole(wire[id])

(* The same for every socket: a message is followed by nothing but its rest. *)
StreamAlwaysWhole == Sound => \A id \in Id : Whole(wire[id])

(***************************************************************************)
(* Messages that one worker sends to a socket with one priority are        *)
(* written in the order it sent them, whichever of them go directly.       *)
(***************************************************************************)
InOrder ==
    Sound => \A id \in Id : \A i, j \in DOMAIN wire[id] :
        i < j /\ from[wire[id][i].m] = from[wire[id][j].m] => wire[id][i].m <= wire[id][j].m

(***************************************************************************)
(* A message is written to the socket it was sent to, never to a later one *)
(* that has its slot.                                                      *)
(***************************************************************************)
OwnMessages == Sound => \A id \in Id : \A i \in DOMAIN wire[id] : from[wire[id][i].m].id = id

(***************************************************************************)
(* A peer receives whole messages, in the order in which each worker sent  *)
(* them, whichever thread writes them, and only those that were sent to    *)
(* its socket.                                                             *)
(***************************************************************************)
StreamKept == StreamWhole /\ InOrder /\ OwnMessages

(***************************************************************************)
(* Every buffer is in one place until it is freed, and it is freed once:   *)
(* by a worker, after the last write, when it is dropped or on closing.    *)
(***************************************************************************)
Queued(s) == s.dw \o s.high \o s.low
Places(m) == freed[m] + Cardinality({w \in Worker : job[w].m = m})
             + Cardinality({i \in DOMAIN pipe : pipe[i].m = m})
             + Cardinality(UNION {{<<k, i>> : i \in {j \in DOMAIN Queued(sock[k]) : Queued(sock[k])[j].m = m}}
                                     : k \in DOMAIN sock})
FreedOnce == Sound => \A m \in Msg : Places(m) = IF m <= nmsg THEN 1 ELSE 0

(***************************************************************************)
(* s->sending is the number of messages for this socket that are counted   *)
(* and not yet queued: none is lost, and none of an earlier socket in the  *)
(* same slot is counted.                                                   *)
(***************************************************************************)
Sends(r, id) == r.id = id /\ r.cmd \in {"D", "P"}
InFlight(id) == Cardinality({i \in DOMAIN pipe : Sends(pipe[i], id)})
                + Cardinality({w \in Worker : at[w] = "pipe" /\ Sends(job[w], id)})
SendingExact == Sound => \A k \in DOMAIN sock :
    sock[k].type \notin {"INVALID", "RESERVE"} => sock[k].sending = InFlight(sock[k].id)

(***************************************************************************)
(* No buffer of a message is lost or freed twice, and the count that holds *)
(* a slot back is exact, also through PLISTEN, LISTEN and PACCEPT.         *)
(***************************************************************************)
BuffersCounted == FreedOnce /\ SendingExact

(***************************************************************************)
(* While something is left to write, the poll waits for the socket to      *)
(* become writable: the two threads never disarm each other's event.  The  *)
(* exception is a bound descriptor (see Released).                         *)
(***************************************************************************)
ToWrite(s) == /\ s.type \in {"CONNECTING", "CONNECTED", "HALFCLOSE"} /\ s.id \notin bound
              /\ Queued(s) # <<>>
WriteEventArmed ==
    Sound => \A k \in DOMAIN sock : ToWrite(sock[k]) => sock[k].polled /\ sock[k].write

(* assert((s->sending & 0xffff) != 0) in dec_sending_ref                   *)
SendingAssert == "sending" \notin failed

(* assert(s->type != SOCKET_TYPE_RESERVE) in force_close, and its converse *)
(* in new_fd                                                               *)
ReserveAssert == "reserve" \notin failed

(* check_wb_list in new_fd: assert(s->head == NULL)                        *)
ListAssert == "list" \notin failed

(* Every message is written or dropped in the end, and its buffer freed.   *)
Released == \A m \in Msg : m <= nmsg ~> freed[m] = 1

(* Every close request is answered by SOCKET_CLOSE or SOCKET_ERR.          *)
CloseAnswered ==
    \A id \in Id : (\E i \in DOMAIN pipe : pipe[i].cmd \in {"K", "Kill"} /\ pipe[i].id = id)
                       ~> id \in reported
=============================================================================
