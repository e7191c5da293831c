-------------------------------- MODULE Channel --------------------------------
(***************************************************************************)
(* A socket channel (socketchannel.lua): coroutines of one service send    *)
(* requests over one connection that is opened when it is needed, and one  *)
(* dispatch thread reads the answers, in the order of the requests or by   *)
(* their sessions.  The socket library (socket.lua) is modelled with it as *)
(* far as the channel uses it: open, read, close.                          *)
(*                                                                         *)
(* A coroutine runs until it waits.  run is what skynet.wakeup and         *)
(* skynet.fork have made ready, in order; the next message of the service  *)
(* is taken when it is empty.  Each request is named by its coroutine.     *)
(* Authentication, backup addresses and messages in parts are left out.    *)
(***************************************************************************)
EXTENDS Naturals, Sequences, FiniteSets, SequencesExt

CONSTANTS Req,          \* the coroutines that send one request each
          NoReq,        \* nobody
          User,         \* the coroutine that calls close and changehost
          MaxFd,        \* bound: connections opened
          MaxFaults,    \* bound: connections lost, answers that are no answer
          MaxUser       \* bound: calls of close and changehost

(***************************************************************************)
(* ch is the channel: sock is 0 for false, queue the pairs of __request    *)
(* and __thread ("stop" is the close signal), session the coroutines of    *)
(* __thread by their sessions, disp the dispatch thread and cur whom it    *)
(* reads for.  pc and got are the coroutines and what they were told.  fd  *)
(* is socket_pool, and what the socket server has of each connection       *)
(* (live, wire).                                                           *)
(***************************************************************************)
VARIABLES mode,         \* "order", or "session" when there is a __response
          ch, run, pc, got, fd,
          cmds,         \* commands for the socket thread
          inbox,        \* socket messages for the service
          left,         \* history: a dispatch thread has left requests behind
          faults, calls

vars == <<mode, ch, run, pc, got, fd, cmds, inbox, left, faults, calls>>
outside == <<mode, faults, calls>>

NoFd == [pool |-> FALSE, connected |-> FALSE, co |-> NoReq, closing |-> NoReq, closer |-> NoReq,
         buf |-> <<>>, live |-> FALSE, wire |-> <<>>]

Init == /\ mode \in {"order", "session"}
        /\ ch = [sock |-> 0, closed |-> FALSE, queue |-> <<>>, session |-> {}, disp |-> "none",
                 cur |-> NoReq, dfd |-> 0, busy |-> FALSE, waiting |-> <<>>, fds |-> 0]
        /\ run = <<>> /\ pc = [c \in Req \cup {User} |-> "idle"] /\ got = [c \in Req |-> "nothing"]
        /\ fd = [f \in 1 .. MaxFd |-> NoFd]
        /\ cmds = <<>> /\ inbox = <<>> /\ left = FALSE /\ faults = 0 /\ calls = 0

(***************************************************************************)
(* The operators below change the state of the service, which they take    *)
(* and return as one record, as a coroutine does between two waits.        *)
(***************************************************************************)
State == [ch |-> ch, run |-> run, pc |-> pc, got |-> got, fd |-> fd, cmds |-> cmds, left |-> left]
Becomes(s) == /\ ch' = s.ch /\ run' = s.run /\ pc' = s.pc /\ got' = s.got
              /\ fd' = s.fd /\ cmds' = s.cmds /\ left' = s.left

Wake(s, cs) == [s EXCEPT !.run = @ \o cs]
Told(s, c, answer) == Wake([s EXCEPT !.got[c] = answer], <<c>>)
Fail(s, c) == [s EXCEPT !.pc[c] = "failed"]

-----------------------------------------------------------------------------
(* socket.lua *)

(* wakeup(s) *)
WakeFd(s, f) == IF s.fd[f].co = NoReq THEN s
                ELSE Wake([s EXCEPT !.fd[f].co = NoReq], <<s.fd[f].co>>)

(* The end of suspend(s): who waits in close goes on. *)
Suspended(s, f) == IF s.fd[f].closing = NoReq THEN s ELSE Wake(s, <<s.fd[f].closing>>)

(* The end of socket.close *)
Closed(s, f) == [s EXCEPT !.fd[f].connected = FALSE, !.fd[f].buf = <<>>, !.fd[f].pool = FALSE]

(* socket.close by c of a connection that is there: does it wait? *)
CloseWaits(s, f) == s.fd[f].pool /\ s.fd[f].connected
Close(s, f, c) ==
    LET t == [s EXCEPT !.cmds = Append(@, [t |-> "close", fd |-> f]), !.fd[f].closer = c]
    IN  IF s.fd[f].co # NoReq THEN [t EXCEPT !.fd[f].closing = c]
        ELSE [t EXCEPT !.fd[f].co = c]
CloseReturns(s, c) ==
    LET f == CHOOSE g \in 1 .. MaxFd : s.fd[g].closer = c /\ s.fd[g].pool
    IN  Closed(IF s.fd[f].closing = c THEN s ELSE Suspended(s, f), f)

-----------------------------------------------------------------------------
(* socketchannel.lua: the dispatch thread *)

(* wakeup_all *)
WakeupAll(s) ==
    LET cs == IF mode = "session" THEN SetToSeq(s.ch.session)
              ELSE SelectSeq(s.ch.queue, LAMBDA c : c # "stop")
    IN  Wake([s EXCEPT !.ch.queue = <<>>, !.ch.session = {},
                       !.got = [c \in Req |-> IF c \in Range(cs) THEN "error" ELSE @[c]]], cs)

(* The thread ends. *)
Leave(s) == [s EXCEPT !.ch.disp = "none", !.ch.cur = NoReq]

(* Mutant: only the request that is read for hears of the failure. *)
ReadFailedAlone(s) == Leave(IF s.ch.cur = NoReq THEN s ELSE Told(s, s.ch.cur, "error"))

(* What follows the failure of a read, after close_channel_socket. *)
ReadFailed(s) == Leave(WakeupAll(IF s.ch.cur = NoReq THEN s ELSE Told(s, s.ch.cur, "error")))

(* close_channel_socket by the thread, then the rest *)
CloseAndFail(s) ==
    LET f == s.ch.sock
        t == [s EXCEPT !.ch.sock = 0]
    IN  IF f = 0 THEN ReadFailed(s)
        ELSE IF CloseWaits(s, f) THEN Close([t EXCEPT !.ch.disp = "close", !.ch.dfd = f], f, "D")
        ELSE ReadFailed(Closed(t, f))

(* An answer was read; the thread goes on before anybody else. *)
Answered(s, a) ==
    LET t == [s EXCEPT !.run = <<"D">> \o @, !.ch.disp = "loop"]
    IN  IF a = NoReq THEN CloseAndFail(s)
        ELSE IF mode = "order" THEN [Told(t, s.ch.cur, a) EXCEPT !.ch.cur = NoReq]
        ELSE IF a \in s.ch.session THEN [Told(t, a, a) EXCEPT !.ch.session = @ \ {a}]
        ELSE t

(* The response function: one read on the channel's socket *)
Read(s, f) ==
    IF f = 0 THEN CloseAndFail(s)
    ELSE IF s.fd[f].buf # <<>>
         THEN Answered([s EXCEPT !.fd[f].buf = Tail(@)], Head(s.fd[f].buf))
    ELSE IF ~s.fd[f].connected THEN CloseAndFail(s)
    ELSE [s EXCEPT !.fd[f].co = "D", !.ch.disp = "read", !.ch.dfd = f]

(* pop_response, and what is done with it *)
PopResponse(s) ==
    IF s.ch.queue = <<>> THEN [s EXCEPT !.ch.disp = "pop"]
    ELSE LET t == [s EXCEPT !.ch.queue = Tail(@)]
         IN  IF Head(s.ch.queue) = "stop" THEN Leave(WakeupAll(t))
             ELSE Read([t EXCEPT !.ch.cur = Head(s.ch.queue)], s.ch.sock)

(* dispatch_by_session, dispatch_by_order: while self.__sock do *)
Loop(s) == IF s.ch.sock = 0
           THEN Leave([s EXCEPT !.left = @ \/ s.ch.session # {} \/ Range(s.ch.queue) \cap Req # {}])
           ELSE IF mode = "session" THEN Read(s, s.ch.sock) ELSE PopResponse(s)

RunDispatch(s) ==
    CASE s.ch.disp = "loop"   -> Loop(s)
      [] s.ch.disp = "popped" -> PopResponse(s)
      [] s.ch.disp = "close" -> ReadFailed(CloseReturns(s, "D"))
      [] s.ch.disp = "read"   ->
            LET t == Suspended(s, s.ch.dfd)
                b == t.fd[s.ch.dfd].buf
            IN  IF b = <<>> THEN CloseAndFail(t)
                ELSE Answered([t EXCEPT !.fd[s.ch.dfd].buf = Tail(@)], Head(b))

-----------------------------------------------------------------------------
(* socketchannel.lua: a request *)

(* term_dispatch_thread: the close signal, in order mode only *)
Term(s) == IF mode = "session" \/ s.ch.disp = "none" THEN s
           ELSE LET t == [s EXCEPT !.ch.queue = Append(@, "stop")]
                IN  IF s.ch.disp = "pop" THEN Wake([t EXCEPT !.ch.disp = "popped"], <<"D">>) ELSE t

(* wait_for_response: push_response, and wait *)
Wait(s, c) ==
    LET t == [s EXCEPT !.pc[c] = "wait"]
    IN  IF mode = "session" THEN [t EXCEPT !.ch.session = @ \cup {c}]
        ELSE LET u == [t EXCEPT !.ch.queue = Append(@, c)]
             IN  IF s.ch.disp = "pop" THEN Wake([u EXCEPT !.ch.disp = "popped"], <<"D">>) ELSE u

(* channel:request from the write on; sock_err when the socket is gone *)
Send(s, c) ==
    LET f == s.ch.sock
        t == [s EXCEPT !.ch.sock = 0]
    IN  IF s.fd[f].live THEN Wait([s EXCEPT !.fd[f].wire = Append(@, c)], c)
        ELSE IF CloseWaits(s, f) THEN Close([t EXCEPT !.pc[c] = "senderr"], f, c)
        ELSE Fail(WakeupAll(Closed(t, f)), c)

(* check_connection, which forgets a connection that the peer has closed *)
Disconnected(s) == s.ch.sock # 0 /\ ~s.fd[s.ch.sock].connected
Forget(s) == IF Disconnected(s) THEN Closed([s EXCEPT !.ch.sock = 0], s.ch.sock) ELSE s

(* block_connect after the attempt to connect, one's own or another's *)
Checked(s, c) == IF s.ch.sock # 0 /\ ~Disconnected(s) THEN Send(s, c) ELSE Fail(Forget(s), c)

(* The end of try_connect: those who waited for it go on. *)
ConnectEnds(s, c) ==
    Checked(Wake([s EXCEPT !.ch.busy = FALSE, !.ch.waiting = <<>>], s.ch.waiting), c)

(* connect_once from "wait dispatch thread exit" on *)
NewSocket(s, c) ==
    IF s.ch.disp # "none" THEN [s EXCEPT !.pc[c] = "drain"]
    ELSE ConnectEnds(Wake([s EXCEPT !.ch.sock = s.ch.fds, !.ch.disp = "loop"], <<"D">>), c)

(* connect_once after socket.open *)
Opened(s, c) ==
    LET t == Suspended(s, s.ch.fds)
    IN  IF t.fd[s.ch.fds].connected THEN NewSocket(Term(t), c)
        ELSE ConnectEnds([t EXCEPT !.fd[s.ch.fds].pool = FALSE], c)

(* channel:request up to the first wait *)
Request(s, c) ==
    IF s.ch.sock # 0 /\ ~Disconnected(s) THEN Send(s, c)
    ELSE LET t == Forget(s) IN
         IF ~Disconnected(s) /\ t.ch.closed THEN Fail(t, c)
         ELSE IF t.ch.busy THEN [t EXCEPT !.pc[c] = "queued", !.ch.waiting = Append(@, c)]
         ELSE IF t.ch.closed THEN Fail(t, c)
         ELSE LET f == t.ch.fds + 1
              IN  [t EXCEPT !.ch.busy = TRUE, !.ch.fds = f, !.pc[c] = "open",
                            !.fd[f] = [NoFd EXCEPT !.pool = TRUE, !.co = c],
                            !.cmds = Append(@, [t |-> "connect", fd |-> f])]

RunRequest(s, c) ==
    CASE s.pc[c] = "open"    -> Opened(s, c)
      [] s.pc[c] = "queued"  -> Checked(s, c)
      [] s.pc[c] = "senderr" -> Fail(WakeupAll(CloseReturns(s, c)), c)
      [] s.pc[c] = "wait"    ->
            [s EXCEPT !.pc[c] = IF s.got[c] = "error" THEN "failed" ELSE "answered"]

-----------------------------------------------------------------------------
(* A coroutine that is ready goes on. *)
Resume ==
    /\ run # <<>>
    /\ LET c == Head(run)
           s == [State EXCEPT !.run = Tail(@)]
       IN  Becomes(IF c = "D" THEN RunDispatch(s)
                   ELSE IF c = User THEN [CloseReturns(s, User) EXCEPT !.pc[User] = "idle"]
                   ELSE RunRequest(s, c))
    /\ UNCHANGED <<inbox, outside>>

(* A message of another service makes a coroutine send its request. *)
StartRequest(c) ==
    /\ run = <<>> /\ pc[c] = "idle" /\ ch.fds < MaxFd
    /\ Becomes(Request(State, c))
    /\ UNCHANGED <<inbox, outside>>

(* skynet.yield returns in the loop that waits for the dispatch thread. *)
Yielded(c) ==
    /\ run = <<>> /\ pc[c] = "drain"
    /\ Becomes(NewSocket(State, c))
    /\ UNCHANGED <<inbox, outside>>

(* channel:changehost *)
CloseByUser(s) == IF s.ch.sock = 0 THEN s
                  ELSE LET t == [s EXCEPT !.ch.sock = 0]
                       IN  IF CloseWaits(s, s.ch.sock)
                           THEN Close([t EXCEPT !.pc[User] = "close"], s.ch.sock, User)
                           ELSE Closed(t, s.ch.sock)
UserCall == run = <<>> /\ pc[User] = "idle" /\ ~ch.closed /\ calls < MaxUser /\ calls' = calls + 1

ChangeHost == /\ UserCall
              /\ Becomes(CloseByUser(State))
              /\ UNCHANGED <<inbox, mode, faults>>

(* channel:close *)
ChannelClose == /\ UserCall
                /\ Becomes(CloseByUser([Term(State) EXCEPT !.ch.closed = TRUE]))
                /\ UNCHANGED <<inbox, mode, faults>>

-----------------------------------------------------------------------------
(* socket.lua: the socket messages *)

Deliver ==
    /\ run = <<>> /\ inbox # <<>>
    /\ inbox' = Tail(inbox)
    /\ LET m == Head(inbox)
           s == State
       IN  Becomes(IF ~fd[m.fd].pool THEN s
                   ELSE IF m.t = "data"
                   THEN LET t == [s EXCEPT !.fd[m.fd].buf = Append(@, m.who)]
                        IN  IF fd[m.fd].co = "D" /\ ch.disp = "read" THEN WakeFd(t, m.fd) ELSE t
                   ELSE WakeFd([s EXCEPT !.fd[m.fd].connected = (m.t = "open")], m.fd))
    /\ UNCHANGED outside

(* The socket server and the peer.  The server runs the commands in order; *)
(* a connection is established later, or is not.                           *)
Event(t, f, who) == inbox' = Append(inbox, [t |-> t, fd |-> f, who |-> who])
Fault == faults < MaxFaults /\ faults' = faults + 1

ServeCommand ==
    \E k \in DOMAIN cmds :
        /\ k = 1 \/ (k = 2 /\ cmds[1].t = "connect")
        /\ cmds' = RemoveAt(cmds, k)
        /\ LET f == cmds[k].fd
           IN  IF cmds[k].t = "close"
               THEN fd' = [fd EXCEPT ![f].live = FALSE] /\ Event("close", f, NoReq) /\ UNCHANGED faults
               ELSE \/ fd' = [fd EXCEPT ![f].live = TRUE] /\ Event("open", f, NoReq) /\ UNCHANGED faults
                    \/ Fault /\ Event("error", f, NoReq) /\ UNCHANGED fd
        /\ UNCHANGED <<mode, ch, run, pc, got, left, calls>>

PeerAnswers(f) ==
    /\ fd[f].live
    /\ \E k \in DOMAIN fd[f].wire :
        /\ mode = "order" => k = 1
        /\ fd' = [fd EXCEPT ![f].wire = RemoveAt(@, k)]
        /\ \/ Event("data", f, fd[f].wire[k]) /\ UNCHANGED faults
           \/ Event("data", f, NoReq) /\ Fault
    /\ UNCHANGED <<mode, ch, run, pc, got, cmds, left, calls>>

PeerCloses(f) ==
    /\ fd[f].live /\ Fault
    /\ fd' = [fd EXCEPT ![f].live = FALSE]
    /\ Event("close", f, NoReq)
    /\ UNCHANGED <<mode, ch, run, pc, got, cmds, left, calls>>

Next == \/ Resume \/ Deliver \/ ServeCommand \/ ChangeHost \/ ChannelClose
        \/ \E c \in Req : StartRequest(c) \/ Yielded(c)
        \/ \E f \in 1 .. MaxFd : PeerAnswers(f) \/ PeerCloses(f)

Spec == Init /\ [][Next]_vars

-----------------------------------------------------------------------------
TypeOK ==
    /\ ch.disp \in {"none", "loop", "pop", "popped", "read", "close"}
    /\ ch.sock \in 0 .. ch.fds /\ ch.fds \in 0 .. MaxFd
    /\ \A c \in Req : pc[c] \in {"idle", "open", "queued", "drain", "senderr", "wait",
                                "failed", "answered"}

(***************************************************************************)
(* The answer that a request returns is its own, although the order of the *)
(* queue is all that connects the two in order mode, and connections come  *)
(* and go under it.                                                        *)
(***************************************************************************)
AnswersMatch == \A c \in Req : pc[c] = "answered" => got[c] = c

(***************************************************************************)
(* "capture socket error in request/response transaction" (line 5): who    *)
(* waits for an answer is in the list of a living dispatch thread, has its *)
(* result already, or waits until a close under way wakes everybody.       *)
(***************************************************************************)
WaitersListed ==
    \A c \in Req : pc[c] = "wait" =>
        \/ c \in Range(run)
        \/ ch.disp # "none" /\ (c = ch.cur \/ c \in ch.session \cup Range(ch.queue))

(* A connection attempt that others wait for is in the hands of one of them. *)
OneConnects == /\ ch.busy <=> \E c \in Req : pc[c] \in {"open", "drain"}
               /\ Cardinality({c \in Req : pc[c] \in {"open", "drain"}}) <= 1
               /\ \A c \in Req : pc[c] = "queued" => c \in Range(ch.waiting) \cup Range(run)

(***************************************************************************)
(* The channel keeps its promises as long as no dispatch thread has left   *)
(* requests behind, which close and changehost can make it do.             *)
(***************************************************************************)
ChannelInv == TypeOK /\ (left \/ (AnswersMatch /\ WaitersListed /\ OneConnects))
=============================================================================
