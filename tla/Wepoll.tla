---------------------------------- MODULE Wepoll ----------------------------------
(***************************************************************************)
(* An epoll port on Windows (wepoll.c), on which the socket server waits.  *)
(* For each registered socket at most one request of the AFD driver is     *)
(* under way; it completes through an I/O completion port.  epoll_ctl may  *)
(* be called while epoll_wait waits, and epoll_close while both are there: *)
(* the reference lock of the port (reflock) keeps it until they have left. *)
(*                                                                         *)
(* The code between two waits of a thread runs under the lock of the port  *)
(* and is one action.  Events are "in" and "out"; EPOLLERR and EPOLLHUP,   *)
(* which are always asked for, one-shot and time-outs, which the socket    *)
(* server does not use, are left out.                                      *)
(***************************************************************************)
EXTENDS Naturals, Sequences, FiniteSets, SequencesExt

CONSTANTS Sock,         \* sockets
          Waiter,       \* threads that call epoll_wait
          Caller,       \* threads that call epoll_ctl
          MaxReg,       \* bound: sock_state objects at a time
          GroupSize,    \* POLL_GROUP__MAX_GROUP_SIZE
          MaxEvents,    \* the maxevents of epoll_wait
          MaxOps        \* bound: calls of epoll_ctl and closesocket

(* The number of threads and of objects is finite, and a poll group and    *)
(* the array of events have room (port_wait refuses a maxevents below 1).  *)
ASSUME WepollAssumption == /\ IsFiniteSet(Waiter) /\ IsFiniteSet(Caller) /\ MaxReg \in Nat
                           /\ GroupSize \in Nat \ {0} /\ MaxEvents \in Nat \ {0}

Actor == Waiter \cup Caller
Reg == 1 .. MaxReg
Event == {"in", "out"}
Wanted == {{"in"}, {"in", "out"}}       \* sp_add, sp_write

VARIABLES
    port,       \* the sock_state objects, the update queue, the poll groups
    req, cq,    \* AFD requests; the completion packets that are queued
    level,      \* the events that are ready on each socket, "closed" when it is
    where, taken, \* threads; the packets that GetQueuedCompletionStatusEx gave them
    life, refs, \* the port, "open" to "gone"; the reference count of its reflock
    rep,        \* history: the sockets that the last epoll_wait of a thread reported
    ops

pollVars == <<port, req, cq, level, where, taken, life, refs, rep, ops>>

(***************************************************************************)
(* A sock_state: mem is "free", "live" while sock_tree has it or "deleted" *)
(* (delete_pending); want and mon are user_events and pending_events.      *)
(***************************************************************************)
NoReg == [mem |-> "free", sock |-> "none", want |-> {}, mon |-> {}, poll |-> "idle", group |-> 0]

PollInit == /\ port = [st |-> [r \in Reg |-> NoReg], upd |-> <<>>, groups |-> <<>>, sent |-> {}, stop |-> {}]
            /\ req = [r \in Reg |-> "none"] /\ cq = <<>>
            /\ level = [s \in Sock |-> {}]
            /\ where = [t \in Actor |-> "out"] /\ taken = [t \in Actor |-> <<>>]
            /\ life = "open" /\ refs = 0 /\ rep = [t \in Waiter |-> {}] /\ ops = 0

-----------------------------------------------------------------------------
(* What the code under the lock does to port; sent and stop collect the    *)
(* requests that it submits and cancels.                                   *)

(* poll_group_acquire, with the group in which it finds room *)
FullLast(g) == g = <<>> \/ Last(g).size >= GroupSize
GroupId(g) == IF FullLast(g) THEN CHOOSE i \in 1 .. Len(g) + 1 : \A k \in DOMAIN g : g[k].id # i
              ELSE Last(g).id
Acquire(g) == LET more == IF FullLast(g) THEN Append(g, [id |-> GroupId(g), size |-> 1])
                          ELSE [g EXCEPT ![Len(g)].size = @ + 1]
              IN  IF Last(more).size = GroupSize THEN <<Last(more)>> \o Front(more) ELSE more

(* poll_group_release: the group has room again, and goes to the end. *)
Release(g, i) == LET k == CHOOSE j \in DOMAIN g : g[j].id = i
                 IN  Append(RemoveAt(g, k), [g[k] EXCEPT !.size = @ - 1])

(* port_request_socket_update and port_cancel_socket_update *)
Request(p, r) == IF r \in Range(p.upd) THEN p ELSE [p EXCEPT !.upd = Append(@, r)]
Forget(p, r) == IF r \in Range(p.upd)
                THEN [p EXCEPT !.upd = RemoveAt(@, CHOOSE k \in DOMAIN @ : @[k] = r)] ELSE p

(* sock__cancel_poll *)
Cancel(p, r) == [p EXCEPT !.st[r].poll = "cancelled", !.st[r].mon = {}, !.stop = @ \cup {r}]

Free(p, r) == [p EXCEPT !.groups = Release(@, p.st[r].group), !.st[r] = NoReg]

(* sock__delete: the socket leaves the tree, a request under way is asked  *)
(* to end, and what is left goes at once when nothing has to come back, ... *)
Dismiss(p, r) == IF p.st[r].mem = "deleted" THEN p
                 ELSE [Forget(IF p.st[r].poll = "pending" THEN Cancel(p, r) ELSE p, r)
                           EXCEPT !.st[r].mem = "deleted"]
Delete(p, r) == LET q == Dismiss(p, r) IN IF q.st[r].poll = "idle" THEN Free(q, r) ELSE q

(* ... or by force. *)
ForceDelete(p, r) == IF p.st[r].mem = "free" THEN p ELSE Free(Dismiss(p, r), r)

(* sock_update *)
Update(p, r) ==
    LET x == p.st[r] IN
    CASE x.poll = "pending" /\ x.want \subseteq x.mon   -> Forget(p, r)
      [] x.poll = "pending" /\ ~(x.want \subseteq x.mon) -> Forget(Cancel(p, r), r)
      [] x.poll = "cancelled" -> Forget(p, r)
      [] x.poll = "idle"      ->
            IF "closed" \in level[x.sock] THEN Delete(p, r)
            ELSE Forget([p EXCEPT !.st[r].poll = "pending", !.st[r].mon = x.want,
                                  !.sent = @ \cup {r}], r)

(* port__update_events: as long as the queue has a first one; sock_update  *)
(* removes it.  port__update_events_if_polling for a thread t.             *)
UpdateEvents(p) ==
    LET after[n \in 0 .. Len(p.upd)] == IF n = 0 THEN p ELSE Update(after[n - 1], Head(after[n - 1].upd))
    IN  after[Len(p.upd)]
Polling == {t \in Waiter : where[t] \in {"poll", "got"}}
(* Mutant: epoll_ctl leaves the new events to the next epoll_wait. *)
UpdateLater(p, t) == p

UpdateIfPolling(p, t) == IF Polling \ {t} = {} THEN p ELSE UpdateEvents(p)

(* sock_feed_event: what is reported of a completion packet, ... *)
Reported(p, c) == IF p.st[c.r].mem = "live" THEN c.events \cap p.st[c.r].want ELSE {}

(* Mutant: the socket is not polled again before epoll_ctl asks for it. *)
FeedEventOnce(p, c) ==
    LET q == [p EXCEPT !.st[c.r].poll = "idle", !.st[c.r].mon = {}]
    IN  IF p.st[c.r].mem = "deleted" \/ "closed" \in c.events THEN Delete(q, c.r)
        ELSE IF Reported(p, c) # {} THEN q ELSE Request(q, c.r)

(* ... and what becomes of the socket *)
FeedEvent(p, c) ==
    LET q == [p EXCEPT !.st[c.r].poll = "idle", !.st[c.r].mon = {}]
    IN  IF p.st[c.r].mem = "deleted" \/ "closed" \in c.events THEN Delete(q, c.r) ELSE Request(q, c.r)

(* port__feed_events *)
FeedEvents(p, packets) ==
    LET after[n \in 0 .. Len(packets)] == IF n = 0 THEN p ELSE FeedEvent(after[n - 1], packets[n])
    IN  after[Len(packets)]

Find(s) == {r \in Reg : port.st[r].mem = "live" /\ port.st[r].sock = s}

(* port__ctl_add, with a new sock_state r; a socket can be there only once. *)
CtlAdd(p, r, s, want) ==
    LET i == GroupId(p.groups)
        g == Acquire(p.groups)
    IN  IF Find(s) # {} THEN [p EXCEPT !.groups = Release(g, i)]
        ELSE Request([p EXCEPT !.groups = g,
                               !.st[r] = [NoReg EXCEPT !.mem = "live", !.sock = s,
                                                       !.want = want, !.group = i]], r)

(* port__ctl_mod, sock_set_event *)
CtlMod(p, r, want) ==
    LET q == [p EXCEPT !.st[r].want = want]
    IN  IF want \subseteq p.st[r].mon THEN q ELSE Request(q, r)

-----------------------------------------------------------------------------
(* The port after a step, and the requests that the step has started and stopped *)
Becomes(p) == /\ port' = [p EXCEPT !.sent = {}, !.stop = {}]
              /\ req' = [r \in Reg |-> IF r \in p.sent THEN "wait"
                                       ELSE IF r \in p.stop /\ req[r] = "wait" THEN "cancel"
                                       ELSE req[r]]

Goes(t, to) == where' = [where EXCEPT ![t] = to]
outside == <<level, life, ops>>

(* ts_tree_find_and_ref *)
Enter(t) ==
    /\ where[t] = "out" /\ life = "open"
    /\ Goes(t, "in") /\ refs' = refs + 1
    /\ UNCHANGED <<port, req, cq, taken, rep, outside>>

(* ts_tree_node_unref; the last one signals a thread that destroys. *)
Unref(t) ==
    /\ where[t] = "unref"
    /\ refs' = refs - 1
    /\ Goes(t, IF refs = 1 /\ life = "destroying" THEN "signal" ELSE "out")
    /\ UNCHANGED <<port, req, cq, taken, rep, outside>>

(* port_wait, port__poll up to GetQueuedCompletionStatusEx *)
WaitBegin(t) ==
    /\ t \in Waiter /\ where[t] = "in"
    /\ Becomes(UpdateEvents(port))
    /\ Goes(t, "poll") /\ rep' = [rep EXCEPT ![t] = {}]
    /\ UNCHANGED <<cq, taken, refs, outside>>

Dequeue(t) ==
    /\ where[t] = "poll" /\ cq # <<>> /\ life \in {"open", "removed"}
    /\ LET n == IF Len(cq) < MaxEvents THEN Len(cq) ELSE MaxEvents
       IN  taken' = [taken EXCEPT ![t] = SubSeq(cq, 1, n)] /\ cq' = SubSeq(cq, n + 1, Len(cq))
    /\ Goes(t, "got")
    /\ UNCHANGED <<port, req, refs, rep, outside>>

(* The port has been closed. *)
WaitFails(t) ==
    /\ where[t] = "poll" /\ life \notin {"open", "removed"}
    /\ Becomes(UpdateIfPolling(port, t))
    /\ Goes(t, "unref")
    /\ UNCHANGED <<cq, taken, refs, rep, outside>>

(* Packets come, and another round when there is nothing to report *)
Feed(t) ==
    /\ where[t] = "got"
    /\ LET p == FeedEvents(port, taken[t])
           socks == {port.st[taken[t][k].r].sock :
                        k \in {j \in DOMAIN taken[t] : Reported(port, taken[t][j]) # {}}}
       IN  IF socks = {} THEN Becomes(UpdateEvents(p)) /\ Goes(t, "poll") /\ UNCHANGED rep
           ELSE /\ Becomes(UpdateIfPolling(p, t)) /\ Goes(t, "unref")
                /\ rep' = [rep EXCEPT ![t] = socks]
    /\ taken' = [taken EXCEPT ![t] = <<>>]
    /\ UNCHANGED <<cq, refs, outside>>

(* port_ctl; nobody adds a socket to a port that is closed, which          *)
(* port_get_iocp_handle asserts (line 1447).                               *)
Ctl(t) ==
    /\ t \in Caller /\ where[t] = "in" /\ ops < MaxOps /\ ops' = ops + 1
    /\ \E s \in Sock :
        \/ /\ "closed" \notin level[s] /\ life \in {"open", "removed"}
           /\ \E r \in Reg, want \in Wanted :
                /\ port.st[r].mem = "free" /\ req[r] = "none"
                /\ \A q \in 1 .. r - 1 : port.st[q].mem # "free"
                /\ Becomes(UpdateIfPolling(CtlAdd(port, r, s, want), t))
        \/ \E r \in Find(s), want \in Wanted : Becomes(UpdateIfPolling(CtlMod(port, r, want), t))
        \/ \E r \in Find(s) : Becomes(Delete(port, r))
    /\ Goes(t, "unref")
    /\ UNCHANGED <<cq, taken, level, life, refs, rep>>

-----------------------------------------------------------------------------
(* epoll_close: ts_tree_del_and_ref, port_close, ts_tree_node_unref_and_destroy *)

CloseBegin == /\ life = "open" /\ life' = "removed" /\ refs' = refs + 1
              /\ UNCHANGED <<port, req, cq, level, where, taken, rep, ops>>

CloseIocp == /\ life = "removed" /\ life' = "closed" /\ cq' = <<>>
             /\ UNCHANGED <<port, req, level, where, taken, refs, rep, ops>>

(* port_delete: every object is freed.  It has asked the driver to stop    *)
(* the requests and does not wait for them: they may outlive the memory    *)
(* that they complete into.                                                *)
DeletePort == /\ life' = "gone"
              /\ LET after[n \in 0 .. MaxReg] == IF n = 0 THEN port ELSE ForceDelete(after[n - 1], n)
                 IN  Becomes(after[MaxReg])

(* reflock_unref_and_destroy waits for those who still hold a reference ... *)
Destroy == /\ life = "closed" /\ refs' = refs - 1
           /\ IF refs = 1 THEN DeletePort ELSE life' = "destroying" /\ UNCHANGED <<port, req>>
           /\ UNCHANGED <<cq, level, where, taken, rep, ops>>

(* ... and meets the last one at the keyed event. *)
Rendezvous(t) == /\ life = "destroying" /\ where[t] = "signal"
                 /\ DeletePort /\ Goes(t, "out")
                 /\ UNCHANGED <<cq, level, taken, refs, rep, ops>>

-----------------------------------------------------------------------------
(* AFD and the completion port, and the sockets: a request completes into  *)
(* its sock_state, which port_delete may have freed before.                *)

Complete(r) ==
    LET s == port.st[r].sock
        ready == level[s] \cap (port.st[r].mon \cup {"closed"})
        Packet(e) == cq' = IF life \in {"open", "removed"} THEN Append(cq, [r |-> r, events |-> e]) ELSE cq
    IN  /\ \/ req[r] = "cancel" /\ Packet({})
           \/ req[r] = "wait" /\ ready # {} /\ Packet(ready)
        /\ req' = [req EXCEPT ![r] = "none"]
        /\ UNCHANGED <<port, where, taken, refs, rep, outside>>

(* Data comes or is read, the buffer has room or is filled. *)
Ready(s) ==
    /\ "closed" \notin level[s]
    /\ \E e \in Event : level' = [level EXCEPT ![s] = IF e \in @ THEN @ \ {e} ELSE @ \cup {e}]
    /\ UNCHANGED <<port, req, cq, where, taken, life, refs, rep, ops>>

CloseSocket(s) ==
    /\ "closed" \notin level[s] /\ ops < MaxOps /\ ops' = ops + 1
    /\ level' = [level EXCEPT ![s] = {"closed"}]
    /\ UNCHANGED <<port, req, cq, where, taken, life, refs, rep>>

WaitStep(t) == Enter(t) \/ Unref(t) \/ WaitBegin(t) \/ Dequeue(t) \/ WaitFails(t) \/ Feed(t)

PollNext == \/ \E t \in Waiter : WaitStep(t)
            \/ \E t \in Caller : Enter(t) \/ Ctl(t) \/ Unref(t)
            \/ \E t \in Actor : Rendezvous(t)
            \/ CloseBegin \/ CloseIocp \/ Destroy
            \/ \E r \in Reg : Complete(r)
            \/ \E s \in Sock : Ready(s) \/ CloseSocket(s)

(* The threads run, the kernel completes what is ready, and the socket     *)
(* server waits again after each epoll_wait.                               *)
PollFairness == /\ \A t \in Waiter : WF_pollVars(WaitStep(t))
                /\ \A r \in Reg : WF_pollVars(Complete(r))

PollSpec == PollInit /\ [][PollNext]_pollVars /\ PollFairness

-----------------------------------------------------------------------------
PollTypeOK ==
    /\ \A r \in Reg : /\ port.st[r].mem \in {"free", "live", "deleted"}
                      /\ port.st[r].poll \in {"idle", "pending", "cancelled"}
                      /\ req[r] \in {"none", "wait", "cancel"}
    /\ life \in {"open", "removed", "closed", "destroying", "gone"} /\ refs \in Nat

Packets(q, r) == {k \in DOMAIN q : q[k].r = r}
PacketsOf(r) == {<<"queued", k>> : k \in Packets(cq, r)}
                \cup UNION {{<<"taken", t, k>> : k \in Packets(taken[t], r)} : t \in Waiter}

(***************************************************************************)
(* Until the port is deleted a sock_state is freed when its request has    *)
(* come back and not before (line 1695): the kernel and the packets refer  *)
(* only to what is there, and as long as packets come through the          *)
(* completion port, poll_status tells whether there is something to come.  *)
(* port_delete does not wait: the requests that are left are then of       *)
(* memory that is freed, and each of them has been asked to end.           *)
(***************************************************************************)
RequestsOwned ==
    \A r \in Reg :
        LET n == Cardinality(PacketsOf(r)) + (IF req[r] = "none" THEN 0 ELSE 1)
        IN  /\ life \in {"open", "removed"} => n = IF port.st[r].poll = "idle" THEN 0 ELSE 1
            /\ life # "gone" /\ n # 0 => port.st[r].mem # "free"
            /\ life = "gone" => PacketsOf(r) = {} /\ req[r] # "wait"

(* Each socket is once in the tree; the groups count their sockets, and    *)
(* those with room are last, where poll_group_acquire looks.               *)
GroupsExact ==
    /\ \A k \in DOMAIN port.groups :
        /\ port.groups[k].size = Cardinality({r \in Reg : port.st[r].group = port.groups[k].id})
        /\ k > 1 /\ port.groups[k].size = GroupSize => port.groups[k - 1].size = GroupSize
    /\ \A s \in Sock : Cardinality(Find(s)) <= 1
    /\ \A r \in Range(port.upd) : port.st[r].mem = "live"

(***************************************************************************)
(* While a thread waits in the completion port, every socket is watched    *)
(* for all that the user wants: by its request, or its request has been    *)
(* stopped or answered, and the thread that gets the packet starts a new   *)
(* one.  What epoll_ctl and epoll_wait change is not left in the update    *)
(* queue while the only thread that would look there is asleep.            *)
(***************************************************************************)
InterestCovered ==
    /\ \A r \in Reg : port.st[r].mem = "live" /\ port.st[r].poll = "idle" => r \in Range(port.upd)
    /\ Polling # {} /\ life \in {"open", "removed"} =>
        \A r \in Reg : port.st[r].mem = "live" =>
            \/ req[r] = "wait" /\ port.st[r].want \subseteq port.st[r].mon
            \/ req[r] = "cancel" \/ PacketsOf(r) # {}

(* Nobody is inside a port that is gone, and nothing is left of it. *)
PortOutlivesCalls ==
    /\ life = "gone" => \A t \in Actor : where[t] = "out"
    /\ life = "gone" => \A r \in Reg : port.st[r] = NoReg
    /\ life = "gone" => port.upd = <<>> /\ \A k \in DOMAIN port.groups : port.groups[k].size = 0
    /\ refs = Cardinality({t \in Actor : where[t] \notin {"out", "signal"}})
                + (IF life \in {"removed", "closed"} THEN 1 ELSE 0)

PollInv == PollTypeOK /\ RequestsOwned /\ GroupsExact /\ InterestCovered /\ PortOutlivesCalls

(***************************************************************************)
(* Level-triggered, and no socket starves another: what stays ready and    *)
(* wanted is reported, and reported again by the epoll_wait after that,    *)
(* or by one of the next ones when there are more than it can return.      *)
(***************************************************************************)
Watched(s) == life = "open" /\ \E r \in Find(s) : port.st[r].want \cap level[s] # {}
EventsReported ==
    \A s \in Sock : Watched(s) ~> (~Watched(s) \/ \E t \in Waiter : s \in rep[t])
=============================================================================
