------------------------------ MODULE Dispatch ------------------------------
(***************************************************************************)
(* The heart of a skynet node: how worker threads take the mailboxes of    *)
(* services from the global queue, dispatch their messages, and how        *)
(* services are launched, addressed and retired meanwhile (skynet_mq.c,    *)
(* skynet_server.c and the use they make of skynet_handle.c).              *)
(*                                                                         *)
(* A step is what a thread does under one lock or with one atomic          *)
(* instruction, so the threads of a node interleave between any two of     *)
(* them.  A service, its handle and its mailbox are one identifier: a      *)
(* handle is not used again (module HandleStorage is about the handles     *)
(* themselves) and a mailbox is the FIFO of module FifoQueue.  The log     *)
(* lines of skynet_error are left out; each is one more CallSend.          *)
(* skynet_harbor_exit is left out too: the main thread calls it when all   *)
(* the threads modelled here have ended.                                   *)
(***************************************************************************)
EXTENDS Integers, Sequences, FiniteSets

CONSTANTS Ctx,          \* the services, running or still to be launched
          Boot,         \* the services that run already
          Harbor,       \* those that may be the harbor service of the node
          NoCtx,        \* 0, the handle of no service
          Worker,       \* thread_worker
          Outsider,     \* threads that only send: thread_timer, thread_socket
          Weight,       \* the weight of each worker, -1 and up
          MonitorExit,  \* G_NODE.monitor_exit, or NoCtx
          MaxOps        \* bound: operations the code of all services runs

ASSUME CtxAssumption == /\ Boot \subseteq Ctx
                        /\ Harbor \subseteq Ctx
                        /\ NoCtx \notin Ctx
                        /\ MonitorExit \in Ctx \cup {NoCtx}
                        /\ IsFiniteSet(Ctx)
ASSUME ThreadAssumption == /\ Worker \cap Outsider = {} /\ IsFiniteSet(Worker \cup Outsider)
                           /\ Weight \in [Worker -> {-1} \cup Nat]
                           /\ MaxOps \in Nat

Thread == Worker \cup Outsider

VARIABLES
    registered,     \* the contexts that have a slot in the handle storage
    ref,            \* ctx->ref
    ready,          \* the contexts with ctx->init set
    born, freed,    \* the contexts allocated so far, and those freed again
    mbox,           \* the messages of each mailbox, each named by its source
    in_global,      \* the mailboxes with in_global set
    release,        \* the mailboxes with release set
    qfreed,         \* the mailboxes freed by _release
    gq,             \* the global queue
    total,          \* G_NODE.total
    reserved,       \* the contexts skynet_context_reserve has a reference to
    remote,         \* REMOTE, the harbor service that has started last, or NoCtx
    ops,            \* operations of service code so far
    th              \* the state of each thread

harborVars == <<reserved, remote>>
ctxVars == <<registered, ref, ready, born, freed, total, harborVars>>
mqVars == <<mbox, in_global, release, qfreed, gq>>
vars == <<ctxVars, mqVars, ops, th>>

(***************************************************************************)
(* The frame of a thread:                                                  *)
(*   pc    the next step                                                   *)
(*   q     the mailbox a worker is dispatching                             *)
(*   nq    the mailbox taken at the end of a round, before q is put back   *)
(*   left  the messages still to dispatch in this round                    *)
(*   new   the service a worker is launching                               *)
(*   dq    the mailbox of a dead service that is being emptied             *)
(*   obj   the context of the send, retire or release in progress          *)
(*   src   the source of that send, or the victim of that retire           *)
(*   ret   the step after that send, retire or release                     *)
(***************************************************************************)
Idle(pc) == [pc |-> pc, q |-> NoCtx, nq |-> NoCtx, left |-> 0, new |-> NoCtx,
             dq |-> NoCtx, obj |-> NoCtx, src |-> NoCtx, ret |-> "none"]

At(t, pc) == th[t].pc = pc

(* The send, retire or release in progress is over (a kill that has told   *)
(* the monitor service goes on to retire the victim).                      *)
Resume(t, pc) ==
    th' = [th EXCEPT ![t].pc = pc, ![t].obj = NoCtx, ![t].ret = "none",
                     ![t].src = IF pc = "retire" THEN @ ELSE NoCtx]

(* Where the code of a service runs: in its callback or in its init. *)
UserCode == {"callback", "init"}

(* The services of Boot are launched; the init of each, as that of snlua,  *)
(* has sent the service a first message.  One may be the harbor service.   *)
Init ==
    /\ registered = Boot
    /\ remote \in {NoCtx} \cup (Harbor \cap Boot)
    /\ reserved = {remote} \ {NoCtx}
    /\ ref = [c \in Ctx |-> IF c \in reserved THEN 2 ELSE IF c \in Boot THEN 1 ELSE 0]
    /\ ready = Boot
    /\ born = Boot
    /\ freed = {}
    /\ mbox = [c \in Ctx |-> IF c \in Boot THEN <<c>> ELSE <<>>]
    /\ in_global = Boot
    /\ release = {}
    /\ qfreed = {}
    /\ \E s \in [1 .. Cardinality(Boot) -> Boot] :
          (\A i, j \in DOMAIN s : s[i] = s[j] => i = j) /\ gq = s
    /\ total = Cardinality(Boot \ reserved)
    /\ ops = 0
    /\ th = [t \in Thread |-> IF t \in Worker THEN Idle("poll") ELSE Idle("outside")]

-----------------------------------------------------------------------------
(* skynet_context_push, called by skynet_send *)

CallSend(t, dst, src, ret) ==
    th' = [th EXCEPT ![t].pc = "grab_dst", ![t].obj = dst, ![t].src = src, ![t].ret = ret]

(* Mutant: the context is found but its reference is not counted. *)
SendGrabUncounted(t) ==
    /\ At(t, "grab_dst")
    /\ IF th[t].obj \in registered THEN th' = [th EXCEPT ![t].pc = "push"]
                                   ELSE Resume(t, th[t].ret)
    /\ UNCHANGED <<ctxVars, mqVars, ops>>

(* skynet_handle_grab finds the destination, or the send returns -1. *)
SendGrab(t) ==
    /\ At(t, "grab_dst")
    /\ IF th[t].obj \in registered
       THEN /\ ref' = [ref EXCEPT ![th[t].obj] = @ + 1]
            /\ th' = [th EXCEPT ![t].pc = "push"]
       ELSE Resume(t, th[t].ret) /\ UNCHANGED ref
    /\ UNCHANGED <<registered, ready, born, freed, total, harborVars, mqVars, ops>>

(* skynet_mq_push *)
MqPush(c, src) ==
    /\ mbox' = [mbox EXCEPT ![c] = Append(@, src)]
    /\ in_global' = in_global \cup {c}
    /\ gq' = IF c \in in_global THEN gq ELSE Append(gq, c)

SendPush(t) ==
    LET c == th[t].obj
    IN  /\ At(t, "push")
        /\ MqPush(c, th[t].src)
        /\ th' = [th EXCEPT ![t].pc = "release"]
        /\ UNCHANGED <<ctxVars, release, qfreed, ops>>

-----------------------------------------------------------------------------
(* skynet_context_release and delete_context *)

CallRelease(t, c, ret) ==
    th' = [th EXCEPT ![t].pc = "release", ![t].obj = c, ![t].ret = ret]

Release(t) ==
    LET c == th[t].obj
    IN  /\ At(t, "release")
        /\ ref' = [ref EXCEPT ![c] = @ - 1]
        /\ IF ref[c] = 1 THEN th' = [th EXCEPT ![t].pc = "mark"] ELSE Resume(t, th[t].ret)
        /\ UNCHANGED <<registered, ready, born, freed, total, harborVars, mqVars, ops>>

(* Mutant: mark_release always pushes. *)
MarkReleaseAlways(t) ==
    /\ At(t, "mark")
    /\ release' = release \cup {th[t].obj}
    /\ gq' = Append(gq, th[t].obj)
    /\ th' = [th EXCEPT ![t].pc = "delete"]
    /\ UNCHANGED <<ctxVars, mbox, in_global, qfreed, ops>>

(* skynet_mq_mark_release *)
MarkRelease(t) ==
    LET c == th[t].obj
    IN  /\ At(t, "mark")
        /\ release' = release \cup {c}
        /\ gq' = IF c \in in_global THEN gq ELSE Append(gq, c)
        /\ th' = [th EXCEPT ![t].pc = "delete"]
        /\ UNCHANGED <<ctxVars, mbox, in_global, qfreed, ops>>

(* skynet_free(ctx) and context_dec; a launch learns that its service is gone. *)
DeleteContext(t) ==
    /\ At(t, "delete")
    /\ freed' = freed \cup {th[t].obj}
    /\ total' = total - 1
    /\ Resume(t, IF th[t].ret = "set_init" THEN "push_gone" ELSE th[t].ret)
    /\ UNCHANGED <<registered, ref, ready, born, harborVars, mqVars, ops>>

-----------------------------------------------------------------------------
(* skynet_handle_retire: the slot is cleared under the lock, the reference *)
(* it held is released after the unlock.                                   *)
RetireThen(t, c, ret) ==
    /\ registered' = registered \ {c}
    /\ IF c \in registered THEN CallRelease(t, c, ret) ELSE Resume(t, ret)
    /\ UNCHANGED <<ref, ready, born, freed, total, harborVars, mqVars, ops>>

(* Mutant: the slot is cleared but its reference is never released. *)
RetireLeaks(t) ==
    /\ At(t, "retire")
    /\ registered' = registered \ {th[t].src}
    /\ Resume(t, IF th[t].new = NoCtx THEN "callback" ELSE "init")
    /\ UNCHANGED <<ref, ready, born, freed, total, harborVars, mqVars, ops>>

(* The retire of handle_exit *)
Retire(t) ==
    /\ At(t, "retire")
    /\ RetireThen(t, th[t].src, IF th[t].new = NoCtx THEN "callback" ELSE "init")

-----------------------------------------------------------------------------
(* The code of a service, in its callback or in its init function *)

(* The service on whose behalf a thread runs. *)
Self(t) == IF At(t, "init") THEN th[t].new ELSE th[t].q

CanCall(t) == th[t].pc \in UserCode /\ ops < MaxOps /\ ops' = ops + 1

(* skynet_send to a handle the service knows *)
UserSend(t) ==
    /\ CanCall(t)
    /\ \E dst \in born : CallSend(t, dst, Self(t), th[t].pc)
    /\ UNCHANGED <<ctxVars, mqVars>>

(* skynet_harbor_send, for a service of another node: skynet_context_send   *)
(* pushes to the mailbox of REMOTE, and takes no reference to it.          *)
UserSendRemote(t) ==
    /\ CanCall(t)
    /\ remote # NoCtx
    /\ MqPush(remote, Self(t))
    /\ UNCHANGED <<ctxVars, release, qfreed, th>>

(* cmd_exit and cmd_kill: handle_exit tells the monitor service, then retires. *)
UserKill(t) ==
    /\ CanCall(t)
    /\ \E victim \in born :
          IF MonitorExit = NoCtx
          THEN th' = [th EXCEPT ![t].pc = "retire", ![t].src = victim]
          ELSE CallSend(t, MonitorExit, victim, "retire")
    /\ UNCHANGED <<ctxVars, mqVars>>

(* The registration and the two references of a new context *)
NewContext(t, c) ==
    /\ born' = born \cup {c}
    /\ registered' = registered \cup {c}
    /\ ref' = [ref EXCEPT ![c] = 2]
    /\ th' = [th EXCEPT ![t].pc = "init", ![t].new = c]
    /\ UNCHANGED <<ready, freed, harborVars, mbox, release, qfreed, gq>>

(***************************************************************************)
(* skynet_context_new up to the init function: two references, one for the *)
(* handle storage and one for the launch; in_global is set although the    *)
(* mailbox is in no queue yet.  Nobody knows the new handle before init.   *)
(* The harbor service launches nothing.                                    *)
(***************************************************************************)
UserLaunch(t) ==
    /\ At(t, "callback") /\ CanCall(t)
    /\ Self(t) \notin reserved
    /\ \E c \in Ctx \ born : NewContext(t, c) /\ in_global' = in_global \cup {c}
    /\ total' = total + 1

(* Mutant: the reserved context still counts. *)
ReserveCounted(t) ==
    /\ At(t, "init")
    /\ th[t].new \in Harbor \ reserved
    /\ ref' = [ref EXCEPT ![th[t].new] = @ + 1]
    /\ reserved' = reserved \cup {th[t].new}
    /\ remote' = th[t].new
    /\ UNCHANGED <<registered, ready, born, freed, total, mqVars, ops, th>>

(* skynet_harbor_start, the last thing the init function of the harbor     *)
(* service does: skynet_context_reserve takes a reference for ever, and    *)
(* the service counts no more; from now on it is REMOTE.                   *)
Reserve(t) ==
    LET c == th[t].new
    IN  /\ At(t, "init")
        /\ c \in Harbor \ reserved
        /\ ref' = [ref EXCEPT ![c] = @ + 1]
        /\ total' = total - 1
        /\ reserved' = reserved \cup {c}
        /\ remote' = c
        /\ UNCHANGED <<registered, ready, born, freed, mqVars, ops, th>>

(* The init function returns 0: the launch gives up its reference. *)
InitSucceeds(t) ==
    /\ At(t, "init")
    /\ CallRelease(t, th[t].new, "set_init")
    /\ UNCHANGED <<ctxVars, mqVars, ops>>

(* The context outlived the release: ctx->init = true. *)
SetInit(t) ==
    /\ At(t, "set_init")
    /\ ready' = ready \cup {th[t].new}
    /\ th' = [th EXCEPT ![t].pc = "push_new"]
    /\ UNCHANGED <<registered, ref, born, freed, total, harborVars, mqVars, ops>>

(* skynet_globalmq_push(queue), then cmd_launch reads inst->handle if it has one. *)
PushNew(t) ==
    /\ th[t].pc \in {"push_new", "push_gone"}
    /\ gq' = Append(gq, th[t].new)
    /\ th' = IF At(t, "push_new") THEN [th EXCEPT ![t].pc = "launched"]
             ELSE [th EXCEPT ![t].pc = "callback", ![t].new = NoCtx]
    /\ UNCHANGED <<ctxVars, mbox, in_global, release, qfreed, ops>>

Launched(t) ==
    /\ At(t, "launched")
    /\ th' = [th EXCEPT ![t].pc = "callback", ![t].new = NoCtx]
    /\ UNCHANGED <<ctxVars, mqVars, ops>>

(* The init function fails: release, retire, and give the mailbox away. *)
InitFails(t) ==
    /\ At(t, "init")
    /\ th[t].new \notin reserved
    /\ CallRelease(t, th[t].new, "retire_new")
    /\ UNCHANGED <<ctxVars, mqVars, ops>>

RetireNew(t) == At(t, "retire_new") /\ RetireThen(t, th[t].new, "mq_release")

-----------------------------------------------------------------------------
(* skynet_mq_release and _drop_queue, called by the dispatcher on a mailbox *)
(* whose context it cannot grab and by a launch that failed.                *)

(* After the launch or the dispatcher is done with a mailbox. *)
MqRelease(t) ==
    LET launch == th[t].new # NoCtx
        c == IF launch THEN th[t].new ELSE th[t].q
        after == IF launch THEN "callback" ELSE "poll"
        gone == [th EXCEPT ![t].new = NoCtx, ![t].q = IF launch THEN @ ELSE NoCtx]
    IN  /\ At(t, "mq_release")
        /\ IF c \in release
           THEN /\ th' = [gone EXCEPT ![t].pc = "drop", ![t].dq = c]
                /\ UNCHANGED gq
           ELSE /\ th' = [gone EXCEPT ![t].pc = after]
                /\ gq' = Append(gq, c)
        /\ UNCHANGED <<ctxVars, mbox, in_global, release, qfreed, ops>>

(* Where a thread goes on once a dead mailbox is empty. *)
AfterDrop(t) == IF th[t].q = NoCtx THEN "poll" ELSE "callback"

(* drop_message: an error goes to the source, if the message has one. *)
DropMessage(t) ==
    LET c == th[t].dq
    IN  /\ At(t, "drop")
        /\ mbox[c] # <<>>
        /\ mbox' = [mbox EXCEPT ![c] = Tail(@)]
        /\ CallSend(t, Head(mbox[c]), c, "drop")
        /\ UNCHANGED <<ctxVars, in_global, release, qfreed, gq, ops>>

(* The pop that finds it empty clears in_global, and _release frees it. *)
DropDone(t) ==
    LET c == th[t].dq
    IN  /\ At(t, "drop")
        /\ mbox[c] = <<>>
        /\ in_global' = in_global \ {c}
        /\ qfreed' = qfreed \cup {c}
        /\ th' = [th EXCEPT ![t].pc = AfterDrop(t), ![t].dq = NoCtx]
        /\ UNCHANGED <<ctxVars, mbox, release, gq, ops>>

-----------------------------------------------------------------------------
(* skynet_context_message_dispatch *)

(* skynet_globalmq_pop; a worker that finds nothing sleeps and tries again. *)
GlobalmqPop(t) ==
    /\ At(t, "poll")
    /\ gq # <<>>
    /\ gq' = Tail(gq)
    /\ th' = [th EXCEPT ![t].pc = "grab", ![t].q = Head(gq)]
    /\ UNCHANGED <<ctxVars, mbox, in_global, release, qfreed, ops>>

(* skynet_handle_grab of the service whose mailbox it is *)
DispatchGrab(t) ==
    LET c == th[t].q
    IN  /\ At(t, "grab")
        /\ IF c \in registered
           THEN /\ ref' = [ref EXCEPT ![c] = @ + 1]
                /\ th' = [th EXCEPT ![t].pc = "pop_first"]
           ELSE /\ th' = [th EXCEPT ![t].pc = "mq_release"]
                /\ UNCHANGED ref
        /\ UNCHANGED <<registered, ready, born, freed, total, harborVars, mqVars, ops>>

(* skynet_mq_pop of a message; the first pop of a round sets its length. *)
PopMessage(t) ==
    LET c == th[t].q
    IN  /\ th[t].pc \in {"pop_first", "pop"}
        /\ mbox[c] # <<>>
        /\ mbox' = [mbox EXCEPT ![c] = Tail(@)]
        /\ th' = IF At(t, "pop_first") /\ Weight[t] >= 0
                 THEN [th EXCEPT ![t].pc = "length"]
                 ELSE [th EXCEPT ![t].pc = "callback",
                                 ![t].left = IF At(t, "pop") THEN @ - 1 ELSE 0]
        /\ UNCHANGED <<ctxVars, in_global, release, qfreed, gq, ops>>

(* skynet_mq_pop of nothing: the mailbox is given up with the lock. *)
PopEmpty(t) ==
    LET c == th[t].q
    IN  /\ th[t].pc \in {"pop_first", "pop"}
        /\ mbox[c] = <<>>
        /\ in_global' = in_global \ {c}
        /\ th' = [th EXCEPT ![t].pc = "release", ![t].obj = c, ![t].ret = "poll", ![t].q = NoCtx]
        /\ UNCHANGED <<ctxVars, mbox, release, qfreed, gq, ops>>

(* n = skynet_mq_length(q) >> weight: this message and n - 1 more. *)
Length(t) ==
    LET n == Len(mbox[th[t].q]) \div 2 ^ Weight[t]
    IN  /\ At(t, "length")
        /\ th' = [th EXCEPT ![t].pc = "callback", ![t].left = IF n > 0 THEN n - 1 ELSE 0]
        /\ UNCHANGED <<ctxVars, mqVars, ops>>

(* The callback returns; the round goes on or ends. *)
CallbackReturns(t) ==
    /\ At(t, "callback")
    /\ th' = [th EXCEPT ![t].pc = IF th[t].left > 0 THEN "pop" ELSE "end"]
    /\ UNCHANGED <<ctxVars, mqVars, ops>>

(* skynet_globalmq_pop for the next mailbox *)
NextQueue(t) ==
    /\ At(t, "end")
    /\ IF gq = <<>>
       THEN CallRelease(t, th[t].q, "grab") /\ UNCHANGED gq
       ELSE /\ gq' = Tail(gq)
            /\ th' = [th EXCEPT ![t].pc = "push_back", ![t].nq = Head(gq)]
    /\ UNCHANGED <<ctxVars, mbox, in_global, release, qfreed, ops>>

(* Mutant: the worker forgets to put the mailbox back. *)
PushBackForgets(t) ==
    /\ At(t, "push_back")
    /\ th' = [th EXCEPT ![t].pc = "release", ![t].obj = th[t].q, ![t].ret = "grab",
                        ![t].q = th[t].nq, ![t].nq = NoCtx]
    /\ UNCHANGED <<ctxVars, mqVars, ops>>

(* Another mailbox waits: put this one back and go on with that one. *)
PushBack(t) ==
    /\ At(t, "push_back")
    /\ gq' = Append(gq, th[t].q)
    /\ th' = [th EXCEPT ![t].pc = "release", ![t].obj = th[t].q, ![t].ret = "grab",
                        ![t].q = th[t].nq, ![t].nq = NoCtx]
    /\ UNCHANGED <<ctxVars, mbox, in_global, release, qfreed, ops>>

-----------------------------------------------------------------------------
(* thread_timer and thread_socket push messages that have no source. *)
OutsiderSend(t) ==
    /\ At(t, "outside")
    /\ ops < MaxOps
    /\ ops' = ops + 1
    /\ \E dst \in born : CallSend(t, dst, NoCtx, "outside")
    /\ UNCHANGED <<ctxVars, mqVars>>

Send(t) == SendGrab(t) \/ SendPush(t)
Delete(t) == Release(t) \/ MarkRelease(t) \/ DeleteContext(t)
Launch(t) == \/ UserLaunch(t) \/ Reserve(t) \/ InitSucceeds(t) \/ SetInit(t) \/ PushNew(t) \/ Launched(t)
             \/ InitFails(t) \/ RetireNew(t)
Drop(t) == MqRelease(t) \/ DropMessage(t) \/ DropDone(t)
Round(t) == \/ GlobalmqPop(t) \/ DispatchGrab(t) \/ PopMessage(t) \/ PopEmpty(t) \/ Length(t)
            \/ CallbackReturns(t) \/ NextQueue(t) \/ PushBack(t)
User(t) == UserSend(t) \/ UserSendRemote(t) \/ UserKill(t) \/ Retire(t)

WorkerStep(t) == Send(t) \/ Delete(t) \/ User(t) \/ Launch(t) \/ Drop(t) \/ Round(t)
OutsiderStep(t) == Send(t) \/ Delete(t)

Next == \/ \E t \in Worker : WorkerStep(t)
        \/ \E t \in Outsider : OutsiderSend(t) \/ OutsiderStep(t)

(***************************************************************************)
(* The operating system keeps every thread running, a callback returns     *)
(* (skynet only reports one that does not), and a worker that found the    *)
(* global queue empty looks again: the timer thread signals a sleeping     *)
(* worker every 2.5 ms.  Nobody has to send.                               *)
(***************************************************************************)
Fairness == /\ \A t \in Worker : WF_vars(WorkerStep(t))
            /\ \A t \in Outsider : WF_vars(OutsiderStep(t))

Spec == Init /\ [][Next]_vars /\ Fairness

-----------------------------------------------------------------------------
(* Only contexts that were allocated are addressed, queued or freed, and   *)
(* neither a reference count nor the number of services goes below 0.      *)
TypeOK ==
    /\ registered \subseteq born /\ ready \subseteq born /\ freed \subseteq born
    /\ born \subseteq Ctx
    /\ ref \in [Ctx -> Nat]
    /\ mbox \in [Ctx -> Seq(Ctx \cup {NoCtx})]
    /\ in_global \subseteq born /\ release \subseteq born /\ qfreed \subseteq born
    /\ gq \in Seq(Ctx)
    /\ total \in Nat /\ ops \in 0 .. MaxOps
    /\ reserved \subseteq born /\ remote \in reserved \cup {NoCtx}

(* The mailboxes a thread owns: what it dispatches, is about to put back,  *)
(* empties, or has created and not yet given to the global queue.          *)
Held(t) == ({th[t].q, th[t].nq, th[t].dq}
            \cup IF At(t, "launched") THEN {} ELSE {th[t].new}) \ {NoCtx}

(***************************************************************************)
(* No two workers ever run the callback of one service at once: a mailbox  *)
(* is at most once in the global queue, at most one thread holds it, and   *)
(* not both.  assert(queue->next == NULL) of skynet_globalmq_push and of   *)
(* _release, and every CHECKCALLING_BEGIN, rest on it.                     *)
(***************************************************************************)
OneOwner ==
    /\ \A i, j \in DOMAIN gq : gq[i] = gq[j] => i = j
    /\ \A t \in Thread : Held(t) \cap {gq[i] : i \in DOMAIN gq} = {}
    /\ \A t, u \in Thread : t # u => Held(t) \cap Held(u) = {}

(* Both: the mailboxes, well typed, each with one owner at most.           *)
OwnerInv == TypeOK /\ OneOwner

(***************************************************************************)
(* No message waits in a mailbox that nobody will look at: one that holds  *)
(* a message, or that belongs to a deleted context and is not freed yet,   *)
(* is in the global queue or held by a thread.                             *)
(***************************************************************************)
Scheduled ==
    \A c \in born \ qfreed : (mbox[c] # <<>> \/ c \in freed) =>
        \/ \E i \in DOMAIN gq : gq[i] = c
        \/ \E t \in Thread : c \in Held(t)

(* Each mailbox has at most one owner, and one when it needs an owner. *)
MailboxOwned == OwnerInv /\ Scheduled

(***************************************************************************)
(* Who holds a reference to a context: its slot of the handle storage; a   *)
(* thread that grabbed it to send, or is about to release it; the worker   *)
(* that dispatches its mailbox, until it calls release; its launch, until  *)
(* its init function has returned; the node, for its harbor service.       *)
(***************************************************************************)
InRelease(t) == th[t].pc \in {"release", "mark", "delete"}

Dispatching(t) == /\ ~At(t, "grab")
                  /\ ~(At(t, "mq_release") /\ th[t].new = NoCtx)
                  /\ ~(InRelease(t) /\ th[t].ret = "grab")

Launching(t) == \/ th[t].pc \in {"init", "retire"}
                \/ /\ InRelease(t) \/ th[t].pc \in {"grab_dst", "push"}
                   /\ th[t].ret \in {"init", "retire"}

Holders(c) ==
    {<<NoCtx, "slot">> : x \in registered \cap {c}}
    \cup {<<NoCtx, "harbor">> : x \in reserved \cap {c}}
    \cup {<<t, "grab">> : t \in {u \in Thread : th[u].obj = c /\ th[u].pc \in {"push", "release"}}}
    \cup {<<t, "dispatch">> : t \in {u \in Thread : th[u].q = c /\ Dispatching(u)}}
    \cup {<<t, "launch">> : t \in {u \in Thread : th[u].new = c /\ Launching(u)}}

(***************************************************************************)
(* ctx->ref counts exactly the holders, so the release that brings it to 0 *)
(* is the last one, and nobody grabs a context that is being deleted.      *)
(***************************************************************************)
RefExact == \A c \in born : /\ ref[c] = Cardinality(Holders(c))
                            /\ c \in freed => ref[c] = 0

(***************************************************************************)
(* No thread touches a context after it is freed, or a mailbox after       *)
(* _release: whoever is about to read or write a context holds a reference *)
(* to it, and whoever holds a mailbox keeps it; REMOTE, which a send to    *)
(* another node reads with no reference, is not freed while threads run,   *)
(* even when the harbor service has been killed.  The one exception is a   *)
(* launch after it gave up its reference: it still sets ctx->init and      *)
(* reads inst->handle, safe only while nobody retires the new service.     *)
(***************************************************************************)
NoUseAfterFree ==
    /\ \A t \in Thread :
          /\ th[t].pc \in {"push", "release", "mark", "delete"} => th[t].obj \notin freed
          /\ th[t].pc \in {"pop_first", "pop", "length", "callback", "init", "end", "push_back"}
                 => Self(t) \notin freed
          /\ th[t].pc \in {"set_init", "launched"} /\ th[t].new \in registered
                 => th[t].new \notin freed
          /\ Held(t) \cap qfreed = {}
          /\ th[t].pc \in {"push", "mark"} => th[t].obj \notin qfreed
    /\ \A i \in DOMAIN gq : gq[i] \notin qfreed
    /\ remote \notin freed \cup qfreed

(***************************************************************************)
(* assert(ctx->init) of dispatch_message, and assert(q->release == 0) of   *)
(* skynet_mq_mark_release: the init function of a service is over before   *)
(* its first message is dispatched, and a context is deleted once.         *)
(***************************************************************************)
DispatchAsserts ==
    \A t \in Thread :
        /\ At(t, "callback") => th[t].q \in ready
        /\ At(t, "mark") => th[t].obj \notin release

(***************************************************************************)
(* CHECK_ABORT stops the node when the total is 0.  It is 0 just when all  *)
(* contexts but those of the harbor service are freed; then no other       *)
(* service can be addressed any more, and no code of another is running.   *)
(***************************************************************************)
AbortIsSafe ==
    /\ total = 0 <=> born \ freed \subseteq reserved
    /\ total = 0 => /\ registered \subseteq reserved
                    /\ \A t \in Thread : th[t].pc \in UserCode => Self(t) \in reserved

(* The assertions that the process checks, and the end it decides on *)
AssertsHold == DispatchAsserts /\ AbortIsSafe

(* Every message is dispatched or dropped: each mailbox is drained again.  *)
(* That of a harbor service that has been retired is not: it is never      *)
(* released, so skynet_mq_release puts it back to the global queue for     *)
(* ever, and what other services send to other nodes is lost in it.        *)
EventuallyDrained ==
    \A c \in Ctx : mbox[c] # <<>> ~> (mbox[c] = <<>> \/ c \in reserved \ registered)

(***************************************************************************)
(* A retired service goes away: its context is freed, and its mailbox too, *)
(* however late another thread gives up the last reference.  Only a harbor *)
(* service stays, for skynet_harbor_exit.                                  *)
(***************************************************************************)
EventuallyFreed ==
    \A c \in Ctx : (c \in born /\ c \notin registered)
                      ~> ((c \in freed /\ c \in qfreed) \/ c \in reserved)

(* Nothing is forgotten: neither a message in a mailbox nor a retired service. *)
NothingForgotten == EventuallyDrained /\ EventuallyFreed
=============================================================================
