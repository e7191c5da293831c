------------------------------ MODULE Scheduler ------------------------------
(***************************************************************************)
(* The threads of a node (skynet_start.c): workers that sleep on a         *)
(* condition variable when the global queue is empty, the timer, socket    *)
(* and monitor threads, and how a node stops.                              *)
(*                                                                         *)
(* m->sleep and m->quit are written under the mutex and read without it;   *)
(* wakeup() signals without it.  A thread that pushes work as a worker     *)
(* wakes nobody: only the socket and the timer thread call wakeup().  The  *)
(* global queue is the number of mailboxes in it (module Dispatch is about *)
(* what is done with them).                                                *)
(***************************************************************************)
EXTENDS Integers, FiniteSets

CONSTANTS Worker,       \* thread_worker, m->count of them
          Free,         \* the owner of a free mutex
          Services,     \* services alive when the threads start
          MaxJobs       \* bound: mailboxes that are scheduled in a behaviour

ASSUME SchedulerAssumption == /\ IsFiniteSet(Worker) /\ Free \notin Worker
                              /\ Worker \cap {"timer", "socket", "monitor", "main"} = {}
                              /\ Services \in Nat /\ MaxJobs \in Nat

VARIABLES work,         \* mailboxes in the global queue
          jobs,         \* mailboxes scheduled so far
          total,        \* skynet_context_total()
          sleep, quit,  \* m->sleep and m->quit
          mutex,        \* the worker that owns m->mutex, or Free
          waiting,      \* the workers blocked in pthread_cond_wait
          sigint,       \* SIG_INT
          stop,         \* skynet_socket_exit has queued its command
          pc            \* the workers, "timer", "socket", "monitor" and "main"

vars == <<work, jobs, total, sleep, quit, mutex, waiting, sigint, stop, pc>>

Threads == Worker \cup {"timer", "socket", "monitor"}
Count == Cardinality(Worker)

At(t, l) == pc[t] = l
Goto(t, l) == pc' = [pc EXCEPT ![t] = l]

(* start *)
Init == /\ work \in 0 .. MaxJobs /\ jobs = work
        /\ total = Services
        /\ sleep = 0 /\ quit = FALSE
        /\ mutex = Free /\ waiting = {}
        /\ sigint = FALSE /\ stop = FALSE
        /\ pc = [t \in Threads \cup {"main"} |->
                    IF t \in Worker THEN "while"
                    ELSE IF t = "timer" THEN "update"
                    ELSE IF t = "socket" THEN "poll"
                    ELSE IF t = "monitor" THEN "check" ELSE "join"]

CheckAbort == total = 0 \/ quit

(* Some mailbox is scheduled by what the thread does, or none. *)
MaySchedule == \E k \in {0, 1} : jobs + k <= MaxJobs /\ jobs' = jobs + k /\ work' = work + k

-----------------------------------------------------------------------------
(* thread_worker *)

While(t) ==
    /\ At(t, "while")
    /\ Goto(t, IF quit THEN "end" ELSE "dispatch")
    /\ UNCHANGED <<work, jobs, total, sleep, quit, mutex, waiting, sigint, stop>>

(* skynet_context_message_dispatch runs a mailbox: it may schedule another *)
(* one, and a service may end.                                             *)
Dispatch(t) ==
    /\ At(t, "dispatch") /\ work > 0
    /\ \E k \in {0, 1} : /\ jobs + k <= MaxJobs
                         /\ jobs' = jobs + k
                         /\ work' = work - 1 + k
    /\ total' \in {total, total - 1} \cap Nat
    /\ Goto(t, "while")
    /\ UNCHANGED <<sleep, quit, mutex, waiting, sigint, stop>>

(* ... or returns NULL. *)
DispatchNothing(t) ==
    /\ At(t, "dispatch") /\ work = 0
    /\ Goto(t, "lock")
    /\ UNCHANGED <<work, jobs, total, sleep, quit, mutex, waiting, sigint, stop>>

(* pthread_mutex_lock; ++ m->sleep *)
Lock(t) ==
    /\ At(t, "lock") /\ mutex = Free
    /\ mutex' = t
    /\ sleep' = sleep + 1
    /\ Goto(t, "sleep")
    /\ UNCHANGED <<work, jobs, total, quit, waiting, sigint, stop>>

(* if (!m->quit), with the mutex *)
TestQuit(t) ==
    /\ At(t, "sleep")
    /\ Goto(t, IF quit THEN "wake" ELSE "wait")
    /\ UNCHANGED <<work, jobs, total, sleep, quit, mutex, waiting, sigint, stop>>

(* pthread_cond_wait gives up the mutex. *)
Wait(t) ==
    /\ At(t, "wait")
    /\ waiting' = waiting \cup {t}
    /\ mutex' = Free
    /\ Goto(t, "waiting")
    /\ UNCHANGED <<work, jobs, total, sleep, quit, sigint, stop>>

(* "spurious wakeup" is harmless *)
Spurious(t) ==
    /\ t \in waiting
    /\ waiting' = waiting \ {t}
    /\ UNCHANGED <<work, jobs, total, sleep, quit, mutex, sigint, stop, pc>>

(* pthread_cond_wait takes the mutex again before it returns. *)
Relock(t) ==
    /\ At(t, "waiting") /\ t \notin waiting /\ mutex = Free
    /\ mutex' = t
    /\ Goto(t, "wake")
    /\ UNCHANGED <<work, jobs, total, sleep, quit, waiting, sigint, stop>>

(* Mutant: a woken worker stays counted as asleep. *)
UnlockAsleep(t) ==
    /\ At(t, "wake")
    /\ mutex' = Free
    /\ Goto(t, "while")
    /\ UNCHANGED <<work, jobs, total, sleep, quit, waiting, sigint, stop>>

(* -- m->sleep; pthread_mutex_unlock *)
Unlock(t) ==
    /\ At(t, "wake")
    /\ sleep' = sleep - 1
    /\ mutex' = Free
    /\ Goto(t, "while")
    /\ UNCHANGED <<work, jobs, total, quit, waiting, sigint, stop>>

-----------------------------------------------------------------------------
(* wakeup: the test of m->sleep, and pthread_cond_signal *)
WakeupTest(t, busy, after) ==
    /\ At(t, "wakeup")
    /\ Goto(t, IF sleep >= Count - busy THEN "signal" ELSE after)
    /\ UNCHANGED <<work, jobs, total, sleep, quit, mutex, waiting, sigint, stop>>

WakeupSignal(t, after) ==
    /\ At(t, "signal")
    /\ IF waiting = {} THEN UNCHANGED waiting
       ELSE \E w \in waiting : waiting' = waiting \ {w}
    /\ Goto(t, after)
    /\ UNCHANGED <<work, jobs, total, sleep, quit, mutex, sigint, stop>>

(* thread_socket: events bring messages; -1 makes it look at CHECK_ABORT. *)
Poll ==
    /\ At("socket", "poll")
    /\ \/ jobs < MaxJobs /\ jobs' = jobs + 1 /\ work' = work + 1 /\ Goto("socket", "wakeup")
       \/ Goto("socket", IF CheckAbort THEN "end" ELSE "poll") /\ UNCHANGED <<jobs, work>>
    /\ UNCHANGED <<total, sleep, quit, mutex, waiting, sigint, stop>>

(* The command of skynet_socket_exit: skynet_socket_poll returns 0. *)
PollExit ==
    /\ At("socket", "poll") /\ stop
    /\ Goto("socket", "end")
    /\ UNCHANGED <<work, jobs, total, sleep, quit, mutex, waiting, sigint, stop>>

(* wakeup(m,0): only when every worker sleeps *)
SocketWakeup == WakeupTest("socket", 0, "poll") \/ WakeupSignal("socket", "poll")

-----------------------------------------------------------------------------
(* thread_timer *)

(* skynet_updatetime delivers timers; then CHECK_ABORT. *)
Update ==
    /\ At("timer", "update")
    /\ MaySchedule
    /\ Goto("timer", IF CheckAbort THEN "exit" ELSE "wakeup")
    /\ UNCHANGED <<total, sleep, quit, mutex, waiting, sigint, stop>>

(* Mutant: the timer thread leaves the wakeup to the socket thread. *)
TimerNoWakeup ==
    /\ At("timer", "wakeup")
    /\ Goto("timer", "usleep")
    /\ UNCHANGED <<work, jobs, total, sleep, quit, mutex, waiting, sigint, stop>>

(* wakeup(m, m->count - 1): whenever a worker sleeps *)
TimerWakeup == WakeupTest("timer", Count - 1, "usleep") \/ WakeupSignal("timer", "usleep")

(* usleep(2500), then the signals: SIGHUP sends a message to the logger. *)
Usleep ==
    /\ At("timer", "usleep")
    /\ MaySchedule
    /\ sigint' = FALSE
    /\ Goto("timer", IF sigint THEN "exit" ELSE "update")
    /\ UNCHANGED <<total, sleep, quit, mutex, waiting, stop>>

SocketExit ==
    /\ At("timer", "exit")
    /\ stop' = TRUE
    /\ Goto("timer", "quit")
    /\ UNCHANGED <<work, jobs, total, sleep, quit, mutex, waiting, sigint>>

(* Under the mutex: m->quit = 1 and pthread_cond_broadcast *)
Quit ==
    /\ At("timer", "quit") /\ mutex = Free
    /\ quit' = TRUE
    /\ waiting' = {}
    /\ Goto("timer", "end")
    /\ UNCHANGED <<work, jobs, total, sleep, mutex, sigint, stop>>

(* thread_monitor *)
MonitorCheck ==
    /\ At("monitor", "check")
    /\ Goto("monitor", IF CheckAbort THEN "end" ELSE "check")
    /\ UNCHANGED <<work, jobs, total, sleep, quit, mutex, waiting, sigint, stop>>

(* start: pthread_join of every thread, then the node is torn down. *)
Join ==
    /\ At("main", "join")
    /\ \A t \in Threads : At(t, "end")
    /\ Goto("main", "freed")
    /\ UNCHANGED <<work, jobs, total, sleep, quit, mutex, waiting, sigint, stop>>

(* handle_int, at any time *)
SigInt ==
    /\ ~sigint /\ pc["timer"] \in {"update", "wakeup", "signal", "usleep"}
    /\ sigint' = TRUE
    /\ UNCHANGED <<work, jobs, total, sleep, quit, mutex, waiting, stop, pc>>

(* Steps that need the mutex, and the others *)
Acquire(t) == Lock(t) \/ Relock(t)
Run(t) == While(t) \/ Dispatch(t) \/ DispatchNothing(t) \/ TestQuit(t) \/ Wait(t) \/ Unlock(t)
TimerRun == Update \/ TimerWakeup \/ Usleep \/ SocketExit

Next == \/ \E t \in Worker : Acquire(t) \/ Run(t) \/ Spurious(t)
        \/ Poll \/ PollExit \/ SocketWakeup
        \/ TimerRun \/ Quit
        \/ MonitorCheck \/ Join \/ SigInt

(***************************************************************************)
(* Every thread keeps running; a thread that asks for the mutex gets it in *)
(* the end (its owners hold it for a few instructions); the socket thread  *)
(* handles a queued command.  No event, signal or spurious wakeup is sure. *)
(***************************************************************************)
Fairness == /\ \A t \in Worker : WF_vars(Run(t)) /\ SF_vars(Acquire(t))
            /\ WF_vars(TimerRun) /\ SF_vars(Quit)
            /\ WF_vars(SocketWakeup) /\ SF_vars(PollExit)
            /\ WF_vars(MonitorCheck) /\ WF_vars(Join)

Spec == Init /\ [][Next]_vars /\ Fairness

-----------------------------------------------------------------------------
(* No more workers are asleep than there are, and no count goes below 0.   *)
TypeOK == /\ work \in 0 .. MaxJobs /\ total \in 0 .. Services
          /\ sleep \in 0 .. Count
          /\ waiting \subseteq Worker
          /\ mutex \in Worker \cup {Free}

(***************************************************************************)
(* m->sleep is the number of workers that are about to wait, wait, or have *)
(* been woken and not yet left: what wakeup() compares with m->count.      *)
(***************************************************************************)
SleepExact == sleep = Cardinality({t \in Worker : pc[t] \in {"sleep", "wait", "waiting", "wake"}})

(***************************************************************************)
(* Nobody sleeps through the end: once quit is set no worker is blocked in *)
(* pthread_cond_wait, because quit is set and tested under the mutex.      *)
(***************************************************************************)
QuitWakesAll == quit => waiting = {}

(* The counts are in range, that of the sleepers is exact, and none of     *)
(* them outlasts the broadcast of quit.                                    *)
SleepInv == TypeOK /\ SleepExact /\ QuitWakesAll

(***************************************************************************)
(* A signal that comes between a failed dispatch and the wait is lost, but *)
(* the timer thread signals again: scheduled work does not wait for ever.  *)
(***************************************************************************)
WorkIsTaken == work > 0 ~> (work = 0 \/ quit)

(* When the last service has ended, or SIGINT came, every thread ends.     *)
NodeStops == (total = 0 \/ sigint) ~> At("main", "freed")

(* The wakeups that can be lost hold up neither the work nor the end of a node. *)
NobodyStuck == WorkIsTaken /\ NodeStops
=============================================================================
