------------------------------- MODULE RWLock -------------------------------
(***************************************************************************)
(* The spinning readers-writer lock of skynet-src/rwlock.h, which guards   *)
(* the handle storage of a skynet node.  The lock is two words:            *)
(*                                                                         *)
(*   write   set by the thread that owns, or is about to own, the write    *)
(*           side (a test-and-set);                                        *)
(*   read    the number of threads that own, or are trying, the read side. *)
(*                                                                         *)
(* Every atomic instruction and every test of a word is a step of its own, *)
(* so the two threads of a race meet in every order.  A spin of a while    *)
(* loop that finds its condition unchanged leaves the state alone and is a *)
(* stuttering step.                                                        *)
(***************************************************************************)
EXTENDS Naturals, FiniteSets

CONSTANT Thread     \* the threads that use the lock

ASSUME ThreadFinite == IsFiniteSet(Thread)

VARIABLES write,    \* lock->write is set
          read,     \* lock->read
          pc        \* where each thread is in the functions of rwlock.h

vars == <<write, read, pc>>

(***************************************************************************)
(* idle      outside the lock                                              *)
(* rinc      rlock: seen write clear, about to increment read              *)
(* rcheck    rlock: has incremented read, about to test write again        *)
(* rback     rlock: write was set meanwhile, about to decrement read       *)
(* rheld     between rwlock_rlock and rwlock_runlock                       *)
(* rspin     rlock: spinning while write is set                            *)
(* wspin     wlock: spinning on the test-and-set                           *)
(* wdrain    wlock: owns write, spinning until read is 0                   *)
(* wheld     between rwlock_wlock and rwlock_wunlock                       *)
(***************************************************************************)
Location == {"idle", "rspin", "rinc", "rcheck", "rback", "rheld",
             "wspin", "wdrain", "wheld"}

Goto(t, from, to) == pc[t] = from /\ pc' = [pc EXCEPT ![t] = to]

(* rwlock_init *)
Init == /\ write = FALSE
        /\ read = 0
        /\ pc = [t \in Thread |-> "idle"]

(* A thread decides to take one side of the lock. *)
CallRlock(t) == Goto(t, "idle", "rspin") /\ UNCHANGED <<write, read>>
CallWlock(t) == Goto(t, "idle", "wspin") /\ UNCHANGED <<write, read>>

(* Mutant: readers do not wait for the writer to go. *)
RlockSeesAny(t) == Goto(t, "rspin", "rinc") /\ UNCHANGED <<write, read>>

(* rwlock_rlock: leave "while(lock->write)" when it reads a clear word. *)
RlockSeesClear(t) == /\ Goto(t, "rspin", "rinc")
                     /\ ~write
                     /\ UNCHANGED <<write, read>>

(* rwlock_rlock: the atomic increment of read. *)
RlockInc(t) == /\ Goto(t, "rinc", "rcheck")
               /\ read' = read + 1
               /\ UNCHANGED write

(* rwlock_rlock: the second test of write decides between break and retry. *)
RlockEnter(t) == Goto(t, "rcheck", "rheld") /\ ~write /\ UNCHANGED <<write, read>>
RlockBackOff(t) == Goto(t, "rcheck", "rback") /\ write /\ UNCHANGED <<write, read>>

(* rwlock_rlock: take the increment back and start over. *)
RlockRetry(t) == /\ Goto(t, "rback", "rspin")
                 /\ read' = read - 1
                 /\ UNCHANGED write

Runlock(t) == /\ Goto(t, "rheld", "idle")
              /\ read' = read - 1
              /\ UNCHANGED write

(* rwlock_wlock: the test-and-set that finds the word clear. *)
WlockSet(t) == /\ Goto(t, "wspin", "wdrain")
               /\ ~write
               /\ write' = TRUE
               /\ UNCHANGED read

(* Mutant: the writer does not wait for the readers. *)
WlockUndrained(t) == Goto(t, "wdrain", "wheld") /\ UNCHANGED <<write, read>>

(* rwlock_wlock: leave "while(lock->read)" when no reader is counted. *)
WlockDrained(t) == /\ Goto(t, "wdrain", "wheld")
                   /\ read = 0
                   /\ UNCHANGED <<write, read>>

Wunlock(t) == /\ Goto(t, "wheld", "idle")
              /\ write' = FALSE
              /\ UNCHANGED read

Rlock(t) == \/ RlockSeesClear(t) \/ RlockInc(t) \/ RlockEnter(t)
            \/ RlockBackOff(t) \/ RlockRetry(t)

Wlock(t) == WlockSet(t) \/ WlockDrained(t)

Step(t) == \/ CallRlock(t) \/ Rlock(t) \/ Runlock(t)
           \/ CallWlock(t) \/ Wlock(t) \/ Wunlock(t)

Next == \E t \in Thread : Step(t)

(***************************************************************************)
(* A thread inside a lock function keeps running (the functions only spin  *)
(* and the critical sections of skynet_handle.c are loop-bounded), but no  *)
(* thread is obliged to ask for the lock.                                  *)
(***************************************************************************)
Fairness == \A t \in Thread :
               WF_vars(Rlock(t) \/ Runlock(t) \/ Wlock(t) \/ Wunlock(t))

Spec == Init /\ [][Next]_vars /\ Fairness

-----------------------------------------------------------------------------
(* The words of the lock and the program counters have their types. *)
TypeOK == /\ write \in BOOLEAN
          /\ read \in Nat
          /\ pc \in [Thread -> Location]

(* The threads that a reader's increment of read stands for. *)
Counted == {t \in Thread : pc[t] \in {"rcheck", "rback", "rheld"}}

(* The threads that own the write word. *)
Writing == {t \in Thread : pc[t] \in {"wdrain", "wheld"}}

(***************************************************************************)
(* What the handle storage relies on: rwlock_wlock returns to at most one  *)
(* thread, and never while another thread is between rwlock_rlock and      *)
(* rwlock_runlock.                                                         *)
(***************************************************************************)
MutualExclusion ==
    \A t \in Thread : pc[t] = "wheld" =>
        \A u \in Thread \ {t} : pc[u] \notin {"wheld", "rheld"}

(***************************************************************************)
(* The inductive form of MutualExclusion: read counts exactly the threads  *)
(* that have incremented it, write is set exactly while one thread owns    *)
(* it, and a drained writer has seen the count of entered readers at 0.    *)
(***************************************************************************)
LockInv == /\ TypeOK
           /\ read = Cardinality(Counted)
           /\ write <=> Writing # {}
           /\ \A t, u \in Writing : t = u
           /\ \A t \in Thread : pc[t] = "wheld" =>
                  \A u \in Thread : pc[u] # "rheld"

(***************************************************************************)
(* rwlock.h is writer-preferring: once a thread has won the test-and-set,  *)
(* rwlock_wlock returns to it, however many readers keep coming, because a *)
(* reader that finds write set takes its increment back and spins.         *)
(***************************************************************************)
WriterEnters == \A t \in Thread : pc[t] = "wdrain" ~> pc[t] = "wheld"
=============================================================================
