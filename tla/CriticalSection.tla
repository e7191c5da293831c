----------------------------- MODULE CriticalSection -----------------------------
(***************************************************************************)
(* The queue of a critical section (queue.lua): cs(f) runs f when no other *)
(* coroutine of the service is inside a call of the same cs, and at once   *)
(* when the caller is.  Coroutines are preempted only where they wait, so  *)
(* an action is what a coroutine does between two such places; f may wait  *)
(* anywhere, call cs again, or raise an error, which leaves like a return. *)
(***************************************************************************)
EXTENDS Naturals, Sequences

CONSTANTS Coroutine, NoThread,
          MaxDepth      \* bound: calls of cs inside each other

ASSUME NoThreadIsNone == NoThread \notin Coroutine

VARIABLES current_thread, ref,
          thread_queue,
          pc,           \* "out", "waiting", "woken" (on its way back from skynet.wait) or "in"
          depth         \* calls of cs that each coroutine is inside

vars == <<current_thread, ref, thread_queue, pc, depth>>

Init == /\ current_thread = NoThread /\ ref = 0 /\ thread_queue = <<>>
        /\ pc = [t \in Coroutine |-> "out"] /\ depth = [t \in Coroutine |-> 0]

(* The section starts, or is called again by the coroutine inside. *)
Begin(t) ==
    /\ current_thread' = t /\ ref' = ref + 1
    /\ pc' = [pc EXCEPT ![t] = "in"] /\ depth' = [depth EXCEPT ![t] = @ + 1]

Enter(t) ==
    /\ pc[t] \in {"out", "in"} /\ depth[t] < MaxDepth
    /\ current_thread \in {NoThread, t}
    /\ Begin(t) /\ UNCHANGED thread_queue

Wait(t) ==
    /\ pc[t] = "out" /\ current_thread \notin {NoThread, t}
    /\ thread_queue' = Append(thread_queue, t) /\ pc' = [pc EXCEPT ![t] = "waiting"]
    /\ UNCHANGED <<current_thread, ref, depth>>

(* Back from skynet.wait, where the code asserts that ref is 0 *)
Resume(t) ==
    /\ pc[t] = "woken"
    /\ Begin(t) /\ UNCHANGED thread_queue

(* Mutant: the next coroutine is woken, but the section is not yet its own. *)
LastUnclaimed(t) ==
    /\ ref' = 0
    /\ IF thread_queue = <<>>
       THEN current_thread' = NoThread /\ pc' = [pc EXCEPT ![t] = "out"] /\ UNCHANGED thread_queue
       ELSE /\ current_thread' = NoThread /\ thread_queue' = Tail(thread_queue)
            /\ pc' = [pc EXCEPT ![t] = "out", ![Head(thread_queue)] = "woken"]

(* xpcall_ret of the outermost call: the next one is named before it runs. *)
Last(t) ==
    /\ ref' = 0
    /\ IF thread_queue = <<>>
       THEN current_thread' = NoThread /\ pc' = [pc EXCEPT ![t] = "out"] /\ UNCHANGED thread_queue
       ELSE /\ current_thread' = Head(thread_queue) /\ thread_queue' = Tail(thread_queue)
            /\ pc' = [pc EXCEPT ![t] = "out", ![Head(thread_queue)] = "woken"]

Leave(t) ==
    /\ pc[t] = "in" /\ depth' = [depth EXCEPT ![t] = @ - 1]
    /\ IF ref = 1 THEN Last(t)
       ELSE ref' = ref - 1 /\ UNCHANGED <<current_thread, thread_queue, pc>>

Next == \E t \in Coroutine : Enter(t) \/ Wait(t) \/ Resume(t) \/ Leave(t)

Spec == Init /\ [][Next]_vars

-----------------------------------------------------------------------------
TypeOK ==
    /\ current_thread \in Coroutine \cup {NoThread} /\ ref \in Nat
    /\ thread_queue \in Seq(Coroutine)
    /\ pc \in [Coroutine -> {"out", "waiting", "woken", "in"}]
    /\ depth \in [Coroutine -> Nat]

Queued == {thread_queue[i] : i \in 1 .. Len(thread_queue)}

(* The section belongs to current_thread, from the moment it is woken. *)
Owned ==
    /\ \A t \in Coroutine : /\ depth[t] = IF t = current_thread THEN ref ELSE 0
                            /\ pc[t] = "in" <=> t = current_thread /\ ref > 0
                            /\ pc[t] = "woken" <=> t = current_thread /\ ref = 0
    /\ current_thread = NoThread => ref = 0 /\ thread_queue = <<>>

(* Whoever waits is in the queue, once. *)
Waiting ==
    /\ Queued = {t \in Coroutine : pc[t] = "waiting"}
    /\ \A i, j \in 1 .. Len(thread_queue) : thread_queue[i] = thread_queue[j] => i = j

QueueInv == TypeOK /\ Owned /\ Waiting

(***************************************************************************)
(* Two coroutines are never inside at once, however they nest and wait;    *)
(* one that comes back from skynet.wait finds ref = 0 and the section its  *)
(* own, as the code asserts; and somebody waits only while another one has *)
(* the section, who will wake the first in the queue.                      *)
(***************************************************************************)
SectionInv ==
    /\ \A t, u \in Coroutine : depth[t] > 0 /\ depth[u] > 0 => t = u
    /\ \A t \in Coroutine : pc[t] = "woken" => ref = 0 /\ current_thread = t
    /\ \A t \in Coroutine : pc[t] = "waiting" =>
          t \in Queued /\ \E u \in Coroutine : u = current_thread /\ pc[u] \in {"in", "woken"}
=============================================================================
