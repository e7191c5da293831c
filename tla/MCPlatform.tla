------------------------------- MODULE MCPlatform -------------------------------
(***************************************************************************)
(* What a node on Windows stands on, for TLC: the lock of RWLock, the      *)
(* epoll port of Wepoll and the red-black tree of Tree.  They share no     *)
(* state; each behaviour is one of the part that was chosen at its start.  *)
(***************************************************************************)
EXTENDS RWLock, Wepoll

CONSTANT Key

VARIABLES part, tree, stored

T == INSTANCE Tree

treeVars == <<tree, stored>>

PlatformInit == part \in {"lock", "poll", "tree"} /\ Init /\ PollInit /\ T!Init

PlatformNext == \/ part = "lock" /\ Next /\ UNCHANGED <<part, pollVars, treeVars>>
                \/ part = "poll" /\ PollNext /\ UNCHANGED <<part, vars, treeVars>>
                \/ part = "tree" /\ T!Next /\ UNCHANGED <<part, vars, pollVars>>

(* The fairness of RWLock and of Wepoll *)
PlatformSpec ==
    /\ PlatformInit /\ [][PlatformNext]_<<part, vars, pollVars, treeVars>>
    /\ \A t \in Thread : WF_vars(part = "lock" /\ (Rlock(t) \/ Runlock(t) \/ Wlock(t) \/ Wunlock(t)))
    /\ \A t \in Waiter : WF_pollVars(part = "poll" /\ WaitStep(t))
    /\ \A r \in 1 .. MaxReg : WF_pollVars(part = "poll" /\ Complete(r))

(***************************************************************************)
(* After every sequence of tree_add and tree_del the tree is a balanced    *)
(* red-black tree of what is in it (TreeInv of Tree).                      *)
(***************************************************************************)
TreeInv == T!TreeInv
=============================================================================
