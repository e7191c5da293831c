----------------------------------- MODULE Stm -----------------------------------
(***************************************************************************)
(* Software transactional memory between services (lua-stm.c): a writer    *)
(* owns an object, whose readers take copies of its present value.  The    *)
(* object and its copies are counted by hand, under a reader-writer lock   *)
(* that lies in the object itself.                                         *)
(*                                                                         *)
(* Every service is on a thread of its own; an action is what it does in   *)
(* one piece inside or outside the lock.  The lock is the one of module    *)
(* RWLock, taken as its promise: readers share it, a writer is alone.      *)
(***************************************************************************)
EXTENDS Integers, FiniteSets

CONSTANTS Reader,       \* services that read
          Writer,       \* the service that writes
          MaxUpdate,    \* bound: values
          MaxRead       \* bound: reads of all readers

ASSUME StmAssumption ==
    IsFiniteSet(Reader) /\ Writer \notin Reader /\ MaxUpdate \in Nat /\ MaxRead \in Nat

Service == Reader \cup {Writer}
Copy == 1 .. MaxUpdate + 1
Nil == 0

VARIABLES freed,        \* the object was given to skynet_free
          reference,    \* obj->reference
          copy,         \* obj->copy
          refs,         \* copy->reference of each, -1 before it is made
          dead,         \* the copies that were given to skynet_free
          read, write,  \* the lock: readers in it, a writer in it
          place, tmp,   \* place in the function and the copy at hand of each service
          box,          \* a reader's box: "none", "promised" or "sent" (its pointer), "open", "gone"
          last,         \* box->lastcopy
          reads,        \* reads so far
          fault         \* history: the places that touched the object after it was freed

stmVars == <<freed, reference, copy, refs, dead, read, write, place, tmp, box, last, reads, fault>>
object == <<freed, reference, copy>>
copies == <<refs, dead>>
readers == <<box, last, reads>>

StmInit ==
    /\ freed = FALSE /\ reference = 1 /\ copy = 1
    /\ refs = [c \in Copy |-> IF c = 1 THEN 1 ELSE -1] /\ dead = {}
    /\ read = 0 /\ write = FALSE
    /\ place = [s \in Service |-> "idle"] /\ tmp = [s \in Service |-> Nil]
    /\ box = [r \in Reader |-> "none"] /\ last = [r \in Reader |-> Nil]
    /\ reads = 0 /\ fault = {}

At(s, p) == place[s] = p
Goto(s, p) == place' = [place EXCEPT ![s] = p]

(* Service s touches the object. *)
Touch(s) == fault' = IF freed THEN fault \cup {place[s]} ELSE fault

(* stm_releasecopy, of a copy or of NULL *)
ReleaseCopy(c) ==
    IF c = Nil THEN UNCHANGED copies
    ELSE /\ refs' = [refs EXCEPT ![c] = @ - 1]
         /\ dead' = IF refs[c] = 1 THEN dead \cup {c} ELSE dead

-----------------------------------------------------------------------------
(* rwlock_rlock and rwlock_runlock, in stm_grab, stm_copy and stm_releasereader *)

ReadLock(s) ==
    /\ ~write
    /\ \/ At(s, "grab") /\ Goto(s, "grabbing")
       \/ At(s, "copy") /\ Goto(s, "copying")
       \/ At(s, "release") /\ Goto(s, "releasing")
    /\ read' = read + 1 /\ Touch(s)
    /\ UNCHANGED <<object, copies, write, tmp, readers>>

ReadUnlock(s) ==
    /\ \/ At(s, "grabbed") /\ Goto(s, "idle")
          /\ box' = [r \in Reader |-> IF box[r] = "promised" THEN "sent" ELSE box[r]]
       \/ At(s, "copied") /\ Goto(s, "compare") /\ UNCHANGED box
       \/ At(s, "left") /\ Goto(s, "drop") /\ UNCHANGED box
    /\ read' = read - 1 /\ Touch(s)
    /\ UNCHANGED <<object, copies, write, tmp, last, reads>>

(* rwlock_wlock, in stm_update and stm_release *)
WriteLock ==
    /\ ~write /\ read = 0
    /\ \/ At(Writer, "update") /\ Goto(Writer, "swap")
       \/ At(Writer, "delete") /\ Goto(Writer, "deleting")
    /\ write' = TRUE /\ Touch(Writer)
    /\ UNCHANGED <<object, copies, read, tmp, readers>>

-----------------------------------------------------------------------------
(* The writer *)

(* lcopy: a reference for reader r, which gets the pointer in a message *)
Share == /\ At(Writer, "idle") /\ (\E r \in Reader : box[r] = "none") /\ Goto(Writer, "grab")
         /\ UNCHANGED <<object, copies, read, write, tmp, readers, fault>>
Grab(r) ==
    /\ At(Writer, "grabbing") /\ Goto(Writer, "grabbed")
    /\ box[r] = "none" /\ box' = [box EXCEPT ![r] = "promised"]
    /\ reference' = reference + 1 /\ Touch(Writer)
    /\ UNCHANGED <<freed, copy, copies, read, write, tmp, last, reads>>

(* lupdate, with stm_newcopy; stm_update *)
Update ==
    /\ At(Writer, "idle") /\ Goto(Writer, "update")
    /\ \E c \in Copy :
          /\ refs[c] = -1 /\ \A d \in Copy : d < c => refs[d] # -1
          /\ refs' = [refs EXCEPT ![c] = 1] /\ tmp' = [tmp EXCEPT ![Writer] = c]
    /\ UNCHANGED <<object, dead, read, write, readers, fault>>
Swap ==
    /\ At(Writer, "swap") /\ Goto(Writer, "updated")
    /\ copy' = tmp[Writer] /\ tmp' = [tmp EXCEPT ![Writer] = copy]
    /\ write' = FALSE /\ Touch(Writer)
    /\ UNCHANGED <<freed, reference, copies, read, readers>>
Updated ==
    /\ At(Writer, "updated") /\ Goto(Writer, "idle")
    /\ ReleaseCopy(tmp[Writer]) /\ tmp' = [tmp EXCEPT ![Writer] = Nil]
    /\ UNCHANGED <<object, read, write, readers, fault>>

(* ldeletewriter, stm_release *)
Delete == /\ At(Writer, "idle") /\ Goto(Writer, "delete")
          /\ UNCHANGED <<object, copies, read, write, tmp, readers, fault>>
Deleting ==
    /\ At(Writer, "deleting") /\ Goto(Writer, "gone")
    /\ ReleaseCopy(copy) /\ copy' = Nil
    /\ reference' = reference - 1
    /\ IF reference = 1 THEN freed' = TRUE /\ UNCHANGED write ELSE write' = FALSE /\ UNCHANGED freed
    /\ Touch(Writer)
    /\ UNCHANGED <<read, tmp, readers>>

-----------------------------------------------------------------------------
(* A reader *)

(* lnewreader, with the pointer that the writer has sent *)
NewReader(r) ==
    /\ box[r] = "sent"
    /\ box' = [box EXCEPT ![r] = "open"]
    /\ UNCHANGED <<object, copies, read, write, place, tmp, last, reads, fault>>

(* lread: stm_copy, and what is done with the copy *)
Read(r) == /\ box[r] = "open" /\ At(r, "idle") /\ reads < MaxRead
           /\ Goto(r, "copy") /\ reads' = reads + 1
           /\ UNCHANGED <<object, copies, read, write, tmp, box, last, fault>>
Copying(r) ==
    /\ At(r, "copying") /\ Goto(r, "copied")
    /\ tmp' = [tmp EXCEPT ![r] = copy]
    /\ refs' = IF copy = Nil THEN refs ELSE [refs EXCEPT ![copy] = @ + 1]
    /\ Touch(r)
    /\ UNCHANGED <<object, dead, read, write, readers>>
Compare(r) ==
    /\ At(r, "compare") /\ Goto(r, "idle")
    /\ IF tmp[r] = last[r] THEN ReleaseCopy(tmp[r]) /\ UNCHANGED last
       ELSE ReleaseCopy(last[r]) /\ last' = [last EXCEPT ![r] = tmp[r]]
    /\ tmp' = [tmp EXCEPT ![r] = Nil]
    /\ UNCHANGED <<object, read, write, box, reads, fault>>

(* ldeletereader: stm_releasereader, then stm_releasecopy *)
Close(r) == /\ box[r] = "open" /\ At(r, "idle")
            /\ Goto(r, "release") /\ box' = [box EXCEPT ![r] = "gone"]
            /\ UNCHANGED <<object, copies, read, write, tmp, last, reads, fault>>

(* Mutant: the last reader is thought to be the one that leaves 1. *)
ReleasingEarly(r) ==
    /\ At(r, "releasing")
    /\ reference' = reference - 1 /\ Touch(r)
    /\ IF reference = 2 THEN freed' = TRUE /\ Goto(r, "drop") ELSE Goto(r, "left") /\ UNCHANGED freed
    /\ UNCHANGED <<copy, copies, read, write, tmp, readers>>

Releasing(r) ==
    /\ At(r, "releasing")
    /\ reference' = reference - 1 /\ Touch(r)
    /\ IF reference = 1 THEN freed' = TRUE /\ Goto(r, "drop") ELSE Goto(r, "left") /\ UNCHANGED freed
    /\ UNCHANGED <<copy, copies, read, write, tmp, readers>>
Drop(r) ==
    /\ At(r, "drop") /\ Goto(r, "gone")
    /\ ReleaseCopy(last[r]) /\ last' = [last EXCEPT ![r] = Nil]
    /\ UNCHANGED <<object, read, write, tmp, box, reads, fault>>

StmNext ==
    \/ \E s \in Service : ReadLock(s) \/ ReadUnlock(s)
    \/ WriteLock \/ Share \/ Update \/ Swap \/ Updated \/ Delete \/ Deleting
    \/ \E r \in Reader : \/ Grab(r) \/ NewReader(r) \/ Read(r) \/ Copying(r) \/ Compare(r)
                         \/ Close(r) \/ Releasing(r) \/ Drop(r)

StmSpec == StmInit /\ [][StmNext]_stmVars

-----------------------------------------------------------------------------
(* The writer owns a reference until stm_release, and each reader from     *)
(* stm_grab to stm_releasereader.                                          *)
Owners == (IF At(Writer, "gone") THEN {} ELSE {Writer})
          \cup {r \in Reader : box[r] \in {"promised", "sent", "open"} \/ place[r] \in {"release", "releasing"}}

(* The references to copy c *)
Holds(c) == Cardinality({r \in Reader : last[r] = c}) + Cardinality({s \in Service : tmp[s] = c})
            + IF copy = c THEN 1 ELSE 0

(***************************************************************************)
(* The counts of the object and of its copies are exact, though they are   *)
(* changed under the shared lock and outside of it; the last owner frees   *)
(* the object, which has no copy any more, and the last one who can read   *)
(* it frees a copy.                                                        *)
(***************************************************************************)
CountsExact ==
    /\ reference = Cardinality(Owners)
    /\ freed <=> Owners = {}
    /\ freed \/ At(Writer, "gone") => copy = Nil
    /\ \A c \in Copy : refs[c] # -1 => refs[c] = Holds(c) /\ (c \in dead <=> Holds(c) = 0)

(***************************************************************************)
(* The object is not touched when it was freed, except by a reader that    *)
(* gives back the shared lock after another one was the last (see          *)
(* NobodyInside).                                                          *)
(***************************************************************************)
StmInv == CountsExact /\ fault \subseteq {"left"}

(* "last reader, no writer. so no need to unlock" (line 77): nobody is in  *)
(* the lock when the object is freed.                                      *)
NobodyInside == freed => \A r \in Reader : place[r] # "left"
=============================================================================
