---------------------------- MODULE HandleStorage ----------------------------
(***************************************************************************)
(* The handle storage of a node (skynet_handle.c): a table of contexts     *)
(* hashed by handle that doubles when it is full, the handle counter that  *)
(* wraps at HANDLE_MASK, and the sorted table of local names.              *)
(*                                                                         *)
(* Each function body between the lock and unlock calls is one action      *)
(* (module RWLock is about the lock).  What happens outside the lock is a  *)
(* step of its own: skynet_context_new stores the handle in the context    *)
(* only after skynet_handle_register has published the context, and        *)
(* skynet_handle_retireall looks at one slot at a time.                    *)
(***************************************************************************)
EXTENDS Integers, Sequences, FiniteSets, TLC

CONSTANTS Ctx,              \* the contexts, used again after they are retired
          Nil,              \* NULL
          Launcher,         \* threads that call skynet_context_new
          DefaultSlotSize,  \* DEFAULT_SLOT_SIZE, 4 in the code: a power of two
          HandleMask,       \* HANDLE_MASK, 0xffffff in the code: a power of two, less 1
          NameCap,          \* the first name_cap, 2 in the code
          Name,             \* names, as numbers: strcmp is the order
          MaxNames,         \* bound: no more names than this at a time
          MaxIndex          \* bound: no registration once handle_index is above

ASSUME StorageAssumption ==
    /\ DefaultSlotSize \in Nat \ {0} /\ HandleMask \in Nat \ {0} /\ DefaultSlotSize <= HandleMask + 1
    /\ NameCap \in Nat \ {0} /\ Name \subseteq Nat /\ MaxNames \in Nat /\ MaxIndex \in Nat
    /\ Nil \notin Ctx \cup [ctx : Ctx, handle : 1 .. HandleMask]

VARIABLES
    slot_size, slot,    \* the table, a function on 0 .. slot_size - 1
    handle_index,
    handle,             \* ctx->handle, 0 until skynet_context_new has set it
    pending,            \* the context and handle a launcher has still to join, or Nil
    name, name_cap,     \* the name table, a sequence of [name, handle]
    ra,                 \* the state of skynet_handle_retireall
    crash,              \* what went wrong in skynet_handle_register: "no" when nothing
    raced               \* history: the table was doubled while a context in it had no handle

table == <<slot_size, slot, handle_index>>
handleVars == <<table, handle, pending, name, name_cap, ra, crash, raced>>

(* skynet_handle_init *)
HandleInit == /\ slot_size = DefaultSlotSize
              /\ slot = [i \in 0 .. slot_size - 1 |-> Nil]
              /\ handle_index = 1
              /\ handle = [c \in Ctx |-> 0]
              /\ pending = [t \in Launcher |-> Nil]
              /\ name = <<>>
              /\ name_cap = NameCap
              /\ ra = [pc |-> "idle", i |-> 0, n |-> 0, h |-> 0, start |-> {}]
              /\ crash = "no"
              /\ raced = FALSE

Registered == {slot[i] : i \in DOMAIN slot} \ {Nil}
Fresh == {c \in Ctx : c \notin Registered /\ \A t \in Launcher : pending[t] = Nil \/ pending[t].ctx # c}

-----------------------------------------------------------------------------
(* skynet_handle_register *)

(* Mutant: the scan does not skip 0. *)
ProbeZero(k) == (handle_index + k) % (HandleMask + 1)

(* The handle the scan looks at k steps after handle_index: 0 is reserved. *)
Probe(k) == ((handle_index + k - 1) % HandleMask) + 1

(* The steps of the scan that find a free slot of table s of size n. *)
Hits(s, n) == {k \in 0 .. n - 1 : s[Probe(k) % n] = Nil}

(* The context goes to the first free slot; its handle is still unknown to it. *)
Store(t, c, s, n) ==
    \E k \in Hits(s, n) :
        LET h == Probe(k)
        IN  /\ \A j \in Hits(s, n) : k <= j
            /\ slot' = [s EXCEPT ![h % n] = c]
            /\ slot_size' = n
            /\ handle_index' = h + 1
            /\ pending' = [pending EXCEPT ![t] = [ctx |-> c, handle |-> h]]
            /\ UNCHANGED crash

(* The doubled table: the contexts that hash to each slot by ctx->handle. *)
Rehash(n) ==
    [i \in 0 .. n - 1 |-> LET here == {c \in Registered : handle[c] % n = i}
                          IN  IF here = {} THEN Nil ELSE CHOOSE c \in here : TRUE]

(* What doubling to n slots does first: the three ways it ends the process. *)
GrowFails(n) ==
    CASE n - 1 > HandleMask                          -> "full"      \* the assert on HANDLE_MASK
      [] \E i \in DOMAIN slot : slot[i] = Nil         -> "null"      \* reads through a null slot
      [] \E c, d \in Registered : c # d /\ handle[c] % n = handle[d] % n
                                                     -> "collision" \* assert(new_slot[hash] == NULL)
      [] OTHER                                       -> "no"

Register(t) ==
    /\ crash = "no"
    /\ pending[t] = Nil
    /\ handle_index <= MaxIndex
    /\ \E c \in Fresh :
          /\ IF Hits(slot, slot_size) # {} THEN Store(t, c, slot, slot_size) /\ UNCHANGED raced
             ELSE LET n == 2 * slot_size
                  IN  /\ raced' = (raced \/ \E u \in Launcher : pending[u] # Nil)
                      /\ IF GrowFails(n) = "no" THEN Store(t, c, Rehash(n), n)
                         ELSE crash' = GrowFails(n) /\ UNCHANGED <<table, pending>>
    /\ UNCHANGED <<handle, name, name_cap, ra>>

(* skynet_context_new: ctx->handle = the handle that register returned *)
SetHandle(t) ==
    /\ crash = "no"
    /\ pending[t] # Nil
    /\ handle' = [handle EXCEPT ![pending[t].ctx] = pending[t].handle]
    /\ pending' = [pending EXCEPT ![t] = Nil]
    /\ UNCHANGED <<table, name, name_cap, ra, crash, raced>>

-----------------------------------------------------------------------------
(* skynet_handle_grab: the context found under a handle, or Nil *)
Grab(h) == LET c == slot[h % slot_size] IN IF c # Nil /\ handle[c] = h THEN c ELSE Nil

(* The context found under h leaves its slot, and is freed in the end. *)
ClearSlot(h) ==
    /\ slot' = [slot EXCEPT ![h % slot_size] = IF Grab(h) = Nil THEN @ ELSE Nil]
    /\ handle' = [c \in Ctx |-> IF c = Grab(h) THEN 0 ELSE handle[c]]
    /\ UNCHANGED <<slot_size, handle_index>>

(* The names of other handles than h, moved up in the loop of skynet_handle_retire. *)
NamesWithout(h) ==
    LET kept[i \in 0 .. Len(name)] ==
            IF i = 0 THEN <<>>
            ELSE IF name[i].handle = h THEN kept[i - 1] ELSE Append(kept[i - 1], name[i])
    IN  kept[Len(name)]

(* The locked part of skynet_handle_retire: the slot and all names of h go. *)
Clear(h) ==
    /\ ClearSlot(h)
    /\ name' = IF Grab(h) = Nil THEN name ELSE NamesWithout(h)

Retire(h) ==
    /\ crash = "no"
    /\ Clear(h)
    /\ ra' = [ra EXCEPT !.start = @ \ {h}]
    /\ UNCHANGED <<pending, name_cap, crash, raced>>

-----------------------------------------------------------------------------
(***************************************************************************)
(* skynet_handle_retireall: a pass reads the handle in each slot and       *)
(* retires it; passes go on until one retires nothing.  ra.start is the    *)
(* set of handles that could be grabbed when it last began a pass or       *)
(* retired a service, whichever came last, and were not retired since      *)
(* (history: a handle may be given again).                                 *)
(***************************************************************************)
Live == {h \in 1 .. HandleMask : Grab(h) # Nil}

RetireAll ==
    /\ crash = "no"
    /\ ra.pc \in {"idle", "done"}
    /\ ra' = [pc |-> "read", i |-> 0, n |-> 0, h |-> 0, start |-> Live]
    /\ UNCHANGED <<table, handle, pending, name, name_cap, crash, raced>>

(* One slot is read under the read lock. *)
RetireAllRead ==
    /\ crash = "no"
    /\ ra.pc = "read" /\ ra.i < slot_size
    /\ LET h == IF slot[ra.i] = Nil THEN 0 ELSE handle[slot[ra.i]]
       IN  ra' = IF h = 0 THEN [ra EXCEPT !.i = @ + 1] ELSE [ra EXCEPT !.pc = "retire", !.h = h]
    /\ UNCHANGED <<table, handle, pending, name, name_cap, crash, raced>>

RetireAllRetire ==
    /\ crash = "no"
    /\ ra.pc = "retire"
    /\ Clear(ra.h)
    /\ ra' = LET next == [ra EXCEPT !.pc = "read", !.i = @ + 1, !.h = 0]
             IN  IF Grab(ra.h) = Nil THEN next ELSE [next EXCEPT !.n = @ + 1, !.start = Live \ {ra.h}]
    /\ UNCHANGED <<pending, name_cap, crash, raced>>

(* Mutant: one full pass is taken for enough, whatever it retired. *)
RetireAllOnePass ==
    /\ crash = "no"
    /\ ra.pc = "read" /\ ra.i >= slot_size
    /\ ra' = [ra EXCEPT !.pc = "done", !.i = 0]
    /\ UNCHANGED <<table, handle, pending, name, name_cap, crash, raced>>

RetireAllPass ==
    /\ crash = "no"
    /\ ra.pc = "read" /\ ra.i >= slot_size
    /\ ra' = IF ra.n = 0 THEN [ra EXCEPT !.pc = "done", !.i = 0]
                         ELSE [pc |-> "read", i |-> 0, n |-> 0, h |-> 0, start |-> Live]
    /\ UNCHANGED <<table, handle, pending, name, name_cap, crash, raced>>

-----------------------------------------------------------------------------
(* The binary search of skynet_handle_findname and of _insert_name: the    *)
(* index of the name, or the index to insert it before, both from 0.       *)
Search(x) ==
    LET n == Len(name)
        find[r \in (0 .. n) \X (-1 .. n - 1)] ==
            IF r[1] > r[2] THEN [found |-> FALSE, at |-> r[1]]
            ELSE LET mid == (r[1] + r[2]) \div 2
                     y == name[mid + 1].name
                 IN  IF y = x THEN [found |-> TRUE, at |-> mid]
                     ELSE IF y < x THEN find[<<mid + 1, r[2]>>] ELSE find[<<r[1], mid - 1>>]
    IN  find[<<0, n - 1>>]

FindName(x) == LET r == Search(x) IN IF r.found THEN name[r.at + 1].handle ELSE 0

(* _insert_name_before, after the array is doubled if it is full *)
InsertBefore(x, h, before) ==
    name' = SubSeq(name, 1, before) \o <<[name |-> x, handle |-> h]>>
            \o SubSeq(name, before + 1, Len(name))

(* skynet_handle_namehandle: the first owner of a name keeps it. *)
NameHandle(x, h) ==
    /\ crash = "no"
    /\ ~Search(x).found
    /\ Len(name) < MaxNames
    /\ InsertBefore(x, h, Search(x).at)
    /\ name_cap' = IF Len(name) >= name_cap THEN 2 * name_cap ELSE name_cap
    /\ UNCHANGED <<table, handle, pending, ra, crash, raced>>

HandleNext == \/ \E t \in Launcher : Register(t) \/ SetHandle(t)
              \/ \E h \in Live : Retire(h)
              \/ RetireAll \/ RetireAllRead \/ RetireAllRetire \/ RetireAllPass
              \/ \E x \in Name, h \in 1 .. HandleMask : NameHandle(x, h)

HandleSpec == HandleInit /\ [][HandleNext]_handleVars

-----------------------------------------------------------------------------
(* The table is as large as slot_size says and no larger than HANDLE_MASK  *)
(* allows, handles are in range, and the names fit into their array.       *)
HandleTypeOK == /\ slot_size \in Nat \ {0} /\ slot_size <= HandleMask + 1
                /\ slot \in [0 .. slot_size - 1 -> Ctx \cup {Nil}]
                /\ handle_index \in 1 .. HandleMask + 1
                /\ handle \in [Ctx -> 0 .. HandleMask]
                /\ name \in Seq([name : Name, handle : 1 .. HandleMask])
                /\ Len(name) <= name_cap

(* The contexts whose handle a launcher has still to store. *)
Unset == {pending[t].ctx : t \in {u \in Launcher : pending[u] # Nil}}

(***************************************************************************)
(* A registered service is found under its handle, whatever doublings and  *)
(* retirements came between, and its handle is not 0.                      *)
(***************************************************************************)
Reachable == \A c \in Registered \ Unset : handle[c] # 0 /\ Grab(handle[c]) = c

(* No two registered contexts have or are about to get the same handle.    *)
UniqueHandles ==
    LET h(c) == IF c \in Unset
                THEN (CHOOSE p \in {pending[t] : t \in Launcher} : p # Nil /\ p.ctx = c).handle
                ELSE handle[c]
    IN  \A c, d \in Registered \cup Unset : c # d => h(c) # h(d)

(***************************************************************************)
(* The binary search sees what is in the table: it finds the handle of     *)
(* each name that was given to one and is not retired, and 0 otherwise.    *)
(***************************************************************************)
NamesFound ==
    \A x \in Name :
        FindName(x) = IF \E i \in DOMAIN name : name[i].name = x
                      THEN (CHOOSE r \in {name[i] : i \in DOMAIN name} : r.name = x).handle
                      ELSE 0

(***************************************************************************)
(* The table is well formed; every service is found in it, and no other    *)
(* has its handle, however often handles were given again; names are found *)
(***************************************************************************)
StorageInv == HandleTypeOK /\ Reachable /\ UniqueHandles /\ NamesFound

(***************************************************************************)
(* Any number of threads may be in skynet_context_new at a time: the only  *)
(* thing that spoils the storage is a doubling that meets a context whose  *)
(* launcher has still to store its handle, since it hashes it as handle 0. *)
(***************************************************************************)
StorageSound == ~raced => StorageInv

(***************************************************************************)
(* assert(new_slot[hash] == NULL) of skynet_handle_register: the handles   *)
(* of a full table fall into different slots of the doubled one.           *)
(***************************************************************************)
NoCollision == crash # "collision"

(* A doubling is started only when the table is full: no slot is NULL.     *)
GrowsOnlyWhenFull == crash # "null"

(***************************************************************************)
(* skynet_handle_retireall returns only when no service is left that could *)
(* be found when it last retired one, or when it last began a pass: what   *)
(* was launched behind it, or had no handle yet when its slot was read, is *)
(* met by the next pass.  The table may be doubled under it, and other     *)
(* threads launch and retire services meanwhile.                           *)
(***************************************************************************)
RetireAllComplete == ra.pc = "done" => ra.start \cap Live = {}

-----------------------------------------------------------------------------
(* For TLC: contexts are interchangeable, and so are launchers. *)
Symmetric == Permutations(Ctx) \cup Permutations(Launcher)
=============================================================================
