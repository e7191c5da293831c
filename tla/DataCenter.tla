------------------------------ MODULE DataCenter ------------------------------
(***************************************************************************)
(* The data center (service/datacenterd.lua): a tree of values by paths of *)
(* keys, and clients that wait for the value of a path.  No handler of the *)
(* service yields, so each message is one step.                            *)
(*                                                                         *)
(* The tree is flat here: tree[p] is the value at the path p, or Table.  A *)
(* value that is set is a function on the paths inside it, with <<>> for   *)
(* itself: one path for a plain value, none for nil.                       *)
(***************************************************************************)
EXTENDS Integers, Sequences, SequencesExt

CONSTANTS Client,       \* who may wait
          Key,          \* names, which are keys and plain values too
          Path,         \* the paths that are used, and the values that are set
          Value

VARIABLES tree,         \* database
          line,         \* wait_queue: at each path "branch", or the clients that wait there
          waiting,      \* the path that each client waits for, or <<>>
          passed        \* the clients whose value came with that of another path

centerVars == <<tree, line, waiting, passed>>

Table == "table"
False == "false"        \* the value false, which counts as none

CenterInit == tree = <<>> /\ line = <<>> /\ waiting = [c \in Client |-> <<>>] /\ passed = {}

-----------------------------------------------------------------------------
Above(p) == {SubSeq(p, 1, n) : n \in 1 .. Len(p) - 1}
Under(p) == {q \in DOMAIN tree : IsPrefix(p, q)}
Truth(p) == p \in DOMAIN tree /\ tree[p] # False

(* query raises an error when it indexes what is not a table, except that  *)
(* a name is a string, whose index is nil                                  *)
CanIndex(p) == Truth(SubSeq(p, 1, 1)) =>
    \A q \in Above(p) : q \in DOMAIN tree /\ (tree[q] = Table \/ (tree[q] \in Key /\ q = Front(p)))

(* update: the tables above the path are made where there is nothing. *)
CanSet(p) == \A q \in Above(p) \cap DOMAIN tree : tree[q] = Table

Update(p, v) ==
    LET inside == {p \o r : r \in DOMAIN v}
    IN  [q \in (DOMAIN tree \ Under(p)) \cup Above(p) \cup inside |->
            IF q \in inside THEN v[SubSeq(q, Len(p) + 1, Len(q))]
            ELSE IF q \in DOMAIN tree THEN tree[q] ELSE Table]

(* wakeup: the queue on the way, which the value itself may lead to, as if *)
(* it were one key more                                                    *)
Way(p, v) == IF <<>> \in DOMAIN v /\ v[<<>>] \in Key THEN Append(p, v[<<>>]) ELSE p
Queues(way) == {SubSeq(way, 1, n) : n \in 1 .. Len(way)} \cap {q \in DOMAIN line : line[q] # "branch"}

-----------------------------------------------------------------------------
(* Who waits at q is not woken when a table with a value for q is set above *)
(* it, or when nil is set below it, which makes q a table.                  *)
Passes(p, v, q) == \/ p \in Above(q) /\ SubSeq(q, Len(p) + 1, Len(q)) \in DOMAIN v
                   \/ q \in Above(p) /\ v = <<>>

(* command.UPDATE: where there was a value, or none is set, nobody wakes; *)
(* who waited at another path than the one that is set gets an error.     *)
Set(p, v) ==
    LET woken == IF Truth(p) \/ v = <<>> THEN {} ELSE Queues(Way(p, v))
        clients == UNION {ToSet(line[q]) : q \in woken}
    IN  /\ CanSet(p)
        /\ tree' = Update(p, v)
        /\ line' = [q \in DOMAIN line \ woken |-> line[q]]
        /\ waiting' = [c \in Client |-> IF c \in clients THEN <<>> ELSE waiting[c]]
        /\ passed' = (passed \ clients)
                     \cup {c \in Client \ clients : Passes(p, v, waiting[c])}

(* waitfor, whose assertions refuse a wait for a branch or below a queue *)
CanWait(p) == /\ p \in DOMAIN line => line[p] # "branch"
              /\ \A q \in Above(p) \cap DOMAIN line : line[q] = "branch"

(* WAIT of a path that has no value *)
Wait(c, p) ==
    /\ waiting[c] = <<>> /\ CanIndex(p) /\ ~Truth(p) /\ CanWait(p)
    /\ line' = [q \in DOMAIN line \cup Above(p) \cup {p} |->
                   IF q = p THEN IF p \in DOMAIN line THEN Append(line[p], c) ELSE <<c>>
                   ELSE IF q \in DOMAIN line THEN line[q] ELSE "branch"]
    /\ waiting' = [waiting EXCEPT ![c] = p]
    /\ UNCHANGED <<tree, passed>>

CenterNext == \/ \E p \in Path, v \in Value : Set(p, v)
              \/ \E c \in Client, p \in Path : Wait(c, p)

CenterSpec == CenterInit /\ [][CenterNext]_centerVars

-----------------------------------------------------------------------------
(***************************************************************************)
(* A client that waits is in the queue of its path, once, and nobody else  *)
(* is in a queue; and its path has no value, unless that came with a table *)
(* that was set above it, or made for nil below it (Passes).  Above a      *)
(* queue there are only branches, so that an update finds it.              *)
(***************************************************************************)
DataCenterInv ==
    /\ \A q \in DOMAIN line : line[q] # "branch" =>
          /\ IsInjective(line[q]) /\ line[q] # <<>>
          /\ ToSet(line[q]) = {c \in Client : waiting[c] = q}
          /\ \A a \in Above(q) : a \in DOMAIN line /\ line[a] = "branch"
    /\ \A c \in Client : waiting[c] # <<>> =>
          /\ waiting[c] \in DOMAIN line /\ line[waiting[c]] # "branch"
          /\ Truth(waiting[c]) => c \in passed
=============================================================================
