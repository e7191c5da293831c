--------------------------- MODULE LuaServiceProofs ---------------------------
(***************************************************************************)
(* Proofs about LuaService for every set of coroutines and services and    *)
(* any number of sessions, requests and operations: no coroutine is lost   *)
(* in the session tables or beside them, a request is answered once, and a *)
(* message leaves nothing behind in the error queue or the wakeup queue.   *)
(***************************************************************************)
EXTENDS LuaService, FiniteSetTheorems, TLAPS

(* c has yielded, and waits for the answer to a session. *)
Waits(c) == st[c] \in {"call", "sleep", "wait", "timer"}

(* Types of the coroutines and their sessions *)
TableTypes ==
    /\ st \in [Co -> {"free", "forked", "timer", "run", "call", "sleep", "wait", "quit"}]
    /\ ses \in [Co -> Session \cup {None}]
    /\ \A c \in Co : Waits(c) => ses[c] \in Session
    /\ owner \in [Session -> Co \cup {None, Break}]
    /\ watching \in [Session -> Service \cup {None}]
    /\ asleep \in [Co -> Session \cup {None}]

(* Types of the queues and of what is owed *)
QueueTypes ==
    /\ wakeup_queue \in Seq(Co)
    /\ error_queue \in Seq(Session)
    /\ fork_queue \in Seq(Co \cup {Empty})
    /\ calls \subseteq Session /\ timers \subseteq Session
    /\ nsession \in Session /\ depth \in Nat
    /\ pc \in {"idle", "run", "wakeup", "error", "fork"}
    /\ stale \in BOOLEAN /\ badresume \in BOOLEAN /\ exited \in BOOLEAN

(* Types of the requests *)
RequestTypeOK ==
    /\ request \in [Co -> Request \cup {None, Empty}]
    /\ unresponse \subseteq Request
    /\ answers \in [Request -> Nat]
    /\ nrequest \in Request \cup {0}

(* While user code runs, the running coroutine is one that runs. *)
Runs == pc = "run" => running \in Co /\ st[running] = "run"

(* A session not yet generated is nobody's. *)
FreshSessions == \A s \in Session : s > nsession => owner[s] = None

(* The fork queue holds forked coroutines, each of them once, beside the   *)
(* coroutines of function() end.                                           *)
Forked ==
    /\ \A i \in DOMAIN fork_queue : fork_queue[i] # Empty => st[fork_queue[i]] = "forked"
    /\ \A i, j \in DOMAIN fork_queue :
          fork_queue[i] # Empty /\ fork_queue[i] = fork_queue[j] => i = j

SessionInv == TableTypes /\ QueueTypes /\ Runs /\ FreshSessions /\ Forked /\ TablesAgree /\ NoneForgotten

(***************************************************************************)
(* Until skynet.exit at most one coroutine answers for a request, and a    *)
(* request that has not come yet is nobody's and has no answer.            *)
(***************************************************************************)
OneHolder ==
    ~exited => \A c, d \in Co : request[c] \in Request /\ request[c] = request[d] => c = d
FreshRequests ==
    ~exited => \A r \in Request : r > nrequest => /\ answers[r] = 0 /\ r \notin unresponse
                                                  /\ \A c \in Co : request[c] # r

RequestInv == RequestTypeOK /\ OneHolder /\ FreshRequests /\ AnsweredOnce

(***************************************************************************)
(* Where suspend() and dispatch_message stand: past the wakeup queue it is *)
(* empty, past the error queue that is empty as well, or else a coroutine  *)
(* of function() end will go through both again.                           *)
(***************************************************************************)
Woken == wakeup_queue # <<>> => stale
Chain ==
    ~exited /\ ~badresume =>
        /\ pc = "error" => Woken
        /\ pc = "fork" => \/ error_queue = <<>> /\ Woken
                          \/ \E i \in DOMAIN fork_queue : fork_queue[i] = Empty
        /\ pc = "idle" => error_queue = <<>> /\ Woken

LuaInv == SessionInv /\ RequestInv /\ Chain

-----------------------------------------------------------------------------
(* The constants that stand for something are no session, no coroutine, no *)
(* service and no request.                                                 *)
LEMMA Distinct ==
    /\ None \notin Session /\ None \notin Co /\ None \notin Service /\ None \notin Request
    /\ Break \notin Co /\ Empty \notin Co /\ Empty \notin Request
    /\ Break # None /\ Empty # None
BY LuaAssumption, CoAssumption, ServiceAssumption DEF None, Break, Empty, Session, Request

(* Appending to a queue keeps what it holds and adds one entry. *)
LEMMA AppendHolds ==
    ASSUME NEW S, NEW q \in Seq(S), NEW e \in S
    PROVE  /\ Append(q, e) \in Seq(S)
           /\ DOMAIN q \subseteq DOMAIN Append(q, e)
           /\ \A i \in DOMAIN q : Append(q, e)[i] = q[i]
           /\ \A i \in DOMAIN Append(q, e) : i \in DOMAIN q \/ i = Len(q) + 1
           /\ Len(q) + 1 \in DOMAIN Append(q, e) /\ Append(q, e)[Len(q) + 1] = e
           /\ Len(q) + 1 \notin DOMAIN q
OBVIOUS

(* Taking the head of a queue leaves the others. *)
LEMMA TailHolds ==
    ASSUME NEW S, NEW q \in Seq(S), q # <<>>
    PROVE  /\ Tail(q) \in Seq(S) /\ Head(q) \in S
           /\ 1 \in DOMAIN q /\ q[1] = Head(q)
           /\ \A i \in DOMAIN Tail(q) : i + 1 \in DOMAIN q /\ Tail(q)[i] = q[i + 1]
           /\ \A i \in DOMAIN q : \/ i = 1
                                  \/ i - 1 \in DOMAIN Tail(q) /\ Tail(q)[i - 1] = q[i]
           /\ \A i, j \in DOMAIN Tail(q) : i + 1 # 1 /\ (i + 1 = j + 1 => i = j)
<1>1. /\ Len(q) \in Nat /\ Len(q) > 0 /\ DOMAIN q = 1 .. Len(q)
      /\ DOMAIN Tail(q) = 1 .. Len(q) - 1 /\ Tail(q) \in Seq(S) /\ Head(q) = q[1]
      /\ \A i \in 1 .. Len(q) - 1 : Tail(q)[i] = q[i + 1]
  OBVIOUS
<1> QED  BY <1>1

(* A concatenation keeps what both parts hold. *)
LEMMA ConcatHolds ==
    ASSUME NEW S, NEW a \in Seq(S), NEW b \in Seq(S)
    PROVE  /\ a \o b \in Seq(S)
           /\ \A i \in DOMAIN a : i \in DOMAIN (a \o b) /\ (a \o b)[i] = a[i]
           /\ \A j \in DOMAIN b : Len(a) + j \in DOMAIN (a \o b) /\ (a \o b)[Len(a) + j] = b[j]
OBVIOUS

(* Every member of a finite set has a place in each order of the set. *)
LEMMA OrderHolds ==
    ASSUME NEW S, IsFiniteSet(S), NEW order \in SetToSeqs(S)
    PROVE  order \in Seq(S) /\ \A s \in S : \E i \in DOMAIN order : order[i] = s
<1> DEFINE n == Cardinality(S)
<1>1. n \in Nat  BY FS_CardinalityType
<1>2. order \in [1 .. n -> S] /\ \A i, j \in 1 .. n : i # j => order[i] # order[j]
  BY DEF SetToSeqs
<1>3. order \in Injection(1 .. n, S)
  BY <1>2 DEF Injection, IsInjective
<1>4. Cardinality(1 .. n) = n
  BY <1>1, FS_Interval
<1>5. order \in Surjection(1 .. n, S)
  BY <1>3, <1>4, FS_Injection
<1>6. \A s \in S : \E i \in 1 .. n : order[i] = s
  BY <1>5 DEF Surjection
<1> QED  BY <1>1, <1>2, <1>6

-----------------------------------------------------------------------------
(* TablesAgree, apart from the entries that a wakeup left as "BREAK" *)
Tables ==
    /\ \A c \in Suspended : owner[ses[c]] = c
    /\ \A s \in Session : owner[s] \in Co => owner[s] \in Suspended /\ ses[owner[s]] = s
    /\ \A s \in Session : watching[s] # None <=> owner[s] \in Co /\ st[owner[s]] = "call"
    /\ \A c \in Co : asleep[c] = IF st[c] \in {"sleep", "wait"} THEN ses[c] ELSE None
Breaks == \A s \in Session : owner[s] = Break => s \in timers

(* TablesAgree has these two parts. *)
LEMMA TablesSplit == TablesAgree <=> Tables /\ Breaks
BY DEF TablesAgree, Tables, Breaks

(* The coroutine that owns a session is resumed, and the session is over. *)
LEMMA ResumeOwner ==
    ASSUME TableTypes, Tables, NEW s \in Session, owner[s] \in Co, NEW v \in {None, Break},
           Resume(owner[s], [owner EXCEPT ![s] = v])
    PROVE  /\ TableTypes' /\ Tables' /\ pc' = "run" /\ Runs'
           /\ \A d \in Co : d # owner[s] => st'[d] = st[d] /\ ses'[d] = ses[d]
           /\ \A d \in Co : d # owner[s] /\ Waits(d) => ses[d] # s
           /\ st'[owner[s]] = "run" /\ ses[owner[s]] = s /\ Waits(owner[s])
           /\ \A t \in Session : t # s => owner'[t] = owner[t]
           /\ owner'[s] = IF st[owner[s]] = "wait" THEN None ELSE v
<1> DEFINE c == owner[s]
<1>1. c \in Co /\ Waits(c) /\ ses[c] = s
  BY DEF Tables, Suspended, Waits
<1>2. /\ st' = [st EXCEPT ![c] = "run"] /\ ses' = [ses EXCEPT ![c] = None]
      /\ watching' = IF st[c] = "call" THEN [watching EXCEPT ![s] = None] ELSE watching
      /\ asleep' = [asleep EXCEPT ![c] = None]
      /\ owner' = IF st[c] = "wait" THEN [owner EXCEPT ![s] = None] ELSE [owner EXCEPT ![s] = v]
      /\ running' = c /\ pc' = "run"
  BY <1>1, ZenonT(30) DEF Resume, TableTypes
<1> HIDE DEF c
<1>3. TableTypes'
  BY <1>1, <1>2 DEF TableTypes, Waits
<1>4. \A d \in Co : d # c => st'[d] = st[d] /\ ses'[d] = ses[d] /\ asleep'[d] = asleep[d]
  BY <1>2 DEF TableTypes
<1>5. \A d \in Co : d # c /\ Waits(d) => ses[d] # s
  BY DEF Tables, Suspended, Waits, c
<1>6. st'[c] = "run" /\ asleep'[c] = None /\ ses'[c] = None
  BY <1>1, <1>2 DEF TableTypes
<1>7. \A t \in Session : t # s => owner'[t] = owner[t] /\ watching'[t] = watching[t]
  BY <1>2 DEF TableTypes
<1>8. owner'[s] = (IF st[c] = "wait" THEN None ELSE v) /\ owner'[s] \notin Co
  BY <1>2, Distinct DEF TableTypes
<1>9. watching'[s] = None
  BY <1>1, <1>2 DEF TableTypes, Tables, c
<1>10. \A d \in Co : Waits(d)' => d # c /\ Waits(d) /\ ses[d] \in Session
  BY <1>4, <1>6, Distinct DEF Waits, Tables, Suspended, TableTypes
<1>11. Tables'
  <2>1. (\A d \in Suspended : owner[ses[d]] = d)'
    BY <1>4, <1>5, <1>7, <1>10 DEF Tables, Suspended, Waits
  <2>2. (\A t \in Session : owner[t] \in Co => owner[t] \in Suspended /\ ses[owner[t]] = t)'
    BY <1>1, <1>4, <1>7, <1>8 DEF Tables, Suspended, Waits
  <2>3. (\A t \in Session : watching[t] # None <=> owner[t] \in Co /\ st[owner[t]] = "call")'
    BY <1>1, <1>4, <1>7, <1>8, <1>9 DEF Tables
  <2>4. (\A d \in Co : asleep[d] = IF st[d] \in {"sleep", "wait"} THEN ses[d] ELSE None)'
    BY <1>4, <1>6 DEF Tables
  <2> QED  BY <2>1, <2>2, <2>3, <2>4 DEF Tables
<1>12. Runs'
  BY <1>1, <1>2, <1>6 DEF Runs
<1> QED  BY <1>1, <1>2, <1>3, <1>4, <1>5, <1>6, <1>7, <1>8, <1>11, <1>12 DEF c

(* A coroutine that waits for nothing starts to run. *)
LEMMA ResumeNew ==
    ASSUME TableTypes, Tables, NEW c \in Co, st[c] \in {"free", "forked"}, Resume(c, owner)
    PROVE  /\ TableTypes' /\ Tables' /\ pc' = "run" /\ Runs' /\ owner' = owner
           /\ \A d \in Co : d # c => st'[d] = st[d] /\ ses'[d] = ses[d]
           /\ st'[c] = "run"
<1>1. /\ st' = [st EXCEPT ![c] = "run"] /\ ses' = [ses EXCEPT ![c] = None]
      /\ watching' = watching /\ asleep' = [asleep EXCEPT ![c] = None] /\ owner' = owner
      /\ running' = c /\ pc' = "run"
  BY DEF Resume
<1>2. TableTypes'
  BY <1>1 DEF TableTypes, Waits
<1>3. \A d \in Co : d # c => st'[d] = st[d] /\ ses'[d] = ses[d] /\ asleep'[d] = asleep[d]
  BY <1>1 DEF TableTypes
<1>4. st'[c] = "run" /\ asleep'[c] = None
  BY <1>1 DEF TableTypes
<1>5. \A s \in Session : owner[s] # c
  BY DEF Tables, Suspended
<1>6. Tables'
  BY <1>1, <1>3, <1>4, <1>5 DEF Tables, Suspended
<1> QED  BY <1>1, <1>2, <1>3, <1>4, <1>6 DEF Runs

(* A session not used before is given to a coroutine that waits for none. *)
LEMMA NewSession ==
    ASSUME TableTypes, Tables, FreshSessions, nsession \in Session, nsession < MaxSession,
           NEW c \in Co, st[c] \in {"run", "free"},
           NEW state \in {"call", "sleep", "wait", "timer"}, NEW b,
           nsession' = nsession + 1,
           st' = [st EXCEPT ![c] = state], ses' = [ses EXCEPT ![c] = nsession'],
           owner' = [owner EXCEPT ![nsession'] = c],
           IF state = "call" THEN b \in Service /\ watching' = [watching EXCEPT ![nsession'] = b]
                             ELSE watching' = watching,
           asleep' = IF state \in {"sleep", "wait"} THEN [asleep EXCEPT ![c] = nsession'] ELSE asleep
    PROVE  /\ nsession' \in Session /\ TableTypes' /\ Tables' /\ FreshSessions'
           /\ \A d \in Co : d # c => st'[d] = st[d] /\ ses'[d] = ses[d]
           /\ st'[c] = state /\ ses'[c] = nsession' /\ owner'[nsession'] = c
           /\ \A t \in Session : t # nsession' => owner'[t] = owner[t]
<1> DEFINE n == nsession'
<1>1. n \in Session /\ n > nsession /\ \A t \in Session : t > n => t > nsession /\ t # n
  BY LuaAssumption DEF Session
<1>2. owner[n] = None /\ watching[n] = None
  BY <1>1, Distinct DEF FreshSessions, Tables
<1> HIDE DEF n
<1>3. /\ st' = [st EXCEPT ![c] = state] /\ ses' = [ses EXCEPT ![c] = n]
      /\ owner' = [owner EXCEPT ![n] = c]
      /\ IF state = "call" THEN b \in Service /\ watching' = [watching EXCEPT ![n] = b]
                           ELSE watching' = watching
      /\ asleep' = IF state \in {"sleep", "wait"} THEN [asleep EXCEPT ![c] = n] ELSE asleep
  BY DEF n
<1>4. TableTypes'
  BY <1>1, <1>3 DEF TableTypes, Waits
<1>5. \A d \in Co : d # c => st'[d] = st[d] /\ ses'[d] = ses[d] /\ asleep'[d] = asleep[d]
  BY <1>3 DEF TableTypes
<1>6. st'[c] = state /\ ses'[c] = n
  BY <1>3 DEF TableTypes
<1>7. asleep'[c] = IF state \in {"sleep", "wait"} THEN n ELSE None
  BY <1>1, <1>3 DEF TableTypes, Tables
<1>8. /\ \A t \in Session : t # n => owner'[t] = owner[t] /\ watching'[t] = watching[t]
      /\ owner'[n] = c
  BY <1>1, <1>3 DEF TableTypes
<1>9. watching'[n] # None <=> state = "call"
  BY <1>1, <1>2, <1>3, Distinct DEF TableTypes
<1>10. \A d \in Co : Waits(d) => ses[d] # n /\ ses[d] \in Session
  BY <1>2, Distinct DEF Tables, Suspended, Waits, TableTypes
<1>11. \A t \in Session : owner[t] # c
  BY DEF Tables, Suspended
<1>12. Tables'
  <2>1. (\A d \in Suspended : owner[ses[d]] = d)'
    BY <1>5, <1>6, <1>8, <1>10 DEF Tables, Suspended, Waits
  <2>2. (\A t \in Session : owner[t] \in Co => owner[t] \in Suspended /\ ses[owner[t]] = t)'
    BY <1>5, <1>6, <1>8, <1>11 DEF Tables, Suspended
  <2>3. (\A t \in Session : watching[t] # None <=> owner[t] \in Co /\ st[owner[t]] = "call")'
    BY <1>5, <1>6, <1>8, <1>9, <1>11 DEF Tables
  <2>4. (\A d \in Co : asleep[d] = IF st[d] \in {"sleep", "wait"} THEN ses[d] ELSE None)'
    BY <1>5, <1>6, <1>7 DEF Tables
  <2> QED  BY <2>1, <2>2, <2>3, <2>4 DEF Tables
<1>13. FreshSessions'
  BY <1>1, <1>8 DEF FreshSessions, n
<1> QED  BY <1>1, <1>4, <1>5, <1>6, <1>8, <1>12, <1>13 DEF n

(* A coroutine that waits for nothing changes its state otherwise. *)
LEMMA NewState ==
    ASSUME TableTypes, Tables, NEW c \in Co, st[c] \in {"run", "free"},
           NEW state \in {"free", "forked", "quit"}, st' = [st EXCEPT ![c] = state],
           UNCHANGED <<ses, tables>>
    PROVE  /\ TableTypes' /\ Tables' /\ st'[c] = state
           /\ \A d \in Co : d # c => st'[d] = st[d]
<1> USE DEF tables
<1>1. TableTypes'
  BY DEF TableTypes, Waits
<1>2. \A d \in Co : d # c => st'[d] = st[d]
  BY DEF TableTypes
<1>3. st'[c] = state
  BY DEF TableTypes
<1>4. \A t \in Session : owner[t] # c
  BY DEF Tables, Suspended
<1>5. Tables'
  BY <1>2, <1>3, <1>4 DEF Tables, Suspended
<1> QED  BY <1>1, <1>2, <1>3, <1>5

-----------------------------------------------------------------------------
(* A failed or pending answer to session s, a place in the fork queue *)
Owed(s) == s \in calls \/ \E i \in DOMAIN error_queue : error_queue[i] = s
InForks(c) == \E i \in DOMAIN fork_queue : fork_queue[i] = c

(* NoneForgotten, by what is owed and what is in the fork queue *)
LEMMA ForgottenIs ==
    NoneForgotten <=> \A c \in Co : /\ st[c] = "call" => Owed(ses[c])
                                    /\ st[c] \in {"sleep", "timer"} => ses[c] \in timers
                                    /\ st[c] = "forked" => exited \/ InForks(c)
BY DEF NoneForgotten, Owed, InForks

(* A step that leaves the tables alone keeps what is owed and forked. *)
LEMMA TablesStay ==
    ASSUME SessionInv, UNCHANGED <<st, ses, tables, nsession>>, QueueTypes', Runs', Forked',
           timers \subseteq timers', exited => exited',
           \A s \in Session : watching[s] # None /\ Owed(s) => Owed(s)',
           \A c \in Co : InForks(c) => InForks(c)' \/ exited'
    PROVE  SessionInv'
<1>1. TableTypes' /\ Tables' /\ Breaks' /\ FreshSessions'
  BY TablesSplit DEF SessionInv, TableTypes, Tables, Breaks, FreshSessions, tables, Suspended, Waits
<1>2. \A c \in Co : st[c] = "call" => ses[c] \in Session /\ watching[ses[c]] # None
  BY TablesSplit DEF SessionInv, Tables, TableTypes, Suspended, Waits
<1>3. NoneForgotten'
  <2> SUFFICES ASSUME NEW c \in Co
               PROVE  /\ st'[c] = "call" => Owed(ses[c])'
                      /\ st'[c] \in {"sleep", "timer"} => ses'[c] \in timers'
                      /\ st'[c] = "forked" => exited' \/ InForks(c)'
    BY DEF NoneForgotten, Owed, InForks
  <2> QED  BY <1>2, ForgottenIs DEF SessionInv, Owed
<1> QED  BY <1>1, <1>3 DEF SessionInv, TablesAgree, Tables, Breaks

(* A step that resumes the owner of s keeps what is owed to the others. *)
LEMMA OwnerResumed ==
    ASSUME SessionInv, NEW s \in Session, owner[s] \in Co, NEW v \in {None, Break},
           Resume(owner[s], [owner EXCEPT ![s] = v]),
           v = Break => st[owner[s]] \in {"sleep", "wait"} /\ timers' = timers,
           fork_queue' = fork_queue, nsession' = nsession, QueueTypes', exited' = exited,
           \A t \in timers : t # s => t \in timers',
           \A t \in Session : t # s /\ Owed(t) => Owed(t)'
    PROVE  SessionInv'
<1> DEFINE c == owner[s]
<1>1. TableTypes /\ Tables /\ Breaks
  BY TablesSplit DEF SessionInv
<1>2. /\ TableTypes' /\ Tables' /\ pc' = "run" /\ Runs'
      /\ \A d \in Co : d # c => st'[d] = st[d] /\ ses'[d] = ses[d]
      /\ \A d \in Co : d # c /\ Waits(d) => ses[d] # s
      /\ st'[c] = "run" /\ ses[c] = s /\ Waits(c)
      /\ \A t \in Session : t # s => owner'[t] = owner[t]
      /\ owner'[s] = IF st[c] = "wait" THEN None ELSE v
  BY <1>1, ResumeOwner
<1> HIDE DEF c
<1>3. \A d \in Co : Waits(d) => ses[d] \in Session
  BY <1>1 DEF TableTypes
<1>4. FreshSessions'
  BY <1>2, Distinct DEF SessionInv, FreshSessions, c
<1>5. Breaks'
  <2> SUFFICES ASSUME NEW t \in Session, owner'[t] = Break PROVE t \in timers'
    BY DEF Breaks
  <2>1. CASE t = s
    <3>1. v = Break /\ st[c] = "sleep" /\ timers' = timers
      BY <1>2, <2>1, Distinct DEF c
    <3> QED  BY <1>2, <2>1, <3>1, ForgottenIs DEF SessionInv, c
  <2>2. CASE t # s
    BY <1>1, <1>2, <2>2 DEF Breaks
  <2> QED  BY <2>1, <2>2
<1>6. Forked'
  <2>1. \A i \in DOMAIN fork_queue : fork_queue[i] # Empty => fork_queue[i] \in Co
    BY DEF SessionInv, QueueTypes
  <2> QED  BY <1>2, <2>1 DEF SessionInv, Forked, Waits
<1>7. NoneForgotten'
  <2> SUFFICES ASSUME NEW d \in Co
               PROVE  /\ st'[d] = "call" => Owed(ses[d])'
                      /\ st'[d] \in {"sleep", "timer"} => ses'[d] \in timers'
                      /\ st'[d] = "forked" => exited' \/ InForks(d)'
    BY DEF NoneForgotten, Owed, InForks
  <2>1. CASE d = c
    BY <1>2, <2>1
  <2>2. CASE d # c
    <3>1. /\ st[d] = "call" => Owed(ses[d])
          /\ st[d] \in {"sleep", "timer"} => ses[d] \in timers
          /\ st[d] = "forked" => exited \/ InForks(d)
      BY ForgottenIs DEF SessionInv
    <3>2. st'[d] = st[d] /\ ses'[d] = ses[d] /\ (Waits(d) => ses[d] \in Session /\ ses[d] # s)
      BY <1>2, <1>3, <2>2
    <3> QED  BY <3>1, <3>2 DEF Waits, InForks, Owed
  <2> QED  BY <2>1, <2>2
<1> QED  BY <1>2, <1>4, <1>5, <1>6, <1>7 DEF SessionInv, TablesAgree, Tables, Breaks

(* A step that changes one coroutine keeps what is owed to the others. *)
LEMMA OneChanges ==
    ASSUME SessionInv, NEW c \in Co, TableTypes', Tables', QueueTypes', Runs', FreshSessions', Forked',
           \A d \in Co : d # c => st'[d] = st[d] /\ ses'[d] = ses[d],
           \A t \in Session : owner'[t] = Break => owner[t] = Break,
           timers \subseteq timers', exited => exited',
           \A t \in Session : Owed(t) => Owed(t)',
           \A d \in Co : d # c /\ InForks(d) => InForks(d)' \/ exited',
           st'[c] = "call" => Owed(ses[c])',
           st'[c] \in {"sleep", "timer"} => ses'[c] \in timers',
           st'[c] = "forked" => exited' \/ InForks(c)'
    PROVE  SessionInv'
<1>1. Breaks'
  BY TablesSplit DEF SessionInv, Breaks
<1>2. NoneForgotten'
  <2> SUFFICES ASSUME NEW d \in Co
               PROVE  /\ st'[d] = "call" => Owed(ses[d])'
                      /\ st'[d] \in {"sleep", "timer"} => ses'[d] \in timers'
                      /\ st'[d] = "forked" => exited' \/ InForks(d)'
    BY DEF NoneForgotten, Owed, InForks
  <2>1. CASE d = c
    BY <2>1
  <2>2. CASE d # c
    <3>1. /\ st[d] = "call" => Owed(ses[d]) /\ ses[d] \in Session
          /\ st[d] \in {"sleep", "timer"} => ses[d] \in timers
          /\ st[d] = "forked" => exited \/ InForks(d)
      BY ForgottenIs DEF SessionInv, TableTypes, Waits
    <3> QED  BY <2>2, <3>1 DEF Owed
  <2> QED  BY <2>1, <2>2
<1> QED  BY <1>1, <1>2 DEF SessionInv, TablesAgree, Tables, Breaks

-----------------------------------------------------------------------------
(* Each step keeps the sessions: first what the runtime does. *)
LEMMA DispatchWakeupSession == ASSUME SessionInv, DispatchWakeup PROVE SessionInv'
<1> USE DEF queues, owed, tables, hist
<1>1. CASE wakeup_queue = <<>>
  <2>1. /\ UNCHANGED <<st, ses, tables, queues, owed, nsession, depth, hist>> /\ pc' = "error"
    BY <1>1 DEF DispatchWakeup
  <2>2. QueueTypes' /\ Runs' /\ Forked'
    BY <2>1 DEF SessionInv, QueueTypes, Runs, Forked
  <2> QED  BY <2>1, <2>2, TablesStay DEF Owed, InForks
<1>2. CASE wakeup_queue # <<>>
  <2> DEFINE h == Head(wakeup_queue)
             s == asleep[h]
  <2>1. /\ wakeup_queue' = Tail(wakeup_queue) /\ stale' = (stale \/ s = None)
        /\ UNCHANGED <<error_queue, fork_queue, owed, nsession, badresume, exited>>
    BY <1>2 DEF DispatchWakeup
  <2>2. h \in Co /\ Tail(wakeup_queue) \in Seq(Co)
    BY <1>2, TailHolds DEF SessionInv, QueueTypes
  <2>3. CASE s = None
    <3>1. pc' = "error" /\ UNCHANGED <<st, ses, tables, depth>>
      BY <1>2, <2>3 DEF DispatchWakeup
    <3>2. QueueTypes' /\ Runs' /\ Forked'
      BY <2>1, <2>2, <3>1 DEF SessionInv, QueueTypes, Runs, Forked
    <3> QED  BY <2>1, <3>1, <3>2, TablesStay DEF Owed, InForks
  <2>4. CASE s # None
    <3>1. Resume(owner[s], [owner EXCEPT ![s] = Break]) /\ depth' = depth + 1
      BY <1>2, <2>4 DEF DispatchWakeup
    <3>2. s \in Session /\ owner[s] = h /\ st[h] \in {"sleep", "wait"}
      BY <2>2, <2>4, TablesSplit DEF SessionInv, TableTypes, Tables, Suspended
    <3>3. pc' = "run"
      BY <3>1 DEF Resume
    <3>4. QueueTypes'
      BY <2>1, <2>2, <3>1, <3>3 DEF SessionInv, QueueTypes
    <3> HIDE DEF s, h
    <3> QED  BY <2>1, <2>2, <3>1, <3>2, <3>4, OwnerResumed DEF Owed
  <2> QED  BY <2>3, <2>4
<1> QED  BY <1>1, <1>2

(* dispatch_error_queue resumes the owner of a failed session, if it has     *)
(* one.                                                                      *)
LEMMA DispatchErrorQueueSession == ASSUME SessionInv, DispatchErrorQueue PROVE SessionInv'
<1> USE DEF queues, owed, tables, hist
<1>1. CASE error_queue = <<>>
  <2>1. /\ UNCHANGED <<st, ses, tables, queues, owed, nsession, hist>>
        /\ \/ depth > 0 /\ depth' = depth - 1 /\ pc' = pc
           \/ depth' = depth /\ pc' = "fork"
    BY <1>1 DEF DispatchErrorQueue
  <2>2. pc = "error"
    BY DEF DispatchErrorQueue
  <2>3. QueueTypes' /\ Runs' /\ Forked'
    BY <2>1, <2>2 DEF SessionInv, QueueTypes, Runs, Forked
  <2> QED  BY <2>1, <2>3, TablesStay DEF Owed, InForks
<1>2. CASE error_queue # <<>>
  <2> DEFINE s == Head(error_queue)
  <2>1. /\ error_queue' = Tail(error_queue)
        /\ UNCHANGED <<wakeup_queue, fork_queue, owed, nsession, stale, exited>>
    BY <1>2 DEF DispatchErrorQueue
  <2>2. s \in Session /\ Tail(error_queue) \in Seq(Session)
    BY <1>2, TailHolds DEF SessionInv, QueueTypes
  <2>3. \A t \in Session : t # s /\ Owed(t) => Owed(t)'
    <3>1. /\ error_queue[1] = s
          /\ \A i \in DOMAIN error_queue : \/ i = 1
                                           \/ /\ i - 1 \in DOMAIN error_queue'
                                              /\ error_queue'[i - 1] = error_queue[i]
      BY <1>2, <2>1, TailHolds DEF SessionInv, QueueTypes
    <3> HIDE DEF s
    <3> QED  BY <2>1, <3>1 DEF Owed
  <2>4. CASE owner[s] \in Co
    <3>1. Resume(owner[s], [owner EXCEPT ![s] = None]) /\ UNCHANGED <<depth, badresume>>
      BY <1>2, <2>4 DEF DispatchErrorQueue
    <3>2. pc' = "run"
      BY <3>1 DEF Resume
    <3>3. QueueTypes'
      BY <2>1, <2>2, <3>1, <3>2 DEF SessionInv, QueueTypes
    <3> HIDE DEF s
    <3> QED  BY <2>1, <2>2, <2>3, <2>4, <3>1, <3>3, OwnerResumed, Distinct
  <2>5. CASE owner[s] \notin Co
    <3>1. pc' = "fork" /\ depth' = 0 /\ badresume' = TRUE /\ UNCHANGED <<st, ses, tables>>
      BY <1>2, <2>5 DEF DispatchErrorQueue, Unwind
    <3>2. QueueTypes' /\ Runs' /\ Forked'
      BY <2>1, <2>2, <3>1 DEF SessionInv, QueueTypes, Runs, Forked
    <3>3. watching[s] = None
      BY <2>2, <2>5, TablesSplit DEF SessionInv, Tables
    <3> HIDE DEF s
    <3> QED  BY <2>1, <2>3, <3>1, <3>2, <3>3, TablesStay DEF InForks
  <2> QED  BY <2>4, <2>5
<1> QED  BY <1>1, <1>2

(* The loop of dispatch_message starts a forked coroutine. *)
LEMMA DispatchForkSession == ASSUME SessionInv, DispatchFork PROVE SessionInv'
<1> USE DEF queues, owed, tables, hist
<1>1. CASE fork_queue = <<>>
  <2>1. UNCHANGED <<st, ses, tables, queues, owed, nsession, depth, hist>> /\ pc' = "idle"
    BY <1>1 DEF DispatchFork
  <2>2. QueueTypes' /\ Runs' /\ Forked'
    BY <2>1 DEF SessionInv, QueueTypes, Runs, Forked
  <2> QED  BY <2>1, <2>2, TablesStay DEF Owed, InForks
<1>2. CASE fork_queue # <<>>
  <2> DEFINE c == Head(fork_queue)
  <2>1. /\ fork_queue' = Tail(fork_queue)
        /\ UNCHANGED <<wakeup_queue, error_queue, owed, nsession, depth, hist>>
    BY <1>2 DEF DispatchFork
  <2>2. c \in Co \cup {Empty} /\ Tail(fork_queue) \in Seq(Co \cup {Empty})
    BY <1>2, TailHolds DEF SessionInv, QueueTypes
  <2>3. /\ 1 \in DOMAIN fork_queue /\ fork_queue[1] = c
        /\ \A i \in DOMAIN fork_queue' : i + 1 \in DOMAIN fork_queue /\ fork_queue'[i] = fork_queue[i + 1]
        /\ \A i, j \in DOMAIN fork_queue' : i + 1 # 1 /\ (i + 1 = j + 1 => i = j)
    BY <1>2, <2>1, TailHolds DEF SessionInv, QueueTypes
  <2>4. \A d \in Co : d # c /\ InForks(d) => InForks(d)'
    <3>1. \A i \in DOMAIN fork_queue : \/ i = 1
                                       \/ /\ i - 1 \in DOMAIN fork_queue'
                                          /\ fork_queue'[i - 1] = fork_queue[i]
      BY <1>2, <2>1, TailHolds DEF SessionInv, QueueTypes
    <3> HIDE DEF c
    <3> QED  BY <2>3, <3>1 DEF InForks
  <2>5. \A i, j \in DOMAIN fork_queue' :
            fork_queue'[i] # Empty /\ fork_queue'[i] = fork_queue'[j] => i = j
    BY <2>3 DEF SessionInv, Forked
  <2>6. \A i \in DOMAIN fork_queue' :
            fork_queue'[i] # Empty => /\ fork_queue'[i] \in Co /\ fork_queue'[i] # c
                                      /\ st[fork_queue'[i]] = "forked"
    <3> SUFFICES ASSUME NEW i \in DOMAIN fork_queue', fork_queue'[i] # Empty
                 PROVE  /\ fork_queue'[i] \in Co /\ fork_queue'[i] # c
                        /\ st[fork_queue'[i]] = "forked"
      OBVIOUS
    <3>1. fork_queue'[i] \in Co
      BY <2>1, <2>2
    <3>2. fork_queue'[i] = fork_queue[i + 1] /\ i + 1 \in DOMAIN fork_queue /\ i + 1 # 1
      BY <2>3
    <3> QED  BY <2>3, <3>1, <3>2 DEF SessionInv, Forked
  <2>7. CASE c = Empty
    <3>1. pc' = "wakeup" /\ UNCHANGED <<st, ses, tables>>
      BY <1>2, <2>7 DEF DispatchFork
    <3>2. QueueTypes' /\ Runs'
      BY <2>1, <2>2, <3>1 DEF SessionInv, QueueTypes, Runs
    <3>3. Forked'
      BY <2>5, <2>6, <3>1 DEF Forked
    <3>4. \A d \in Co : d # c
      BY <2>7, Distinct
    <3> HIDE DEF c
    <3> QED  BY <2>1, <2>4, <3>1, <3>2, <3>3, <3>4, TablesStay DEF Owed
  <2>8. CASE c # Empty
    <3>1. Resume(c, owner)
      BY <1>2, <2>8 DEF DispatchFork
    <3>2. c \in Co /\ st[c] = "forked"
      BY <2>2, <2>3, <2>8 DEF SessionInv, Forked
    <3> HIDE DEF c
    <3>3. /\ TableTypes' /\ Tables' /\ pc' = "run" /\ Runs' /\ owner' = owner
          /\ \A d \in Co : d # c => st'[d] = st[d] /\ ses'[d] = ses[d]
          /\ st'[c] = "run"
      BY <3>1, <3>2, ResumeNew, TablesSplit DEF SessionInv
    <3>4. QueueTypes' /\ FreshSessions'
      BY <2>1, <2>2, <3>3 DEF SessionInv, QueueTypes, FreshSessions
    <3>5. Forked'
      BY <2>5, <2>6, <3>3 DEF Forked
    <3> QED  BY <2>1, <2>4, <3>2, <3>3, <3>4, <3>5, OneChanges DEF Owed
  <2> QED  BY <2>7, <2>8
<1> QED  BY <1>1, <1>2

-----------------------------------------------------------------------------
(* Then what user code does *)
LEMMA UserRuns == ASSUME SessionInv, NEW c \in Co, pc = "run", running = c PROVE st[c] = "run"
BY DEF SessionInv, Runs

(* The fork queue is right as long as no forked coroutine changes. *)
LEMMA ForkedStays ==
    ASSUME SessionInv, fork_queue' = fork_queue,
           NEW c \in Co, st[c] # "forked", \A d \in Co : d # c => st'[d] = st[d]
    PROVE  Forked'
<1>1. \A i \in DOMAIN fork_queue : fork_queue[i] # Empty => fork_queue[i] \in Co
  BY DEF SessionInv, QueueTypes
<1> QED  BY <1>1 DEF SessionInv, Forked

(* skynet.call *)
LEMMA CallSession == ASSUME SessionInv, NEW c \in Co, NEW b \in Service, Call(c, b) PROVE SessionInv'
<1> USE DEF queues, owed, tables, hist
<1>1. /\ nsession < MaxSession /\ nsession' = nsession + 1
      /\ st' = [st EXCEPT ![c] = "call"] /\ ses' = [ses EXCEPT ![c] = nsession']
      /\ owner' = [owner EXCEPT ![nsession'] = c] /\ pc' = "wakeup"
      /\ watching' = [watching EXCEPT ![nsession'] = b] /\ calls' = calls \cup {nsession'}
      /\ UNCHANGED <<asleep, queues, timers, depth, hist>>
  BY DEF Call, SuspendIn
<1>2. st[c] = "run"
  BY UserRuns DEF Call, User
<1>3. /\ nsession' \in Session /\ TableTypes' /\ Tables' /\ FreshSessions'
      /\ \A d \in Co : d # c => st'[d] = st[d] /\ ses'[d] = ses[d]
      /\ st'[c] = "call" /\ ses'[c] = nsession' /\ owner'[nsession'] = c
      /\ \A t \in Session : t # nsession' => owner'[t] = owner[t]
  BY <1>1, <1>2, NewSession, TablesSplit DEF SessionInv, QueueTypes
<1>4. QueueTypes' /\ Runs'
  BY <1>1, <1>3 DEF SessionInv, QueueTypes, Runs
<1>5. Forked'
  BY <1>1, <1>2, <1>3, ForkedStays
<1>6. Owed(ses[c])' /\ \A t \in Session : Owed(t) => Owed(t)'
  BY <1>1, <1>3 DEF Owed
<1>7. \A t \in Session : owner'[t] = Break => owner[t] = Break
  BY <1>3, Distinct
<1> QED  BY <1>1, <1>3, <1>4, <1>5, <1>6, <1>7, OneChanges DEF InForks

(* skynet.sleep and skynet.wait *)
LEMMA SleepSession ==
    ASSUME SessionInv, NEW c \in Co, NEW state \in {"sleep", "wait"}, Sleep(c, state)
    PROVE  SessionInv'
<1> USE DEF queues, owed, tables, hist
<1>1. /\ nsession < MaxSession /\ nsession' = nsession + 1
      /\ st' = [st EXCEPT ![c] = state] /\ ses' = [ses EXCEPT ![c] = nsession']
      /\ owner' = [owner EXCEPT ![nsession'] = c] /\ pc' = "wakeup"
      /\ asleep' = [asleep EXCEPT ![c] = nsession']
      /\ timers' = IF state = "sleep" THEN timers \cup {nsession'} ELSE timers
      /\ UNCHANGED <<watching, queues, calls, depth, hist>>
  BY DEF Sleep, SuspendIn
<1>2. st[c] = "run"
  BY UserRuns DEF Sleep, User
<1>3. /\ nsession' \in Session /\ TableTypes' /\ Tables' /\ FreshSessions'
      /\ \A d \in Co : d # c => st'[d] = st[d] /\ ses'[d] = ses[d]
      /\ st'[c] = state /\ ses'[c] = nsession' /\ owner'[nsession'] = c
      /\ \A t \in Session : t # nsession' => owner'[t] = owner[t]
  BY <1>1, <1>2, NewSession, TablesSplit DEF SessionInv, QueueTypes
<1>4. QueueTypes' /\ Runs'
  BY <1>1, <1>3 DEF SessionInv, QueueTypes, Runs
<1>5. Forked'
  BY <1>1, <1>2, <1>3, ForkedStays
<1>6. timers \subseteq timers' /\ (st'[c] \in {"sleep", "timer"} => ses'[c] \in timers')
  BY <1>1, <1>3
<1>7. \A t \in Session : owner'[t] = Break => owner[t] = Break
  BY <1>3, Distinct
<1> QED  BY <1>1, <1>3, <1>4, <1>5, <1>6, <1>7, OneChanges DEF InForks, Owed

(* skynet.timeout *)
LEMMA TimeoutSession == ASSUME SessionInv, NEW c \in Co, NEW d \in Free, Timeout(c, d) PROVE SessionInv'
<1> USE DEF queues, owed, tables, hist
<1>1. /\ nsession < MaxSession /\ nsession' = nsession + 1
      /\ st' = [st EXCEPT ![d] = "timer"] /\ ses' = [ses EXCEPT ![d] = nsession']
      /\ owner' = [owner EXCEPT ![nsession'] = d] /\ timers' = timers \cup {nsession'}
      /\ UNCHANGED <<watching, asleep, queues, calls, pc, running, depth, hist>>
  BY DEF Timeout
<1>2. d \in Co /\ st[d] = "free" /\ c # d
  BY UserRuns DEF Timeout, User, Free
<1>3. /\ nsession' \in Session /\ TableTypes' /\ Tables' /\ FreshSessions'
      /\ \A e \in Co : e # d => st'[e] = st[e] /\ ses'[e] = ses[e]
      /\ st'[d] = "timer" /\ ses'[d] = nsession' /\ owner'[nsession'] = d
      /\ \A t \in Session : t # nsession' => owner'[t] = owner[t]
  BY <1>1, <1>2, NewSession, TablesSplit DEF SessionInv, QueueTypes
<1>4. QueueTypes'
  BY <1>1, <1>3 DEF SessionInv, QueueTypes
<1>5. Runs'
  BY <1>1, <1>2, <1>3 DEF SessionInv, Runs
<1>6. Forked'
  BY <1>1, <1>2, <1>3, ForkedStays
<1>7. \A t \in Session : owner'[t] = Break => owner[t] = Break
  BY <1>2, <1>3, Distinct
<1> QED  BY <1>1, <1>2, <1>3, <1>4, <1>5, <1>6, <1>7, OneChanges DEF InForks, Owed

(* skynet.fork *)
LEMMA ForkSession == ASSUME SessionInv, NEW c \in Co, NEW d \in Free, Fork(c, d) PROVE SessionInv'
<1> USE DEF queues, owed, tables, hist
<1>1. /\ fork_queue' = Append(fork_queue, d) /\ st' = [st EXCEPT ![d] = "forked"]
      /\ UNCHANGED <<ses, tables, wakeup_queue, error_queue, owed, pc, running, depth, nsession, hist>>
  BY DEF Fork
<1>2. d \in Co /\ st[d] = "free" /\ c # d
  BY UserRuns DEF Fork, User, Free
<1>3. /\ TableTypes' /\ Tables' /\ st'[d] = "forked"
      /\ \A e \in Co : e # d => st'[e] = st[e]
  BY <1>1, <1>2, NewState, TablesSplit DEF SessionInv
<1>4. /\ fork_queue' \in Seq(Co \cup {Empty})
      /\ DOMAIN fork_queue \subseteq DOMAIN fork_queue'
      /\ \A i \in DOMAIN fork_queue : fork_queue'[i] = fork_queue[i]
      /\ \A i \in DOMAIN fork_queue' : i \in DOMAIN fork_queue \/ i = Len(fork_queue) + 1
      /\ Len(fork_queue) + 1 \in DOMAIN fork_queue' /\ fork_queue'[Len(fork_queue) + 1] = d
  BY <1>1, <1>2, AppendHolds DEF SessionInv, QueueTypes
<1>5. QueueTypes' /\ FreshSessions'
  BY <1>1, <1>4 DEF SessionInv, QueueTypes, FreshSessions
<1>6. Runs'
  BY <1>1, <1>2, <1>3 DEF SessionInv, Runs
<1>7. \A i \in DOMAIN fork_queue :
          fork_queue[i] # Empty => /\ fork_queue[i] \in Co /\ fork_queue[i] # d
                                   /\ st[fork_queue[i]] = "forked"
  BY <1>2 DEF SessionInv, QueueTypes, Forked
<1>8. Forked'
  <2>1. \A i \in DOMAIN fork_queue' : fork_queue'[i] # Empty => st'[fork_queue'[i]] = "forked"
    BY <1>3, <1>4, <1>7
  <2>2. \A i, j \in DOMAIN fork_queue' :
            fork_queue'[i] # Empty /\ fork_queue'[i] = fork_queue'[j] => i = j
    BY <1>4, <1>7, <1>2, Distinct DEF SessionInv, Forked
  <2> QED  BY <2>1, <2>2 DEF Forked
<1>9. InForks(d)' /\ \A e \in Co : InForks(e) => InForks(e)'
  BY <1>4 DEF InForks
<1> QED  BY <1>1, <1>2, <1>3, <1>5, <1>6, <1>8, <1>9, OneChanges DEF Owed

(* The coroutine comes to an end: by itself, *)
LEMMA EndSession == ASSUME SessionInv, NEW c \in Co, End(c) PROVE SessionInv'
<1> USE DEF queues, owed, tables, hist
<1>1. /\ st' = [st EXCEPT ![c] = "free"] /\ pc' = "wakeup"
      /\ UNCHANGED <<ses, tables, queues, owed, depth, nsession, hist>>
  BY DEF End
<1>2. st[c] = "run"
  BY UserRuns DEF End
<1>3. TableTypes' /\ Tables' /\ st'[c] = "free" /\ \A d \in Co : d # c => st'[d] = st[d]
  BY <1>1, <1>2, NewState, TablesSplit DEF SessionInv
<1>4. QueueTypes' /\ FreshSessions' /\ Runs'
  BY <1>1 DEF SessionInv, QueueTypes, FreshSessions, Runs
<1>5. Forked'
  BY <1>1, <1>2, <1>3, ForkedStays
<1> QED  BY <1>1, <1>3, <1>4, <1>5, OneChanges DEF Owed, InForks

(* with an error, *)
LEMMA DieSession == ASSUME SessionInv, NEW c \in Co, Die(c) PROVE SessionInv'
<1> USE DEF queues, owed, tables, hist
<1>1. /\ st' = [st EXCEPT ![c] = "free"] /\ pc' = "fork" /\ depth' = 0
      /\ fork_queue' = Append(fork_queue, Empty)
      /\ UNCHANGED <<ses, tables, wakeup_queue, error_queue, owed, nsession, hist>>
  BY DEF Die, Unwind
<1>2. st[c] = "run"
  BY UserRuns DEF Die, User
<1>3. TableTypes' /\ Tables' /\ st'[c] = "free" /\ \A d \in Co : d # c => st'[d] = st[d]
  BY <1>1, <1>2, NewState, TablesSplit DEF SessionInv
<1>4. /\ fork_queue' \in Seq(Co \cup {Empty})
      /\ DOMAIN fork_queue \subseteq DOMAIN fork_queue'
      /\ \A i \in DOMAIN fork_queue : fork_queue'[i] = fork_queue[i]
      /\ \A i \in DOMAIN fork_queue' : i \in DOMAIN fork_queue \/ fork_queue'[i] = Empty
  BY <1>1, AppendHolds DEF SessionInv, QueueTypes
<1>5. QueueTypes' /\ FreshSessions' /\ Runs'
  BY <1>1, <1>4 DEF SessionInv, QueueTypes, FreshSessions, Runs
<1>6. \A i \in DOMAIN fork_queue :
          fork_queue[i] # Empty => fork_queue[i] \in Co /\ fork_queue[i] # c
  BY <1>2 DEF SessionInv, QueueTypes, Forked
<1>7. Forked'
  BY <1>3, <1>4, <1>6 DEF SessionInv, Forked
<1>8. \A d \in Co : InForks(d) => InForks(d)'
  BY <1>4 DEF InForks
<1> QED  BY <1>1, <1>3, <1>5, <1>7, <1>8, OneChanges DEF Owed

(* or with the service. *)
LEMMA ExitSession == ASSUME SessionInv, NEW c \in Co, Exit(c) PROVE SessionInv'
<1> USE DEF queues, owed, tables, hist
<1>1. /\ st' = [st EXCEPT ![c] = "quit"] /\ exited' = TRUE /\ fork_queue' = <<>>
      /\ \/ depth > 0 /\ pc' = "error" /\ depth' = depth - 1
         \/ pc' = "fork" /\ depth' = depth
      /\ UNCHANGED <<ses, tables, wakeup_queue, error_queue, owed, nsession, stale, badresume>>
  BY DEF Exit
<1>2. st[c] = "run"
  BY UserRuns DEF Exit, User
<1>3. TableTypes' /\ Tables' /\ st'[c] = "quit" /\ \A d \in Co : d # c => st'[d] = st[d]
  BY <1>1, <1>2, NewState, TablesSplit DEF SessionInv
<1>4. QueueTypes' /\ FreshSessions' /\ Runs'
  BY <1>1 DEF SessionInv, QueueTypes, FreshSessions, Runs
<1>5. Forked'
  BY <1>1 DEF Forked
<1> QED  BY <1>1, <1>3, <1>4, <1>5, OneChanges DEF Owed

(* Every session that watches a service that is down has its place in the  *)
(* error queue, behind what was there.                                     *)
LEMMA DownOwes ==
    ASSUME SessionInv, NEW b, Down(b)
    PROVE  /\ error_queue' \in Seq(Session)
           /\ \A i \in DOMAIN error_queue :
                 i \in DOMAIN error_queue' /\ error_queue'[i] = error_queue[i]
           /\ \A s \in Session :
                 watching[s] = b => \E i \in DOMAIN error_queue' : error_queue'[i] = s
<1> DEFINE S == {s \in Session : watching[s] = b}
<1>1. PICK order \in SetToSeqs(S) : error_queue' = error_queue \o order
  BY DEF Down
<1>2. IsFiniteSet(Session)
  BY LuaAssumption, FS_Interval DEF Session
<1>3. IsFiniteSet(S)
  BY <1>2, FS_Subset
<1>4. S \subseteq Session
  OBVIOUS
<1> HIDE DEF S
<1>5. order \in Seq(S) /\ \A s \in S : \E i \in DOMAIN order : order[i] = s
  BY <1>3, OrderHolds
<1>6. order \in Seq(Session)
  BY <1>4, <1>5
<1>7. /\ error_queue' \in Seq(Session)
      /\ \A i \in DOMAIN error_queue :
            i \in DOMAIN error_queue' /\ error_queue'[i] = error_queue[i]
      /\ \A j \in DOMAIN order : /\ Len(error_queue) + j \in DOMAIN error_queue'
                                 /\ error_queue'[Len(error_queue) + j] = order[j]
  BY <1>1, <1>6, ConcatHolds DEF SessionInv, QueueTypes
<1>8. \A s \in S : \E i \in DOMAIN error_queue' : error_queue'[i] = s
  BY <1>5, <1>7
<1> QED  BY <1>7, <1>8 DEF S

(* The other operations leave the tables alone. *)
LEMMA QuietSession ==
    ASSUME SessionInv, NEW c \in Co,
           \/ \E token \in Co : Wakeup(c, token)
           \/ \E b \in Service : Term(c, b)
           \/ Ret(c) \/ Response(c) \/ \E r \in unresponse : UseResponse(c, r)
    PROVE  SessionInv'
<1> USE DEF queues, owed, tables, hist
<1>1. CASE \E token \in Co : Wakeup(c, token)
  <2>1. PICK token \in Co : Wakeup(c, token)
    BY <1>1
  <2>2. /\ wakeup_queue' = Append(wakeup_queue, token)
        /\ UNCHANGED <<st, ses, tables, error_queue, fork_queue, owed, pc, running, depth, nsession, hist>>
    BY <2>1 DEF Wakeup
  <2>3. QueueTypes' /\ Runs' /\ Forked'
    BY <2>2, AppendHolds DEF SessionInv, QueueTypes, Runs, Forked
  <2> QED  BY <2>2, <2>3, TablesStay DEF Owed, InForks
<1>2. CASE \E b \in Service : Term(c, b)
  <2>1. PICK b \in Service : Term(c, b)
    BY <1>2
  <2>2. UNCHANGED <<st, ses, tables, wakeup_queue, fork_queue, owed, pc, running, depth, nsession, hist>>
    BY <2>1 DEF Term
  <2>3. /\ error_queue' \in Seq(Session)
        /\ \A i \in DOMAIN error_queue :
              i \in DOMAIN error_queue' /\ error_queue'[i] = error_queue[i]
    BY <2>1, DownOwes DEF Term
  <2>4. QueueTypes' /\ Runs' /\ Forked'
    BY <2>2, <2>3 DEF SessionInv, QueueTypes, Runs, Forked
  <2> QED  BY <2>2, <2>3, <2>4, TablesStay DEF Owed, InForks
<1>3. CASE Ret(c) \/ Response(c) \/ \E r \in unresponse : UseResponse(c, r)
  <2>1. UNCHANGED <<st, ses, tables, queues, owed, pc, running, depth, nsession, hist>>
    BY <1>3 DEF Ret, Response, UseResponse
  <2>2. QueueTypes' /\ Runs' /\ Forked'
    BY <2>1 DEF SessionInv, QueueTypes, Runs, Forked
  <2> QED  BY <2>1, <2>2, TablesStay DEF Owed, InForks
<1> QED  BY <1>1, <1>2, <1>3

-----------------------------------------------------------------------------
(* And the messages that raw_dispatch_message handles *)
LEMMA ReceiveSession ==
    ASSUME SessionInv, NEW c \in Free, NEW b \in Service, Receive(c, b) PROVE SessionInv'
<1> USE DEF queues, owed, tables, hist
<1>1. Resume(c, owner) /\ UNCHANGED <<queues, owed, depth, nsession, hist>>
  BY DEF Receive
<1>2. c \in Co /\ st[c] = "free"
  BY DEF Free
<1>3. /\ TableTypes' /\ Tables' /\ pc' = "run" /\ Runs' /\ owner' = owner
      /\ \A d \in Co : d # c => st'[d] = st[d] /\ ses'[d] = ses[d]
      /\ st'[c] = "run"
  BY <1>1, <1>2, ResumeNew, TablesSplit DEF SessionInv
<1>4. QueueTypes' /\ FreshSessions'
  BY <1>1, <1>3 DEF SessionInv, QueueTypes, FreshSessions
<1>5. Forked'
  BY <1>1, <1>2, <1>3, ForkedStays
<1> QED  BY <1>1, <1>2, <1>3, <1>4, <1>5, OneChanges DEF Owed, InForks

(* An answer, or a timer: the session is over, whether its coroutine was     *)
(* woken before or not.                                                      *)
LEMMA RespondSession == ASSUME SessionInv, NEW s \in Session, Respond(s) PROVE SessionInv'
<1> USE DEF queues, owed, tables, hist
<1>1. /\ calls' = calls \ {s} /\ timers' = timers \ {s}
      /\ UNCHANGED <<queues, depth, nsession, hist>> /\ pc = "idle"
  BY DEF Respond
<1>2. \A t \in Session : t # s /\ Owed(t) => Owed(t)'
  BY <1>1 DEF Owed
<1>3. CASE owner[s] \in Co
  <2>1. Resume(owner[s], [owner EXCEPT ![s] = None])
    BY <1>3 DEF Respond
  <2>2. pc' = "run"
    BY <2>1 DEF Resume
  <2>3. QueueTypes'
    BY <1>1, <2>2 DEF SessionInv, QueueTypes
  <2> QED  BY <1>1, <1>2, <1>3, <2>1, <2>3, OwnerResumed, Distinct
<1>4. CASE owner[s] \notin Co
  <2>1. owner' = [owner EXCEPT ![s] = None] /\ UNCHANGED <<st, ses, watching, asleep, pc, running>>
    BY <1>4 DEF Respond
  <2>2. \A t \in Session : t # s => owner'[t] = owner[t]
    BY <2>1 DEF SessionInv, TableTypes
  <2>3. owner'[s] = None /\ owner'[s] \notin Co
    BY <2>1, Distinct DEF SessionInv, TableTypes
  <2>4. TableTypes' /\ QueueTypes' /\ Runs' /\ Forked'
    BY <1>1, <2>1 DEF SessionInv, TableTypes, QueueTypes, Runs, Forked, Waits
  <2>5. FreshSessions'
    BY <1>1, <2>2, <2>3 DEF SessionInv, FreshSessions
  <2>6. \A d \in Co : Waits(d) => ses[d] \in Session /\ ses[d] # s
    BY <1>4, TablesSplit DEF SessionInv, Tables, Suspended, TableTypes, Waits
  <2>7. Tables'
    BY <1>4, <2>1, <2>2, <2>3, <2>6, TablesSplit DEF SessionInv, Tables, Suspended, Waits
  <2>8. Breaks'
    BY <1>1, <2>2, <2>3, TablesSplit, Distinct DEF SessionInv, Breaks
  <2>9. NoneForgotten'
    BY <1>1, <1>2, <2>1, <2>6 DEF SessionInv, NoneForgotten, Waits
  <2> QED  BY <2>4, <2>5, <2>7, <2>8, <2>9 DEF SessionInv, TablesAgree, Tables, Breaks
<1> QED  BY <1>3, <1>4

(* An error for one session puts it into the error queue while it is         *)
(* watched.                                                                  *)
LEMMA FailSession == ASSUME SessionInv, NEW s \in Session, Fail(s) PROVE SessionInv'
<1> USE DEF queues, owed, tables, hist
<1>1. /\ calls' = calls \ {s} /\ pc' = "wakeup"
      /\ error_queue' = IF watching[s] # None THEN Append(error_queue, s) ELSE error_queue
      /\ UNCHANGED <<st, ses, tables, wakeup_queue, fork_queue, timers, depth, nsession, hist>>
  BY DEF Fail
<1>2. /\ error_queue' \in Seq(Session)
      /\ \A i \in DOMAIN error_queue :
            i \in DOMAIN error_queue' /\ error_queue'[i] = error_queue[i]
      /\ watching[s] # None => \E i \in DOMAIN error_queue' : error_queue'[i] = s
  BY <1>1, AppendHolds DEF SessionInv, QueueTypes
<1>3. QueueTypes' /\ Runs' /\ Forked'
  BY <1>1, <1>2 DEF SessionInv, QueueTypes, Runs, Forked
<1>4. \A t \in Session : watching[t] # None /\ Owed(t) => Owed(t)'
  BY <1>1, <1>2 DEF Owed
<1> QED  BY <1>1, <1>3, <1>4, TablesStay DEF InForks

(* A service is gone: what it owed is in the error queue. *)
LEMMA ServiceDownSession == ASSUME SessionInv, NEW b \in Service, ServiceDown(b) PROVE SessionInv'
<1> USE DEF queues, owed, tables, hist
<1>1. /\ calls' \in {calls, {s \in calls : watching[s] # b}} /\ pc' = "wakeup"
      /\ UNCHANGED <<st, ses, tables, wakeup_queue, fork_queue, timers, depth, nsession, hist>>
  BY DEF ServiceDown
<1>2. /\ error_queue' \in Seq(Session)
      /\ \A i \in DOMAIN error_queue :
            i \in DOMAIN error_queue' /\ error_queue'[i] = error_queue[i]
      /\ \A s \in Session :
            watching[s] = b => \E i \in DOMAIN error_queue' : error_queue'[i] = s
  BY DownOwes DEF ServiceDown
<1>3. QueueTypes' /\ Runs' /\ Forked'
  BY <1>1, <1>2 DEF SessionInv, QueueTypes, Runs, Forked
<1>4. \A t \in Session : watching[t] # None /\ Owed(t) => Owed(t)'
  BY <1>1, <1>2 DEF Owed
<1> QED  BY <1>1, <1>3, <1>4, TablesStay DEF InForks

(* Every step keeps the sessions. *)
LEMMA SessionStep == SessionInv /\ [Next]_vars => SessionInv'
<1> SUFFICES ASSUME SessionInv, [Next]_vars PROVE SessionInv'
  OBVIOUS
<1>1. CASE Runtime
  BY <1>1, DispatchWakeupSession, DispatchErrorQueueSession, DispatchForkSession DEF Runtime
<1>2. ASSUME NEW c \in Co, UserStep(c) \/ End(c) PROVE SessionInv'
  BY <1>2, CallSession, SleepSession, TimeoutSession, ForkSession, EndSession, DieSession, ExitSession,
     QuietSession DEF UserStep
<1>3. ASSUME NEW c \in Free, NEW b \in Service, Receive(c, b) PROVE SessionInv'
  BY <1>3, ReceiveSession
<1>4. ASSUME NEW s \in Session, Deliver(s) PROVE SessionInv'
  BY <1>4, RespondSession, FailSession DEF Deliver
<1>5. ASSUME NEW b \in Service, ServiceDown(b) PROVE SessionInv'
  BY <1>5, ServiceDownSession
<1>6. CASE UNCHANGED vars
  <2> USE DEF vars, queues, owed, tables, hist
  <2>1. QueueTypes' /\ Runs' /\ Forked'
    BY <1>6 DEF SessionInv, QueueTypes, Runs, Forked
  <2> QED  BY <1>6, <2>1, TablesStay DEF Owed, InForks
<1> QED  BY <1>1, <1>2, <1>3, <1>4, <1>5, <1>6 DEF Next

-----------------------------------------------------------------------------
(* The requests: an answer goes to one that is open, and closes it. *)
LEMMA RequestsClose ==
    ASSUME RequestInv, NEW rs, Answer(rs), exited' = exited, nrequest' = nrequest,
           request' \in [Co -> Request \cup {None, Empty}],
           \A c \in Co : request'[c] \in Request => request'[c] = request[c] /\ request'[c] \notin rs,
           unresponse' \subseteq unresponse \ rs,
           ~exited => \A r \in Request \cap rs : r \in unresponse \/ \E c \in Co : request[c] = r
    PROVE  RequestInv'
<1>1. answers' \in [Request -> Nat]
  BY DEF Answer, RequestInv, RequestTypeOK
<1>2. \A r \in Request : answers'[r] = IF r \in rs THEN answers[r] + 1 ELSE answers[r]
  BY DEF Answer
<1>3. RequestTypeOK'
  BY <1>1 DEF RequestInv, RequestTypeOK
<1>4. CASE exited
  BY <1>3, <1>4 DEF RequestInv, OneHolder, FreshRequests, AnsweredOnce
<1>5. CASE ~exited
  <2>1. \A r \in Request \cap rs : answers[r] = 0 /\ ~(r > nrequest)
    BY <1>5 DEF RequestInv, AnsweredOnce, FreshRequests
  <2>2. OneHolder'
    BY <1>5 DEF RequestInv, OneHolder
  <2>3. FreshRequests'
    <3>1. \A r \in Request : r > nrequest => answers'[r] = 0
      BY <1>2, <1>5, <2>1 DEF RequestInv, FreshRequests
    <3> QED  BY <1>5, <3>1 DEF RequestInv, FreshRequests
  <2>4. AnsweredOnce'
    <3>1. \A r \in Request : answers'[r] <= 1
      BY <1>2, <1>5, <2>1 DEF RequestInv, AnsweredOnce
    <3>2. \A r \in Request : r \notin rs => answers'[r] = answers[r]
      BY <1>2
    <3>3. unresponse \subseteq Request
      BY DEF RequestInv, RequestTypeOK
    <3> QED  BY <1>5, <3>1, <3>2, <3>3 DEF RequestInv, AnsweredOnce
  <2> QED  BY <1>3, <2>2, <2>3, <2>4 DEF RequestInv
<1> QED  BY <1>4, <1>5

(* No answer is the answer to nobody. *)
LEMMA NoAnswer == ASSUME RequestInv, answers' = answers PROVE Answer({})
BY DEF RequestInv, RequestTypeOK, Answer

(* The coroutine's own request is no longer its own. *)
LEMMA RequestDropped ==
    ASSUME RequestInv, NEW c \in Co, request' = [request EXCEPT ![c] = Empty]
    PROVE  /\ request' \in [Co -> Request \cup {None, Empty}] /\ request'[c] \notin Request
           /\ \A d \in Co : d # c => request'[d] = request[d]
           /\ ~exited => \A d \in Co : d # c /\ request[d] \in Request => request[d] # request[c]
BY Distinct DEF RequestInv, RequestTypeOK, OneHolder

(* skynet.ret, and an error that nobody catches *)
LEMMA CloseRequest ==
    ASSUME RequestInv, exited \in BOOLEAN, NEW c \in Co, Ret(c) \/ Die(c) PROVE RequestInv'
<1>1. /\ Answer({request[c]}) /\ request' = [request EXCEPT ![c] = Empty]
      /\ UNCHANGED <<unresponse, nrequest, exited>>
  BY DEF Ret, Die, hist
<1>2. CASE ~exited
  <2>1. request[c] \notin unresponse
    BY <1>2 DEF RequestInv, AnsweredOnce, RequestTypeOK
  <2>2. \A d \in Co : request'[d] \in Request => request'[d] = request[d] /\ request'[d] # request[c]
    BY <1>1, <1>2, RequestDropped
  <2> QED  BY <1>1, <1>2, <2>1, <2>2, RequestDropped, RequestsClose, ZenonT(30)
<1>3. CASE exited
  <2>1. RequestTypeOK'
    BY <1>1, RequestDropped DEF RequestInv, RequestTypeOK, Answer
  <2> QED  BY <1>1, <1>3, <2>1 DEF RequestInv, OneHolder, FreshRequests, AnsweredOnce
<1> QED  BY <1>2, <1>3

(* The closure of skynet.response is called. *)
LEMMA UseRequest ==
    ASSUME RequestInv, exited \in BOOLEAN, NEW c \in Co, NEW r \in unresponse, UseResponse(c, r)
    PROVE  RequestInv'
<1>1. /\ Answer({r}) /\ unresponse' = unresponse \ {r}
      /\ UNCHANGED <<request, nrequest, exited>>
  BY DEF UseResponse, hist
<1>2. CASE ~exited
  <2>1. \A d \in Co : request[d] \in Request => request[d] # r
    BY <1>2 DEF RequestInv, AnsweredOnce
  <2> QED  BY <1>1, <2>1, RequestsClose DEF RequestInv, RequestTypeOK
<1>3. CASE exited
  <2>1. RequestTypeOK'
    BY <1>1 DEF RequestInv, RequestTypeOK, Answer
  <2> QED  BY <1>1, <1>3, <2>1 DEF RequestInv, OneHolder, FreshRequests, AnsweredOnce
<1> QED  BY <1>2, <1>3

(* A request is dropped without an answer. *)
LEMMA DropRequest ==
    ASSUME RequestInv, NEW c \in Co, request' = [request EXCEPT ![c] = Empty],
           unresponse' \subseteq unresponse, UNCHANGED <<answers, nrequest, exited>>
    PROVE  RequestInv'
<1>1. \A d \in Co : request'[d] \in Request => request'[d] = request[d]
  BY RequestDropped
<1> QED  BY <1>1, RequestDropped, NoAnswer, RequestsClose

(* Closures of a service that is gone may be dropped. *)
LEMMA SameRequests ==
    ASSUME RequestInv, unresponse' \subseteq unresponse, UNCHANGED <<request, answers, nrequest, exited>>
    PROVE  RequestInv'
BY NoAnswer, RequestsClose DEF RequestInv, RequestTypeOK

(* skynet.response hands the request on to a closure. *)
LEMMA HandOn == ASSUME RequestInv, exited \in BOOLEAN, NEW c \in Co, Response(c) PROVE RequestInv'
<1>1. /\ request[c] \in Request /\ unresponse' = unresponse \cup {request[c]}
      /\ request' = [request EXCEPT ![c] = Empty]
      /\ UNCHANGED <<answers, nrequest, exited>>
  BY DEF Response, hist
<1>2. /\ request' \in [Co -> Request \cup {None, Empty}] /\ request'[c] \notin Request
      /\ \A d \in Co : d # c => request'[d] = request[d]
      /\ ~exited => \A d \in Co : d # c /\ request[d] \in Request => request[d] # request[c]
  BY <1>1, RequestDropped
<1>3. RequestTypeOK'
  BY <1>1, <1>2 DEF RequestInv, RequestTypeOK
<1>4. CASE ~exited
  <2>1. OneHolder'
    BY <1>1, <1>2, <1>4 DEF RequestInv, OneHolder
  <2>2. FreshRequests'
    BY <1>1, <1>2, <1>4 DEF RequestInv, FreshRequests
  <2>3. AnsweredOnce'
    BY <1>1, <1>2, <1>4 DEF RequestInv, AnsweredOnce
  <2> QED  BY <1>3, <2>1, <2>2, <2>3 DEF RequestInv
<1>5. CASE exited
  BY <1>1, <1>3, <1>5 DEF RequestInv, OneHolder, FreshRequests, AnsweredOnce
<1> QED  BY <1>4, <1>5

(* After skynet.exit nothing more is promised. *)
LEMMA ExitRequest == ASSUME RequestInv, NEW c \in Co, Exit(c) PROVE RequestInv'
<1>1. /\ exited' = TRUE /\ unresponse' = {} /\ UNCHANGED <<request, nrequest>>
      /\ Answer({request[d] : d \in Co} \cup unresponse)
  BY DEF Exit
<1>2. RequestTypeOK'
  <2> DEFINE rs == {request[d] : d \in Co} \cup unresponse
  <2>1. Answer(rs)  BY <1>1
  <2> HIDE DEF rs
  <2>2. answers' \in [Request -> Nat]  BY <2>1 DEF Answer, RequestInv, RequestTypeOK
  <2> QED  BY <1>1, <2>2 DEF RequestInv, RequestTypeOK
<1> QED  BY <1>1, <1>2 DEF RequestInv, OneHolder, FreshRequests, AnsweredOnce

(* A request comes, with a number of its own, or a send. *)
LEMMA NewRequest ==
    ASSUME RequestInv, exited \in BOOLEAN, NEW c \in Co, NEW b \in Service, Receive(c, b)
    PROVE  RequestInv'
<1>1. UNCHANGED <<unresponse, answers, exited>>
  BY DEF Receive, hist
<1>2. CASE request' = [request EXCEPT ![c] = None] /\ nrequest' = nrequest
  <2>1. /\ request' \in [Co -> Request \cup {None, Empty}]
        /\ \A d \in Co : request'[d] \in Request => request'[d] = request[d]
    BY <1>2, Distinct DEF RequestInv, RequestTypeOK
  <2> QED  BY <1>1, <1>2, <2>1, NoAnswer, RequestsClose
<1>3. CASE /\ nrequest < MaxRequest /\ nrequest' = nrequest + 1
           /\ request' = [request EXCEPT ![c] = nrequest']
  <2> DEFINE n == nrequest'
  <2>1. n \in Request /\ n > nrequest /\ \A r \in Request : r > n => r > nrequest /\ r # n
    BY <1>3, LuaAssumption DEF RequestInv, RequestTypeOK, Request
  <2>2. request' = [request EXCEPT ![c] = n]
    BY <1>3
  <2> HIDE DEF n
  <2>3. RequestTypeOK'
    BY <1>1, <2>1, <2>2 DEF RequestInv, RequestTypeOK, n
  <2>4. request'[c] = n /\ \A d \in Co : d # c => request'[d] = request[d]
    BY <2>2 DEF RequestInv, RequestTypeOK
  <2>5. CASE ~exited
    <3>1. answers[n] = 0 /\ n \notin unresponse /\ \A d \in Co : request[d] # n
      BY <2>1, <2>5 DEF RequestInv, FreshRequests
    <3>2. OneHolder'
      BY <2>4, <2>5, <3>1 DEF RequestInv, OneHolder
    <3>3. FreshRequests'
      BY <1>1, <2>1, <2>4, <2>5 DEF RequestInv, FreshRequests, n
    <3>4. AnsweredOnce'
      BY <1>1, <2>4, <2>5, <3>1 DEF RequestInv, AnsweredOnce
    <3> QED  BY <2>3, <3>2, <3>3, <3>4 DEF RequestInv
  <2>6. CASE exited
    BY <1>1, <2>3, <2>6 DEF RequestInv, OneHolder, FreshRequests, AnsweredOnce
  <2> QED  BY <2>5, <2>6
<1> QED  BY <1>2, <1>3 DEF Receive

(* Every step keeps the requests. *)
LEMMA RequestStep == SessionInv /\ RequestInv /\ [Next]_vars => RequestInv'
<1> SUFFICES ASSUME SessionInv, RequestInv, [Next]_vars PROVE RequestInv'
  OBVIOUS
<1> USE DEF reqVars, hist
<1>1. exited \in BOOLEAN
  BY DEF SessionInv, QueueTypes
<1>2. CASE Runtime
  <2>1. UNCHANGED <<reqVars, exited>>
    BY <1>2 DEF Runtime, DispatchWakeup, DispatchErrorQueue, DispatchFork
  <2> QED  BY <2>1, SameRequests
<1>3. ASSUME NEW c \in Co, UserStep(c) \/ End(c) PROVE RequestInv'
  <2>1. CASE Ret(c) \/ Die(c)
    BY <1>1, <2>1, CloseRequest
  <2>2. CASE \E r \in unresponse : UseResponse(c, r)
    BY <1>1, <2>2, UseRequest
  <2>3. CASE Response(c)
    BY <1>1, <2>3, HandOn
  <2>4. CASE Exit(c)
    BY <2>4, ExitRequest
  <2>5. CASE End(c) \/ \E b \in Service : Term(c, b)
    <3>1. /\ request' = [request EXCEPT ![c] = Empty] /\ unresponse' \subseteq unresponse
          /\ UNCHANGED <<answers, nrequest, exited>>
      BY <2>5 DEF End, Term, Down
    <3> QED  BY <3>1, DropRequest
  <2>6. CASE \/ \E b \in Service : Call(c, b)
             \/ \E state \in {"sleep", "wait"} : Sleep(c, state)
             \/ \E token \in Co : Wakeup(c, token)
             \/ \E d \in Free : Fork(c, d) \/ Timeout(c, d)
    <3>1. UNCHANGED <<reqVars, exited>>
      BY <2>6 DEF Call, Sleep, Wakeup, Fork, Timeout
    <3> QED  BY <3>1, SameRequests
  <2> QED  BY <1>3, <2>1, <2>2, <2>3, <2>4, <2>5, <2>6 DEF UserStep
<1>4. ASSUME NEW c \in Free, NEW b \in Service, Receive(c, b) PROVE RequestInv'
  BY <1>1, <1>4, NewRequest DEF Free
<1>5. ASSUME NEW s \in Session, Deliver(s) PROVE RequestInv'
  <2>1. UNCHANGED <<reqVars, exited>>
    BY <1>5 DEF Deliver, Respond, Fail
  <2> QED  BY <2>1, SameRequests
<1>6. ASSUME NEW b \in Service, ServiceDown(b) PROVE RequestInv'
  <2>1. unresponse' \subseteq unresponse /\ UNCHANGED <<request, answers, nrequest, exited>>
    BY <1>6 DEF ServiceDown, Down
  <2> QED  BY <2>1, SameRequests
<1>7. CASE UNCHANGED vars
  BY <1>7, SameRequests DEF vars
<1> QED  BY <1>2, <1>3, <1>4, <1>5, <1>6, <1>7 DEF Next

-----------------------------------------------------------------------------
(* What suspend() and dispatch_message leave in the queues *)
LEMMA ChainRuns == ASSUME pc' \in {"run", "wakeup"} PROVE Chain'
BY DEF Chain

(* The runtime empties the wakeup queue before the error queue, and that     *)
(* before the fork queue.                                                    *)
LEMMA RuntimeChain == ASSUME SessionInv, Chain, Runtime PROVE Chain'
<1> USE DEF queues, tables, hist
<1>1. stale \in BOOLEAN /\ badresume \in BOOLEAN /\ exited \in BOOLEAN
  BY DEF SessionInv, QueueTypes
<1>2. CASE DispatchWakeup
  <2>1. CASE wakeup_queue = <<>>
    <3>1. pc' = "error" /\ wakeup_queue' = <<>>
      BY <1>2, <2>1 DEF DispatchWakeup
    <3> QED  BY <3>1 DEF Chain, Woken
  <2>2. CASE wakeup_queue # <<>> /\ asleep[Head(wakeup_queue)] = None
    <3>1. pc' = "error" /\ stale' = TRUE
      BY <1>2, <2>2 DEF DispatchWakeup
    <3> QED  BY <3>1 DEF Chain, Woken
  <2>3. CASE wakeup_queue # <<>> /\ asleep[Head(wakeup_queue)] # None
    <3>1. pc' = "run"
      BY <1>2, <2>3 DEF DispatchWakeup, Resume
    <3> QED  BY <3>1, ChainRuns
  <2> QED  BY <2>1, <2>2, <2>3
<1>3. CASE DispatchErrorQueue
  <2>1. CASE error_queue = <<>>
    <3>1. /\ pc = "error" /\ pc' \in {"error", "fork"} /\ error_queue' = <<>>
          /\ UNCHANGED <<wakeup_queue, hist>>
      BY <1>3, <2>1 DEF DispatchErrorQueue
    <3> QED  BY <3>1 DEF Chain, Woken
  <2>2. CASE error_queue # <<>> /\ owner[Head(error_queue)] \in Co
    <3>1. pc' = "run"
      BY <1>3, <2>2 DEF DispatchErrorQueue, Resume
    <3> QED  BY <3>1, ChainRuns
  <2>3. CASE error_queue # <<>> /\ owner[Head(error_queue)] \notin Co
    <3>1. badresume' = TRUE
      BY <1>3, <2>3 DEF DispatchErrorQueue
    <3> QED  BY <3>1 DEF Chain
  <2> QED  BY <2>1, <2>2, <2>3
<1>4. CASE DispatchFork
  <2>1. CASE fork_queue = <<>>
    <3>1. /\ pc = "fork" /\ pc' = "idle" /\ UNCHANGED <<queues, hist>>
      BY <1>4, <2>1 DEF DispatchFork
    <3>2. DOMAIN fork_queue = {}
      BY <2>1
    <3> QED  BY <3>1, <3>2 DEF Chain, Woken
  <2>2. CASE fork_queue # <<>>
    <3>1. pc' \in {"run", "wakeup"}
      BY <1>4, <2>2 DEF DispatchFork, Resume
    <3> QED  BY <3>1, ChainRuns
  <2> QED  BY <2>1, <2>2
<1> QED  BY <1>2, <1>3, <1>4 DEF Runtime

(* User code that fills a queue comes back to suspend(), or leaves a fork    *)
(* that does.                                                                *)
LEMMA UserChain == ASSUME SessionInv, NEW c \in Co, UserStep(c) \/ End(c) PROVE Chain'
<1>1. CASE Die(c)
  <2>1. fork_queue' = Append(fork_queue, Empty) /\ pc' = "fork"
    BY <1>1 DEF Die, Unwind
  <2>2. \E i \in DOMAIN fork_queue' : fork_queue'[i] = Empty
    BY <2>1, AppendHolds DEF SessionInv, QueueTypes
  <2> QED  BY <2>1, <2>2 DEF Chain
<1>2. CASE Exit(c)
  BY <1>2 DEF Exit, Chain
<1>3. CASE ~Die(c) /\ ~Exit(c)
  <2>1. pc' \in {"run", "wakeup"}
    BY <1>3 DEF UserStep, User, SuspendIn, Call, Term, Sleep, Wakeup, Fork, Timeout, Ret, Response,
                UseResponse, End
  <2> QED  BY <2>1, ChainRuns
<1> QED  BY <1>1, <1>2, <1>3

(* An answer to nobody leaves the queues as they are. *)
LEMMA RespondChain == ASSUME SessionInv, Chain, NEW s \in Session, Respond(s) PROVE Chain'
<1>1. CASE owner[s] \in Co
  BY <1>1, ChainRuns DEF Respond, Resume
<1>2. CASE owner[s] \notin Co
  BY <1>2 DEF Respond, Chain, Woken, queues, hist
<1> QED  BY <1>1, <1>2

(* Every step keeps the chain of suspend() and dispatch_message. *)
LEMMA ChainStep == SessionInv /\ Chain /\ [Next]_vars => Chain'
<1> SUFFICES ASSUME SessionInv, Chain, [Next]_vars PROVE Chain'
  OBVIOUS
<1>1. ASSUME NEW c \in Free, NEW b \in Service, Receive(c, b) PROVE Chain'
  BY <1>1, ChainRuns DEF Receive, Resume
<1>2. ASSUME NEW s \in Session, Deliver(s) PROVE Chain'
  BY <1>2, RespondChain, ChainRuns DEF Deliver, Fail
<1>3. ASSUME NEW b \in Service, ServiceDown(b) PROVE Chain'
  BY <1>3, ChainRuns DEF ServiceDown
<1>4. CASE UNCHANGED vars
  BY <1>4 DEF Chain, Woken, vars, queues, hist
<1> QED  BY <1>1, <1>2, <1>3, <1>4, RuntimeChain, UserChain DEF Next

-----------------------------------------------------------------------------
(* skynet.start establishes the invariant. *)
LEMMA InitInv == Init => LuaInv
<1> SUFFICES ASSUME Init PROVE LuaInv
  OBVIOUS
<1> USE DEF Init
<1>1. PICK first \in Co :
          /\ st = [c \in Co |-> IF c = first THEN "timer" ELSE "free"]
          /\ ses = [c \in Co |-> IF c = first THEN 1 ELSE None]
          /\ owner = [s \in Session |-> IF s = 1 THEN first ELSE None]
  OBVIOUS
<1>2. 1 \in Session /\ \A s \in Session : s > 1 => s # 1
  BY LuaAssumption DEF Session
<1>3. TableTypes
  BY <1>1, <1>2 DEF TableTypes, Waits
<1>4. QueueTypes
  <2>1. stale \in BOOLEAN /\ badresume \in BOOLEAN /\ exited \in BOOLEAN
    OBVIOUS
  <2>2. <<>> \in Seq(Co) /\ <<>> \in Seq(Session) /\ <<>> \in Seq(Co \cup {Empty})
    OBVIOUS
  <2> QED  BY <1>2, <2>1, <2>2 DEF QueueTypes
<1>5. Runs /\ Forked /\ FreshSessions
  BY <1>1, <1>2 DEF Runs, Forked, FreshSessions
<1>6. TablesAgree
  BY <1>1, <1>2, Distinct DEF TablesAgree, Suspended
<1>7. NoneForgotten
  BY <1>1, <1>2 DEF NoneForgotten
<1>8. RequestInv
  BY LuaAssumption, Distinct DEF RequestInv, RequestTypeOK, OneHolder, FreshRequests, AnsweredOnce, Request,
     None
<1>9. Chain
  BY DEF Chain, Woken
<1> QED  BY <1>3, <1>4, <1>5, <1>6, <1>7, <1>8, <1>9 DEF LuaInv, SessionInv

(***************************************************************************)
(* The inductive invariant of skynet.lua's runtime holds: the session      *)
(* tables and the coroutines agree, the requests are each with one holder, *)
(* and the queues are empty as far as suspend() and dispatch_message have  *)
(* come.                                                                   *)
(***************************************************************************)
THEOREM LuaInvariant == Spec => []LuaInv
<1>1. LuaInv /\ [Next]_vars => LuaInv'
  BY SessionStep, RequestStep, ChainStep DEF LuaInv
<1> QED  BY InitInv, <1>1, PTL DEF Spec

(***************************************************************************)
(* No coroutine is lost: session_id_coroutine, watching_session and        *)
(* sleep_session agree with what is suspended, and every suspended or      *)
(* forked coroutine has an answer, an error, a timer or a queue ahead.     *)
(***************************************************************************)
THEOREM SessionsKeptHolds == Spec => []SessionsKept
<1>1. LuaInv => SessionsKept
  BY DEF LuaInv, SessionInv, SessionsKept
<1> QED  BY <1>1, LuaInvariant, PTL

(***************************************************************************)
(* Between two messages nothing is owed: no request was answered twice,    *)
(* and dispatch_message left no failed call and, unless a token was woken  *)
(* twice, no wakeup behind.                                                *)
(***************************************************************************)
THEOREM NothingOwedHolds == Spec => []NothingOwed
<1>1. LuaInv => NothingOwed
  BY DEF LuaInv, RequestInv, Chain, Woken, NothingOwed, QueuesDrained
<1> QED  BY <1>1, LuaInvariant, PTL

(***************************************************************************)
(* skynet.exit gives every request that is open then its one answer.       *)
(***************************************************************************)
THEOREM ExitReportsHolds == Spec => ExitReports
<1> DEFINE Reported == ~exited /\ exited' =>
             \A r \in unresponse \cup {request[c] : c \in Co} : r \in Request => answers'[r] = 1
<1>1. LuaInv /\ [Next]_vars => Reported
  <2> SUFFICES ASSUME LuaInv, [Next]_vars, ~exited, exited',
                      NEW r \in unresponse \cup {request[c] : c \in Co}, r \in Request
               PROVE  answers'[r] = 1
    OBVIOUS
  <2>1. PICK c \in Co : Exit(c)
    <3>1. exited' # exited
      OBVIOUS
    <3> QED  BY <3>1 DEF Next, Runtime, DispatchWakeup, DispatchErrorQueue, DispatchFork, UserStep, Call,
                Term, Sleep, Wakeup, Fork, Timeout, Ret, Response, UseResponse, Die, End, Receive,
                Deliver, Respond, Fail, ServiceDown, vars, hist
  <2>2. answers[r] = 0
    BY DEF LuaInv, RequestInv, AnsweredOnce
  <2>3. answers' = [q \in Request |-> IF q \in {request[d] : d \in Co} \cup unresponse
                                      THEN answers[q] + 1 ELSE answers[q]]
    BY <2>1 DEF Exit, Answer
  <2> QED  BY <2>2, <2>3
<1>2. Spec => [][Reported]_vars
  <2>1. LuaInv /\ [Next]_vars => [Reported]_vars
    BY <1>1
  <2> HIDE DEF Reported
  <2> QED  BY <2>1, LuaInvariant, PTL DEF Spec
<1> QED  BY <1>2, PTL DEF ExitReports
=============================================================================
