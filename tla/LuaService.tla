------------------------------ MODULE LuaService ------------------------------
(***************************************************************************)
(* The runtime of a Lua service (lualib/skynet.lua): messages are handled  *)
(* by coroutines, which suspend in skynet.call, sleep and wait and are     *)
(* resumed by responses, errors, timers and skynet.wakeup.                 *)
(*                                                                         *)
(* One coroutine runs at a time.  When it suspends, suspend() resumes the  *)
(* owner of one wakeup token and then that of one failed session; each of  *)
(* them suspends in its turn, inside the first suspend().  `depth' is the  *)
(* number of suspend() calls that have still to look at the error queue.   *)
(* An error unwinds them all up to the pcall of dispatch_message.          *)
(*                                                                         *)
(* The token of a coroutine is the coroutine.  Which message arrives next  *)
(* is left open; what can arrive is what other services and the timer owe. *)
(***************************************************************************)
EXTENDS Integers, Sequences, FiniteSets, SequencesExt

CONSTANTS Co,           \* coroutines, used again after they end (coroutine_pool)
          Service,      \* the other services
          MaxSession,   \* bound: sessions of this service
          MaxRequest,   \* bound: requests it receives
          MaxOps,       \* bound: operations of user code
          MaxTerm       \* bound: calls of skynet.term

ASSUME LuaAssumption == MaxSession \in Nat \ {0} /\ {MaxRequest, MaxOps, MaxTerm} \subseteq Nat

Session == 1 .. MaxSession
Request == 1 .. MaxRequest
None == 0
Empty == -1             \* the coroutine of function() end
Break == -2             \* "BREAK"

ASSUME CoAssumption == Co \cap (Session \cup {None, Empty, Break}) = {}
ASSUME ServiceAssumption == None \notin Service      \* no service has the handle 0

VARIABLES
    st,         \* "free", "forked", "timer", "run", "call", "sleep", "wait" or "quit"
    ses,        \* the session a suspended coroutine waits for
    owner,      \* session_id_coroutine
    watching,   \* watching_session
    asleep,     \* sleep_session, by token
    wakeup_queue, error_queue, fork_queue,
    request,    \* session_coroutine_id: a request, None for a send, or Empty
    source,     \* the service each request came from
    unresponse, \* the requests with a pending skynet.response
    answers,    \* history: the answers each request got
    calls,      \* the sessions that another service will answer or fail
    timers,     \* the sessions that the timer will answer
    pc, running, depth,
    nsession, nrequest, ops, terms,
    stale,      \* history: a token was taken that nobody sleeps on
    badresume,  \* history: a coroutine was resumed that is not suspended
    exited      \* skynet.exit was called

tables == <<owner, watching, asleep>>
queues == <<wakeup_queue, error_queue, fork_queue>>
reqVars == <<request, source, unresponse, answers, nrequest>>
owed == <<calls, timers>>
hist == <<stale, badresume, exited>>
vars == <<st, ses, tables, queues, reqVars, owed, pc, running, depth, nsession, ops, terms, hist>>

(* skynet.start; the coroutine of start_func is the first timer to fire. *)
Init ==
    /\ \E first \in Co :
          /\ st = [c \in Co |-> IF c = first THEN "timer" ELSE "free"]
          /\ ses = [c \in Co |-> IF c = first THEN 1 ELSE None]
          /\ owner = [s \in Session |-> IF s = 1 THEN first ELSE None]
    /\ watching = [s \in Session |-> None]
    /\ asleep = [c \in Co |-> None]
    /\ wakeup_queue = <<>> /\ error_queue = <<>> /\ fork_queue = <<>>
    /\ request = [c \in Co |-> Empty]
    /\ source = [r \in Request |-> None]
    /\ unresponse = {}
    /\ answers = [r \in Request |-> 0]
    /\ calls = {} /\ timers = {1}
    /\ pc = "idle" /\ running = None /\ depth = 0
    /\ nsession = 1 /\ nrequest = 0 /\ ops = 0 /\ terms = 0
    /\ stale = FALSE /\ badresume = FALSE /\ exited = FALSE

Free == {c \in Co : st[c] = "free"}

-----------------------------------------------------------------------------
(***************************************************************************)
(* coroutine_resume(c, ...), up to the user code: what yield_call, sleep   *)
(* and wait do first when they are resumed.  own is session_id_coroutine   *)
(* as the caller leaves it.                                                *)
(***************************************************************************)
Resume(c, own) ==
    LET s == ses[c]
    IN  /\ running' = c /\ pc' = "run"
        /\ st' = [st EXCEPT ![c] = "run"]
        /\ ses' = [ses EXCEPT ![c] = None]
        /\ watching' = IF st[c] = "call" THEN [watching EXCEPT ![s] = None] ELSE watching
        /\ asleep' = [asleep EXCEPT ![c] = None]
        /\ owner' = IF st[c] = "wait" THEN [own EXCEPT ![s] = None] ELSE own

(* Resuming what is no suspended coroutine raises an error. *)
Unwind == /\ pc' = "fork" /\ running' = None /\ depth' = 0

(* Mutant: a wakeup leaves session_id_coroutine alone. *)
DispatchWakeupNoBreak ==
    /\ pc = "wakeup"
    /\ wakeup_queue' = IF wakeup_queue = <<>> THEN <<>> ELSE Tail(wakeup_queue)
    /\ IF wakeup_queue # <<>> /\ asleep[Head(wakeup_queue)] # None
       THEN Resume(owner[asleep[Head(wakeup_queue)]], owner) /\ depth' = depth + 1
       ELSE pc' = "error" /\ UNCHANGED <<st, ses, tables, running, depth>>
    /\ UNCHANGED <<error_queue, fork_queue, reqVars, owed, nsession, ops, terms, hist>>

(* dispatch_wakeup, called by suspend *)
DispatchWakeup ==
    /\ pc = "wakeup"
    /\ IF wakeup_queue = <<>>
       THEN pc' = "error" /\ UNCHANGED <<st, ses, tables, wakeup_queue, running, depth, stale>>
       ELSE LET s == asleep[Head(wakeup_queue)]
            IN  /\ wakeup_queue' = Tail(wakeup_queue)
                /\ stale' = (stale \/ s = None)
                /\ IF s = None THEN pc' = "error" /\ UNCHANGED <<st, ses, tables, running, depth>>
                   ELSE Resume(owner[s], [owner EXCEPT ![s] = Break]) /\ depth' = depth + 1
    /\ UNCHANGED <<error_queue, fork_queue, reqVars, owed, nsession, ops, terms, badresume, exited>>

(* dispatch_error_queue; when it has nothing left, suspend returns. *)
DispatchErrorQueue ==
    /\ pc = "error"
    /\ IF error_queue = <<>>
       THEN /\ IF depth > 0 THEN depth' = depth - 1 /\ UNCHANGED pc
                            ELSE pc' = "fork" /\ UNCHANGED depth
            /\ UNCHANGED <<st, ses, tables, error_queue, running, badresume>>
       ELSE LET s == Head(error_queue)
            IN  /\ error_queue' = Tail(error_queue)
                /\ IF owner[s] \in Co
                   THEN Resume(owner[s], [owner EXCEPT ![s] = None]) /\ UNCHANGED <<depth, badresume>>
                   ELSE Unwind /\ badresume' = TRUE /\ UNCHANGED <<st, ses, tables>>
    /\ UNCHANGED <<wakeup_queue, fork_queue, reqVars, owed, nsession, ops, terms, stale, exited>>

(* The loop of dispatch_message over fork_queue; function() end only suspends. *)
DispatchFork ==
    /\ pc = "fork"
    /\ IF fork_queue = <<>>
       THEN pc' = "idle" /\ running' = None /\ UNCHANGED <<st, ses, tables, fork_queue>>
       ELSE /\ fork_queue' = Tail(fork_queue)
            /\ IF Head(fork_queue) = Empty
               THEN pc' = "wakeup" /\ UNCHANGED <<st, ses, tables, running>>
               ELSE Resume(Head(fork_queue), owner)
    /\ UNCHANGED <<wakeup_queue, error_queue, reqVars, owed, depth, nsession, ops, terms, hist>>

-----------------------------------------------------------------------------
(* User code, run by coroutine c *)
User(c) == pc = "run" /\ running = c /\ ops < MaxOps /\ ops' = ops + 1

(* The coroutine yields "SUSPEND" and waits for the new session. *)
SuspendIn(c, state) ==
    /\ nsession < MaxSession
    /\ nsession' = nsession + 1
    /\ st' = [st EXCEPT ![c] = state]
    /\ ses' = [ses EXCEPT ![c] = nsession']
    /\ owner' = [owner EXCEPT ![nsession'] = c]
    /\ pc' = "wakeup"

Call(c, b) ==
    /\ User(c) /\ SuspendIn(c, "call")
    /\ watching' = [watching EXCEPT ![nsession'] = b]
    /\ calls' = calls \cup {nsession'}
    /\ UNCHANGED <<asleep, queues, reqVars, timers, running, depth, terms, hist>>

(* skynet.sleep and skynet.wait; only sleep has a timer. *)
Sleep(c, state) ==
    /\ User(c) /\ SuspendIn(c, state)
    /\ asleep' = [asleep EXCEPT ![c] = nsession']
    /\ timers' = IF state = "sleep" THEN timers \cup {nsession'} ELSE timers
    /\ UNCHANGED <<watching, queues, reqVars, calls, running, depth, terms, hist>>

Wakeup(c, token) ==
    /\ User(c) /\ asleep[token] # None
    /\ wakeup_queue' = Append(wakeup_queue, token)
    /\ UNCHANGED <<st, ses, tables, error_queue, fork_queue, reqVars, owed, pc, running, depth,
                   nsession, terms, hist>>

Fork(c, d) ==
    /\ User(c)
    /\ fork_queue' = Append(fork_queue, d)
    /\ st' = [st EXCEPT ![d] = "forked"]
    /\ UNCHANGED <<ses, tables, wakeup_queue, error_queue, reqVars, owed, pc, running, depth,
                   nsession, terms, hist>>

(* skynet.timeout *)
Timeout(c, d) ==
    /\ User(c) /\ nsession < MaxSession
    /\ nsession' = nsession + 1
    /\ st' = [st EXCEPT ![d] = "timer"]
    /\ ses' = [ses EXCEPT ![d] = nsession']
    /\ owner' = [owner EXCEPT ![nsession'] = d]
    /\ timers' = timers \cup {nsession'}
    /\ UNCHANGED <<watching, asleep, queues, reqVars, calls, pc, running, depth, terms, hist>>

Answer(rs) == answers' = [r \in Request |-> IF r \in rs THEN answers[r] + 1 ELSE answers[r]]

(* skynet.ret; without a session it raises an error (Die). *)
Ret(c) ==
    /\ User(c) /\ request[c] # Empty
    /\ Answer({request[c]})
    /\ request' = [request EXCEPT ![c] = Empty]
    /\ UNCHANGED <<st, ses, tables, queues, source, unresponse, nrequest, owed, pc, running, depth,
                   nsession, terms, hist>>

(* skynet.response: the answer is left to a closure. *)
Response(c) ==
    /\ User(c) /\ request[c] \in Request
    /\ unresponse' = unresponse \cup {request[c]}
    /\ request' = [request EXCEPT ![c] = Empty]
    /\ UNCHANGED <<st, ses, tables, queues, source, answers, nrequest, owed, pc, running, depth,
                   nsession, terms, hist>>

(* The closure is called. *)
UseResponse(c, r) ==
    /\ User(c)
    /\ Answer({r})
    /\ unresponse' = unresponse \ {r}
    /\ UNCHANGED <<st, ses, tables, queues, request, source, nrequest, owed, pc, running, depth,
                   nsession, terms, hist>>

(* _error_dispatch(0, b): every session that watches b fails, in any order. *)
Down(b) ==
    /\ unresponse' = {r \in unresponse : source[r] # b}
    /\ \E order \in SetToSeqs({s \in Session : watching[s] = b}) :
          error_queue' = error_queue \o order

(* skynet.term, with the ignoreret of _error_dispatch *)
Term(c, b) ==
    /\ User(c) /\ terms < MaxTerm
    /\ terms' = terms + 1
    /\ Down(b)
    /\ request' = [request EXCEPT ![c] = Empty]
    /\ UNCHANGED <<st, ses, tables, wakeup_queue, fork_queue, source, answers, nrequest, owed, pc,
                   running, depth, nsession, hist>>

(* The coroutine ends: co_create recycles it and yields "SUSPEND". *)
End(c) ==
    /\ pc = "run" /\ running = c
    /\ st' = [st EXCEPT ![c] = "free"]
    /\ request' = [request EXCEPT ![c] = Empty]
    /\ pc' = "wakeup"
    /\ UNCHANGED <<ses, tables, queues, source, unresponse, answers, nrequest, owed, running, depth,
                   nsession, ops, terms, hist>>

(* Mutant: the error unwinds without the fork that triggers "SUSPEND". *)
DieQuietly(c) ==
    /\ User(c)
    /\ st' = [st EXCEPT ![c] = "free"]
    /\ Answer({request[c]})
    /\ request' = [request EXCEPT ![c] = Empty]
    /\ Unwind
    /\ UNCHANGED <<ses, tables, queues, source, unresponse, nrequest, owed, nsession, terms, hist>>

(* An error nobody catches: the caller learns of it, and everything unwinds. *)
Die(c) ==
    /\ User(c)
    /\ st' = [st EXCEPT ![c] = "free"]
    /\ Answer({request[c]})
    /\ request' = [request EXCEPT ![c] = Empty]
    /\ fork_queue' = Append(fork_queue, Empty)
    /\ Unwind
    /\ UNCHANGED <<ses, tables, wakeup_queue, error_queue, source, unresponse, nrequest, owed,
                   nsession, terms, hist>>

(* Mutant: skynet.exit forgets the answers that closures owe. *)
ExitForgetsClosures(c) ==
    /\ User(c) /\ ~exited
    /\ exited' = TRUE
    /\ fork_queue' = <<>>
    /\ Answer({request[d] : d \in Co})
    /\ st' = [st EXCEPT ![c] = "quit"]
    /\ IF depth > 0 THEN pc' = "error" /\ depth' = depth - 1
                    ELSE pc' = "fork" /\ UNCHANGED depth
    /\ UNCHANGED <<ses, tables, wakeup_queue, error_queue, request, source, unresponse, nrequest,
                   owed, running, nsession, terms, stale, badresume>>

(* skynet.exit: the callers get errors; "QUIT" ends this suspend(), but not *)
(* the ones around it.                                                      *)
Exit(c) ==
    /\ User(c) /\ ~exited
    /\ exited' = TRUE
    /\ fork_queue' = <<>>
    /\ Answer({request[d] : d \in Co} \cup unresponse)
    /\ unresponse' = {}
    /\ st' = [st EXCEPT ![c] = "quit"]
    /\ IF depth > 0 THEN pc' = "error" /\ depth' = depth - 1
                    ELSE pc' = "fork" /\ UNCHANGED depth
    /\ UNCHANGED <<ses, tables, wakeup_queue, error_queue, request, source, nrequest, owed,
                   running, nsession, terms, stale, badresume>>

-----------------------------------------------------------------------------
(* raw_dispatch_message.  After skynet.exit only what the worker has still  *)
(* to dispatch in this round can come.                                      *)

(* A request or a send starts a coroutine. *)
Receive(c, b) ==
    /\ pc = "idle"
    /\ \/ /\ nrequest < MaxRequest
          /\ nrequest' = nrequest + 1
          /\ request' = [request EXCEPT ![c] = nrequest']
          /\ source' = [source EXCEPT ![nrequest'] = b]
       \/ request' = [request EXCEPT ![c] = None] /\ UNCHANGED <<nrequest, source>>
    /\ ops < MaxOps
    /\ Resume(c, owner)
    /\ UNCHANGED <<queues, unresponse, answers, owed, depth, nsession, ops, terms, hist>>

(* PTYPE_RESPONSE, of another service or of the timer *)
Respond(s) ==
    /\ pc = "idle"
    /\ s \in calls \cup timers
    /\ calls' = calls \ {s} /\ timers' = timers \ {s}
    /\ IF owner[s] \in Co
       THEN Resume(owner[s], [owner EXCEPT ![s] = None])
       ELSE /\ owner' = [owner EXCEPT ![s] = None]       \* "BREAK", or unknown_response
            /\ UNCHANGED <<st, ses, watching, asleep, pc, running>>
    /\ UNCHANGED <<queues, reqVars, depth, nsession, ops, terms, hist>>

(* Mutant: an error for one session is taken for a service that is down. *)
FailDropped(s) ==
    /\ pc = "idle"
    /\ s \in calls
    /\ calls' = calls \ {s}
    /\ pc' = "wakeup"
    /\ UNCHANGED <<st, ses, tables, queues, reqVars, timers, running, depth, nsession, ops, terms,
                   hist>>

(* PTYPE_ERROR for one session *)
Fail(s) ==
    /\ pc = "idle"
    /\ s \in calls
    /\ calls' = calls \ {s}
    /\ error_queue' = IF watching[s] # None THEN Append(error_queue, s) ELSE error_queue
    /\ pc' = "wakeup"
    /\ UNCHANGED <<st, ses, tables, wakeup_queue, fork_queue, reqVars, timers, running, depth,
                   nsession, ops, terms, hist>>

(* PTYPE_ERROR for session 0: b is gone; an answer it sent may still come. *)
ServiceDown(b) ==
    /\ pc = "idle"
    /\ Down(b)
    /\ calls' \in {calls, {s \in calls : watching[s] # b}}
    /\ b \in {watching[s] : s \in Session} \cup {source[r] : r \in unresponse}
    /\ pc' = "wakeup"
    /\ UNCHANGED <<st, ses, tables, wakeup_queue, fork_queue, request, source, answers, nrequest,
                   timers, running, depth, nsession, ops, terms, hist>>

Runtime == DispatchWakeup \/ DispatchErrorQueue \/ DispatchFork
UserStep(c) == \/ \E b \in Service : Call(c, b) \/ Term(c, b)
               \/ \E state \in {"sleep", "wait"} : Sleep(c, state)
               \/ \E token \in Co : Wakeup(c, token)
               \/ \E d \in Free : Fork(c, d) \/ Timeout(c, d)
               \/ Ret(c) \/ Response(c) \/ \E r \in unresponse : UseResponse(c, r)
               \/ Die(c) \/ Exit(c)
Deliver(s) == Respond(s) \/ Fail(s)

Next == \/ Runtime
        \/ \E c \in Co : UserStep(c) \/ End(c)
        \/ \E c \in Free, b \in Service : Receive(c, b)
        \/ \E s \in Session : Deliver(s)
        \/ \E b \in Service : ServiceDown(b)

(***************************************************************************)
(* The worker runs the service until the message is handled, user code     *)
(* comes to an end, and what other services and the timer owe is           *)
(* delivered.  Nobody has to send requests.                                *)
(***************************************************************************)
Fairness == /\ WF_vars(Runtime)
            /\ \A c \in Co : WF_vars(UserStep(c) \/ End(c))
            /\ \A s \in Session : SF_vars(Deliver(s))

Spec == Init /\ [][Next]_vars /\ Fairness

-----------------------------------------------------------------------------
Suspended == {c \in Co : st[c] \in {"call", "sleep", "wait", "timer"}}

(***************************************************************************)
(* The tables agree with the coroutines: each suspended coroutine is found *)
(* under its session, and only what is suspended is found; a session is    *)
(* watched while its call is pending, a token is asleep while its owner    *)
(* is; and no session_id_coroutine entry outlives what is owed to it.      *)
(***************************************************************************)
TablesAgree ==
    /\ \A c \in Suspended : owner[ses[c]] = c
    /\ \A s \in Session : owner[s] \in Co => owner[s] \in Suspended /\ ses[owner[s]] = s
    /\ \A s \in Session : watching[s] # None <=> owner[s] \in Co /\ st[owner[s]] = "call"
    /\ \A c \in Co : asleep[c] = IF st[c] \in {"sleep", "wait"} THEN ses[c] ELSE None
    /\ \A s \in Session : owner[s] = Break => s \in timers

(***************************************************************************)
(* No coroutine is forgotten: one that called is answered, failed, or in   *)
(* the error queue; one that sleeps has its timer; one that was forked is  *)
(* in the fork queue, unless the service exited.                           *)
(***************************************************************************)
NoneForgotten ==
    \A c \in Co :
        /\ st[c] = "call" => ses[c] \in calls \/ \E i \in DOMAIN error_queue : error_queue[i] = ses[c]
        /\ st[c] \in {"sleep", "timer"} => ses[c] \in timers
        /\ st[c] = "forked" => exited \/ \E i \in DOMAIN fork_queue : fork_queue[i] = c

(* No coroutine is lost, in the tables or beside them. *)
SessionsKept == TablesAgree /\ NoneForgotten

(***************************************************************************)
(* When a message has been handled no failed call is left over, whichever  *)
(* coroutines died or slept again meanwhile, and no wakeup, unless a token *)
(* was woken twice: the second one stops the chain of suspend().  A        *)
(* service that called skynet.exit owes this to nobody, and a resume of    *)
(* nil, which skynet.term can bring about, ends the chain as well.         *)
(***************************************************************************)
QueuesDrained ==
    pc = "idle" /\ ~exited /\ ~badresume => /\ error_queue = <<>>
                                            /\ wakeup_queue # <<>> => stale

(***************************************************************************)
(* Until skynet.exit, no session in the error queue has lost its coroutine *)
(* when its turn comes, though an answer and a broken service can race,    *)
(* and a session can fail for two reasons: coroutine_resume(nil) raises.   *)
(***************************************************************************)
ResumesSuspended == badresume => exited

(***************************************************************************)
(* Until skynet.exit a request is answered at most once, by skynet.ret, by *)
(* its closure or by an error, and never while it still counts as open.    *)
(***************************************************************************)
AnsweredOnce ==
    ~exited =>
        /\ \A r \in Request : answers[r] <= 1
        /\ \A c \in Co : request[c] \in Request => answers[request[c]] = 0 /\ request[c] \notin unresponse
        /\ \A r \in unresponse : answers[r] = 0

(***************************************************************************)
(* Between two messages the service owes nothing twice and forgets nothing *)
(* that it owes: answers to requests, failed calls, and wakeups.           *)
(***************************************************************************)
NothingOwed == AnsweredOnce /\ QueuesDrained

(***************************************************************************)
(* skynet.exit answers every request that is open at that moment, whether  *)
(* a coroutine holds it, running or suspended, or a closure.               *)
(***************************************************************************)
ExitReports ==
    [][~exited /\ exited' =>
          \A r \in unresponse \cup {request[c] : c \in Co} : r \in Request => answers'[r] = 1]_vars

(***************************************************************************)
(* "no fork coroutine can be execute after skynet.exit": the fork queue    *)
(* that dispatch_message looks at holds none.                              *)
(***************************************************************************)
NoForkAfterExit ==
    exited /\ pc = "fork" => \A i \in DOMAIN fork_queue : fork_queue[i] = Empty

(* Every skynet.call returns or raises an error, unless the service exits.  *)
CallReturns == \A c \in Co : st[c] = "call" ~> st[c] # "call" \/ exited
=============================================================================
