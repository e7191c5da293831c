------------------------------ MODULE ServiceManager ------------------------------
(***************************************************************************)
(* Services that exist once in a harbor network (service_mgr.lua), and the *)
(* launcher that starts them (launcher.lua).  Every node has a manager;    *)
(* the one of node Standalone has the name SERVICE, and the managers of    *)
(* the other nodes ask it.  One service is modelled, which every caller    *)
(* asks for by skynet.uniqueservice(true, ...) or queryservice(true, ...). *)
(*                                                                         *)
(* A coroutine of a manager serves each request; it is named by its caller *)
(* in both managers.                                                       *)
(***************************************************************************)
EXTENDS Integers, Sequences, FiniteSets, SequencesExt

CONSTANTS Node, Standalone,
          Caller, Nobody,
          Home(_),      \* the node of each caller
          Launches(_),  \* does it call uniqueservice?
          MaxHandle     \* bound: services that are launched

VARIABLES svc,          \* service[name] of each manager
          state,        \* callers: "idle", "waiting", "done"
          got,          \* ... and the handle they were given, 0 for none
          ask, reply,   \* messages from the manager of each node to SERVICE, and back
          instance,     \* launcher: whose LAUNCH each new service will answer
          answers,      \* responses of the launcher to SERVICE
          lbox,         \* messages that wait for the launcher
          boot          \* services: "none", "init", "running", "dead"

vars == <<svc, state, got, ask, reply, instance, answers, lbox, boot>>
manager == <<svc, state, got, ask, reply>>
launcher == <<instance, answers, lbox, boot>>

(* service[name]: nil, the table of who waits, a handle or an error message *)
Unset == [t |-> "nil", handle |-> 0, launch |-> Nobody, list |-> <<>>]
Handle == 1 .. MaxHandle
Failed == -1            \* an error is raised instead of a result

Init == /\ svc = [n \in Node |-> Unset]
        /\ state = [c \in Caller |-> "idle"] /\ got = [c \in Caller |-> 0]
        /\ ask = [n \in Node |-> <<>>] /\ reply = [n \in Node |-> <<>>]
        /\ instance = [h \in Handle |-> Nobody] /\ answers = <<>> /\ lbox = <<>>
        /\ boot = [h \in Handle |-> "none"]

-----------------------------------------------------------------------------
(* service_mgr.lua *)

(* skynet.ret for the coroutines cs of the manager of n: to the callers of *)
(* its node, and to the managers that have asked for theirs.               *)
Answer(n, cs, h) ==
    LET own == {c \in Range(cs) : Home(c) = n}
    IN  /\ state' = [c \in Caller |-> IF c \in own THEN "done" ELSE state[c]]
        /\ got' = [c \in Caller |-> IF c \in own /\ h > 0 THEN h ELSE got[c]]
        /\ reply' = [m \in Node |-> reply[m] \o
                        LET theirs == SelectSeq(cs, LAMBDA c : m # n /\ Home(c) = m)
                        IN  [k \in DOMAIN theirs |-> [who |-> theirs[k], handle |-> h]]]

(* waitfor: does the coroutine have a func, and nobody has called one yet? *)
HasFunc(n, c) == n # Standalone \/ Launches(c)
CallsFunc(n, c) == svc[n].launch = Nobody /\ HasFunc(n, c)

WaitFor(n, c) ==
    IF svc[n].t \in {"handle", "error"}
    THEN /\ Answer(n, <<c>>, svc[n].handle)
         /\ UNCHANGED <<svc, lbox>>
    ELSE /\ UNCHANGED <<got, reply>>
         /\ IF CallsFunc(n, c)
            THEN /\ svc' = [svc EXCEPT ![n] = [@ EXCEPT !.t = "table", !.launch = c]]
                 /\ lbox' = IF n = Standalone THEN Append(lbox, [t |-> "LAUNCH", who |-> c]) ELSE lbox
            ELSE /\ svc' = [svc EXCEPT ![n] = [@ EXCEPT !.t = "table", !.list = Append(@, c)]]
                 /\ UNCHANGED lbox

(* GLAUNCH or GQUERY arrives at the manager of the caller's node. *)
Call(c) ==
    /\ state[c] = "idle"
    /\ LET n == Home(c)
       IN  /\ WaitFor(n, c)
           /\ IF svc[n].t \in {"handle", "error"} THEN TRUE ELSE state' = [state EXCEPT ![c] = "waiting"]
           /\ ask' = IF n # Standalone /\ svc[n].t \notin {"handle", "error"} /\ CallsFunc(n, c)
                     THEN [ask EXCEPT ![n] = Append(@, c)] ELSE ask
    /\ UNCHANGED <<instance, answers, boot>>

(* LAUNCH or QUERY of another node arrives at SERVICE. *)
Serve(n) ==
    /\ ask[n] # <<>>
    /\ WaitFor(Standalone, Head(ask[n]))
    /\ svc[Standalone].t \in {"handle", "error"} \/ UNCHANGED state
    /\ ask' = [ask EXCEPT ![n] = Tail(@)]
    /\ UNCHANGED <<instance, answers, boot>>

(* Mutant: who waits is not woken when func has failed. *)
FinishAlone(n, c, h) ==
    /\ svc' = [svc EXCEPT ![n] = IF h = 0 THEN Unset
                                 ELSE [Unset EXCEPT !.t = IF h = Failed THEN "error" ELSE "handle",
                                                    !.handle = h]]
    /\ Answer(n, IF h = Failed THEN <<c>> ELSE <<c>> \o svc[n].list, h)

(* request after func: the result is kept, and everybody hears of it.  A   *)
(* nil, which another manager answers for an error, unsets the name.       *)
Finish(n, c, h) ==
    /\ svc' = [svc EXCEPT ![n] = IF h = 0 THEN Unset
                                 ELSE [Unset EXCEPT !.t = IF h = Failed THEN "error" ELSE "handle",
                                                    !.handle = h]]
    /\ Answer(n, <<c>> \o svc[n].list, h)

(* skynet.newservice returns in SERVICE ... *)
Launched == /\ answers # <<>>
            /\ Finish(Standalone, Head(answers).who, Head(answers).handle)
            /\ answers' = Tail(answers)
            /\ UNCHANGED <<ask, instance, lbox, boot>>

(* ... and skynet.call in the manager of another node. *)
Returned(n) ==
    /\ reply[n] # <<>>
    /\ LET m == Head(reply[n])
           h == IF m.handle = Failed THEN 0 ELSE m.handle
           own == {c \in Range(<<m.who>> \o svc[n].list) : Home(c) = n}
       IN  /\ svc' = [svc EXCEPT ![n] = IF h = 0 THEN Unset ELSE [Unset EXCEPT !.t = "handle", !.handle = h]]
           /\ state' = [c \in Caller |-> IF c \in own THEN "done" ELSE state[c]]
           /\ got' = [c \in Caller |-> IF c \in own THEN h ELSE got[c]]
    /\ reply' = [reply EXCEPT ![n] = Tail(@)]
    /\ UNCHANGED <<ask, launcher>>

-----------------------------------------------------------------------------
(* launcher.lua *)

Message(t) == lbox # <<>> /\ Head(lbox).t = t
Respond(h, r) == /\ answers' = IF instance[h] = Nobody THEN answers
                               ELSE Append(answers, [who |-> instance[h], handle |-> r])
                 /\ instance' = [instance EXCEPT ![h] = Nobody]

(* launch_service *)
Launch ==
    /\ Message("LAUNCH") /\ lbox' = Tail(lbox)
    /\ \/ \E h \in Handle : /\ boot[h] = "none" /\ \A i \in 1 .. h - 1 : boot[i] # "none"
                            /\ boot' = [boot EXCEPT ![h] = "init"]
                            /\ instance' = [instance EXCEPT ![h] = Head(lbox).who]
                            /\ UNCHANGED answers
       \/ /\ answers' = Append(answers, [who |-> Head(lbox).who, handle |-> Failed])
          /\ UNCHANGED <<instance, boot>>
    /\ UNCHANGED manager

(* LAUNCHOK and ERROR of a service; REMOVE when it has exited or is killed *)
Notice ==
    /\ \/ Message("LAUNCHOK") /\ Respond(Head(lbox).who, Head(lbox).who)
       \/ (Message("ERROR") \/ Message("KILLED")) /\ Respond(Head(lbox).who, Failed)
       \/ Message("REMOVE") /\ Respond(Head(lbox).who, 0)
    /\ lbox' = Tail(lbox)
    /\ UNCHANGED <<boot, manager>>

-----------------------------------------------------------------------------
(* The services: skynet.init_service, skynet.exit, skynet.kill *)

Ends(h, from, to, ms) == /\ boot[h] \in from /\ boot' = [boot EXCEPT ![h] = to]
                         /\ lbox' = lbox \o [k \in DOMAIN ms |-> [t |-> ms[k], who |-> h]]
                         /\ UNCHANGED <<instance, answers, manager>>

InitService(h) == \/ Ends(h, {"init"}, "running", <<"LAUNCHOK">>)
                  \/ Ends(h, {"init"}, "dead", <<"ERROR", "REMOVE">>)
Exit(h) == Ends(h, {"init", "running"}, "dead", <<"REMOVE">>)
Kill(h) == Ends(h, {"init", "running"}, "dead", <<"KILLED">>)

Next == \/ \E c \in Caller : Call(c)
        \/ \E n \in Node : Serve(n) \/ Returned(n)
        \/ Launched \/ Launch \/ Notice
        \/ \E h \in Handle : InitService(h) \/ Exit(h) \/ Kill(h)

Spec == Init /\ [][Next]_vars

-----------------------------------------------------------------------------
TypeOK == /\ \A n \in Node : svc[n].t \in {"nil", "table", "handle", "error"}
          /\ state \in [Caller -> {"idle", "waiting", "done"}]
          /\ got \in [Caller -> 0 .. MaxHandle]

Coroutines(n) == (Range(svc[n].list) \cup {svc[n].launch}) \ {Nobody}

(***************************************************************************)
(* "unique": however many ask at the same time, and from wherever, the     *)
(* service runs once, and all who were given a handle were given the same. *)
(***************************************************************************)
OneService == /\ Cardinality({h \in Handle : boot[h] \in {"init", "running"}}) <= 1
              /\ \A c, d \in Caller : got[c] # 0 /\ got[d] # 0 => got[c] = got[d]

(* The response that confirms a LAUNCH (launcher.lua:8) is given once. *)
Confirming(c) == Cardinality({k \in DOMAIN lbox : lbox[k].t = "LAUNCH" /\ lbox[k].who = c})
                  + Cardinality({h \in Handle : instance[h] = c})
                  + Cardinality({k \in DOMAIN answers : answers[k].who = c})
ConfirmedOnce == \A c \in Caller : Confirming(c) = IF svc[Standalone].launch = c THEN 1 ELSE 0

(***************************************************************************)
(* Nobody who waits is forgotten: its manager knows it, and has the answer *)
(* of SERVICE on the way or a coroutine there in its place.                *)
(***************************************************************************)
OnTheWay(n, c) == \/ c \in Range(ask[n]) \/ c \in Coroutines(Standalone)
                  \/ \E k \in DOMAIN reply[n] : reply[n][k].who = c
WaitersKnown ==
    \A c \in Caller : state[c] = "waiting" =>
        /\ c \in Coroutines(Home(c))
        /\ Home(c) # Standalone => OnTheWay(Home(c), svc[Home(c)].launch)

(***************************************************************************)
(* Who calls uniqueservice does not wait for somebody else to do so: the   *)
(* launch is under way.  One case is excepted: behind a queryservice of    *)
(* the same node, which is not the standalone one, the launch is not even  *)
(* sent (service_mgr.lua:49); see the README.                              *)
(***************************************************************************)
LaunchUnderWay ==
    \A c \in Caller : state[c] = "waiting" /\ Launches(c) =>
        LET first == svc[Home(c)].launch
        IN  \/ svc[Standalone].launch # Nobody
            \/ first \in Range(ask[Home(c)])
            \/ \E k \in DOMAIN reply[Home(c)] : reply[Home(c)][k].who = first
            \/ Home(c) # Standalone /\ ~Launches(first)

ManagerInv == TypeOK /\ OneService /\ ConfirmedOnce /\ WaitersKnown /\ LaunchUnderWay
=============================================================================
