------------------------------ MODULE ClusterAgent ------------------------------
(***************************************************************************)
(* The receiving end of a cluster connection: clusterd keeps the names of  *)
(* the node and one agent for each connection (clusterd.lua); the agent    *)
(* resolves the names in the requests that the gate forwards, and caches   *)
(* them (clusteragent.lua).  One connection.                               *)
(***************************************************************************)
EXTENDS Naturals, Sequences, FiniteSets

CONSTANTS Name, Service, None,
          Request,          \* requests of the other node
          MaxRegister       \* bound: registrations

VARIABLES conn,             \* the connection: "none", "open", "lost" (at the gate), "closed"
          addr_of, name_of, \* clusterd: register_name, from a name and from an address
          cluster_agent,    \* ... cluster_agent[fd]: None (nil), "false", "true" or "agent"
          agent,            \* the agent: "off", "on" (it has the connection), "exit"
          launched,         \* newservice has its answer
          asks,             \* names the agent asks for, on their way to clusterd
          told,             \* messages and answers from clusterd to the agent
          cache, gen,       \* the agent: register_name, and how often it was replaced
          inquery,          \* ... inquery_name: the gen of who asked, or None
          req,              \* each request: "none", "ask" or "wait", "done"; its name, gen and result
          missed,           \* history: names changed while the agent was not known
          since,            \* history: what a request's name stood for since it is asked for
          registers

names == <<addr_of, name_of, missed, registers>>
connection == <<conn, cluster_agent, agent, launched>>
vars == <<names, connection, asks, told, cache, gen, inquery, req, since>>

NoName == [n \in Name |-> None]
Idle == [st |-> "none", name |-> None, gen |-> 0, addr |-> None]

Init == /\ conn = "none" /\ addr_of = NoName /\ name_of = [s \in Service |-> None]
        /\ cluster_agent = None /\ agent = "off" /\ launched = FALSE
        /\ asks = <<>> /\ told = <<>> /\ cache = NoName /\ gen = 0
        /\ inquery = NoName /\ req = [r \in Request |-> Idle]
        /\ missed = FALSE /\ since = [r \in Request |-> {}] /\ registers = 0

Tell(m) == told' = IF agent = "exit" THEN told ELSE Append(told, m)

-----------------------------------------------------------------------------
(* clusterd.lua *)

(* command.register: the service's former name goes, and agents are told.  *)
Register(n, s) ==
    /\ addr_of[n] = None /\ registers < MaxRegister /\ registers' = registers + 1
    /\ addr_of' = [m \in Name |-> IF m = n THEN s ELSE IF m = name_of[s] THEN None ELSE addr_of[m]]
    /\ name_of' = [name_of EXCEPT ![s] = n]
    /\ IF name_of[s] # None /\ cluster_agent = "agent"
       THEN Tell([t |-> "namechange"]) /\ UNCHANGED missed
       ELSE missed' = (missed \/ (name_of[s] # None /\ agent = "on")) /\ UNCHANGED told
    /\ since' = [r \in Request |-> IF req[r].st \in {"ask", "wait"} THEN since[r] \cup {addr_of'[req[r].name]}
                                   ELSE since[r]]
    /\ UNCHANGED <<connection, asks, cache, gen, inquery, req>>

(* command.queryname *)
QueryName ==
    /\ asks # <<>> /\ asks' = Tail(asks)
    /\ Tell([t |-> "answer", name |-> Head(asks), addr |-> addr_of[Head(asks)]])
    /\ UNCHANGED <<names, connection, cache, gen, inquery, req, since>>

(* command.socket: the gate has accepted a connection, or lost it. *)
Open == /\ conn = "none" /\ conn' = "open" /\ cluster_agent' = "false"
        /\ UNCHANGED <<names, agent, launched, asks, told, cache, gen, inquery, req, since>>

Lose == /\ conn = "open" /\ conn' = "lost"
        /\ UNCHANGED <<names, cluster_agent, agent, launched, asks, told, cache, gen, inquery, req, since>>

Returns ==
    /\ launched /\ launched' = FALSE
    /\ IF cluster_agent = "true" THEN cluster_agent' = None /\ Tell([t |-> "exit"])
       ELSE cluster_agent' = "agent" /\ UNCHANGED told
    /\ UNCHANGED <<names, conn, agent, asks, cache, gen, inquery, req, since>>

Close ==
    /\ conn = "lost" /\ conn' = "closed"
    /\ \/ cluster_agent = "false" /\ cluster_agent' = "true" /\ UNCHANGED told
       \/ cluster_agent = "agent" /\ cluster_agent' = None /\ Tell([t |-> "exit"])
    /\ UNCHANGED <<names, agent, launched, asks, cache, gen, inquery, req, since>>

-----------------------------------------------------------------------------
(* clusteragent.lua *)

(* The start function has the connection forwarded; the answer to the      *)
(* launcher, and the launcher's to clusterd, come after that.  The gate    *)
(* refuses when it has lost the connection, and the agent is not launched. *)
Start == /\ cluster_agent \in {"false", "true"} /\ agent = "off"
         /\ agent' = IF conn = "open" THEN "on" ELSE "exit"
         /\ UNCHANGED <<names, conn, cluster_agent, launched, asks, told, cache, gen, inquery, req, since>>
Started == /\ agent = "on" /\ cluster_agent \in {"false", "true"} /\ ~launched /\ launched' = TRUE
           /\ UNCHANGED <<names, conn, cluster_agent, agent, asks, told, cache, gen, inquery, req, since>>

(* dispatch_request of a request or push to a name *)
Dispatch(r, n) ==
    /\ agent = "on" /\ req[r].st = "none"
    /\ LET q == [st |-> "done", name |-> n, gen |-> gen, addr |-> cache[n]]
       IN  req' = [req EXCEPT ![r] = IF cache[n] # None THEN q
                                     ELSE [q EXCEPT !.st = IF inquery[n] = None THEN "ask" ELSE "wait"]]
    /\ IF cache[n] = None /\ inquery[n] = None
       THEN inquery' = [inquery EXCEPT ![n] = gen] /\ asks' = Append(asks, n)
       ELSE UNCHANGED <<inquery, asks>>
    /\ since' = [since EXCEPT ![r] = IF cache[n] # None THEN {cache[n]}
                                    ELSE {addr_of[n]} \cup UNION {since[q] : q \in {p \in Request :
                                             req[p].st = "ask" /\ req[p].name = n}}]
    /\ UNCHANGED <<names, connection, told, cache, gen>>

Take(t) == agent = "on" /\ told # <<>> /\ Head(told).t = t /\ told' = Tail(told)

(* __index of register_name goes on; a waiter looks at its own table only. *)
Answered ==
    /\ Take("answer")
    /\ LET n == Head(told).name
           a == Head(told).addr
       IN  /\ cache' = IF inquery[n] = gen THEN [cache EXCEPT ![n] = a] ELSE cache
           /\ req' = [r \in Request |->
                CASE req[r].name = n /\ req[r].st = "ask" -> [req[r] EXCEPT !.st = "done", !.addr = a]
                  [] req[r].name = n /\ req[r].st = "wait" ->
                        [req[r] EXCEPT !.st = "done", !.addr = IF req[r].gen = inquery[n] THEN a ELSE None]
                  [] OTHER -> req[r]]
           /\ inquery' = [inquery EXCEPT ![n] = None]
    /\ UNCHANGED <<names, connection, asks, gen, since>>

NameChange == /\ Take("namechange") /\ cache' = NoName /\ gen' = gen + 1
              /\ UNCHANGED <<names, connection, asks, inquery, req, since>>

Exit == /\ Take("exit") /\ agent' = "exit"
        /\ UNCHANGED <<names, conn, cluster_agent, launched, asks, cache, gen, inquery, req, since>>

Next == \/ \E n \in Name, s \in Service : Register(n, s)
        \/ QueryName \/ Open \/ Lose \/ Returns \/ Close \/ Start \/ Started
        \/ \E r \in Request, n \in Name : Dispatch(r, n)
        \/ Answered \/ NameChange \/ Exit

Spec == Init /\ [][Next]_vars

-----------------------------------------------------------------------------
UnderWay(t) == \E i \in DOMAIN told : told[i].t = t

(* A name that the agent has cached is what clusterd has, or the agent is  *)
(* about to hear of a change; except when it changed before clusterd knew  *)
(* the agent.                                                              *)
CacheFresh == agent = "on" => \A n \in Name : cache[n] \notin {None, addr_of[n]} => UnderWay("namechange") \/ missed

(* A request whose name is asked for gets what the name stood for at some  *)
(* time since it was asked for; one that waits for the answer too, unless  *)
(* the table in which it waits was replaced, when it is refused.           *)
ResolvedRight ==
    \A r \in Request :
        /\ req[r].st = "done" => req[r].addr \in since[r] \/ (req[r].addr = None /\ gen > 0)
        /\ req[r].st \in {"ask", "wait"} /\ agent = "on" =>
              \/ \E i \in DOMAIN asks : asks[i] = req[r].name
              \/ \E i \in DOMAIN told : told[i].t = "answer" /\ told[i].name = req[r].name

(* A connection that is closed has no agent, or one that is about to end.  *)
AgentEnds == /\ conn = "closed" => agent = "exit" \/ UnderWay("exit") \/ cluster_agent = "true"
             /\ cluster_agent = "agent" => conn # "closed" /\ agent = "on" /\ ~UnderWay("exit")

AgentInv == CacheFresh /\ ResolvedRight /\ AgentEnds
=============================================================================
