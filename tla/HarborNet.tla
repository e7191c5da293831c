------------------------------- MODULE HarborNet -------------------------------
(***************************************************************************)
(* How the nodes of a harbor network meet and share their global names:    *)
(* one master (cmaster.lua) and a slave service on every node              *)
(* (cslave.lua), with what they tell the harbor service of the node        *)
(* (module Harbor).                                                        *)
(*                                                                         *)
(* A slave says "H" to the master, is told how many others it has to wait  *)
(* for ("W"), and these are told to connect to it ("C").  The coroutines   *)
(* of a slave that can be suspended are its start function (in phases      *)
(* "hello" and "wait"), monitor_master and ready (in socket.open), and one *)
(* accept_slave for each connection (in socket.read).                      *)
(***************************************************************************)
EXTENDS Naturals, Sequences, FiniteSets

CONSTANTS Slave,        \* harbor ids
          Name,         \* global names
          None,         \* nil
          MaxOps,       \* bound: requests of the services of all nodes, and faults
          MaxFaults     \* bound: nodes that die and connections that fail

VARIABLES node,         \* master: slave_node, "none", "up" or "down" (fd = 0)
          global,       \* master: global_name, the node whose service has it
          up, down,     \* the stream from each slave to the master, and back
          sl,           \* the slaves, see Fresh
          hail,         \* connections in the backlog of each slave's socket
          reading,      \* ... those that accept_slave reads the id from
          told,         \* history: <<a, b>> when "C b" was sent to a
          ops, faults

vars == <<node, global, up, down, sl, hail, reading, told, ops, faults>>
bounds == <<ops, faults>>

(***************************************************************************)
(* A slave.  connect_queue is nil from phase "run" on, when ready() has    *)
(* taken it as todo.  peers is slaves[]; link is what the harbor service   *)
(* holds: "open", or "cut" until it reports the loss.  asked and known are *)
(* the names the harbor service waits for and has been told.               *)
(***************************************************************************)
Fresh == [phase |-> "off", n |-> 0,
          peers |-> [i \in Slave |-> "nil"], link |-> [i \in Slave |-> "none"],
          queue |-> {}, todo |-> {}, opening |-> [c \in {"monitor", "ready"} |-> None],
          names |-> [n \in Name |-> None], querying |-> {},
          asked |-> {}, known |-> {},
          monitor |-> [i \in Slave |-> {}]]

Alive(s) == sl[s].phase \notin {"off", "dead"}
(* The start function is over, and the service has its name. *)
Started(s) == sl[s].phase \in {"fork", "run", "done"}

Init == /\ node = [s \in Slave |-> "none"] /\ global = [n \in Name |-> None]
        /\ up = [s \in Slave |-> <<>>] /\ down = [s \in Slave |-> <<>>]
        /\ sl = [s \in Slave |-> Fresh]
        /\ hail = [s \in Slave |-> {}] /\ reading = [s \in Slave |-> {}]
        /\ told = {} /\ ops = 0 /\ faults = 0

-----------------------------------------------------------------------------
(* cmaster.lua *)

(* The write to each slave of slave_node; fd 0 and a lost connection swallow it. *)
Broadcast(m) == [s \in Slave |-> IF node[s] = "up" /\ Alive(s) THEN Append(down[s], m) ELSE down[s]]
Reply(s, m) == IF Alive(s) THEN [down EXCEPT ![s] = Append(@, m)] ELSE down

(* handshake, with report_slave *)
Handshake(s) ==
    LET older == {i \in Slave : node[i] = "up"}
        d == Broadcast([t |-> "C", id |-> s])
    IN  /\ up[s] # <<>> /\ Head(up[s]).t = "H" /\ node[s] = "none"
        /\ down' = IF Alive(s) THEN [d EXCEPT ![s] = Append(@, [t |-> "W", n |-> Cardinality(older)])] ELSE d
        /\ node' = [node EXCEPT ![s] = "up"]
        /\ told' = told \cup {<<i, s>> : i \in older}
        /\ up' = [up EXCEPT ![s] = Tail(@)]
        /\ UNCHANGED <<global, sl, hail, reading, bounds>>

(* dispatch_slave, 'R': the first registration stays, each one is broadcast. *)
MasterRegister(s) ==
    /\ up[s] # <<>> /\ Head(up[s]).t = "R"
    /\ LET m == Head(up[s])
       IN  /\ global' = IF global[m.name] = None THEN [global EXCEPT ![m.name] = m.addr] ELSE global
           /\ down' = Broadcast([t |-> "N", name |-> m.name, addr |-> m.addr])
    /\ up' = [up EXCEPT ![s] = Tail(@)]
    /\ UNCHANGED <<node, sl, hail, reading, told, bounds>>

(* dispatch_slave, 'Q': an unknown name is not answered. *)
MasterQuery(s) ==
    /\ up[s] # <<>> /\ Head(up[s]).t = "Q"
    /\ LET n == Head(up[s]).name
       IN  down' = IF global[n] = None THEN down
                   ELSE Reply(s, [t |-> "N", name |-> n, addr |-> global[n]])
    /\ up' = [up EXCEPT ![s] = Tail(@)]
    /\ UNCHANGED <<node, global, sl, hail, reading, told, bounds>>

(* monitor_slave, when the connection has ended *)
MasterDown(s) ==
    /\ node[s] = "up" /\ up[s] = <<>> /\ ~Alive(s)
    /\ node' = [node EXCEPT ![s] = "down"]
    /\ down' = Broadcast([t |-> "D", id |-> s])
    /\ UNCHANGED <<global, up, sl, hail, reading, told, bounds>>

-----------------------------------------------------------------------------
(* cslave.lua: the records of one slave *)

(* monitor_clear: everybody who waits for a change of id is answered. *)
MonitorClear(r, id) == [r EXCEPT !.monitor[id] = {}]

(* response_name *)
ResponseName(r, n) == [r EXCEPT !.querying = @ \ {n}]

(* skynet.redirect(harbor_service, address, "harbor", 0, "N " .. name) *)
Redirect(r, ns) == [r EXCEPT !.known = @ \cup ns, !.asked = @ \ ns]

(* skynet.start: connect to the master, launch the harbor, say hello *)
Start(s) ==
    /\ sl[s].phase = "off"
    /\ sl' = [sl EXCEPT ![s].phase = "hello"]
    /\ up' = [up EXCEPT ![s] = Append(@, [t |-> "H"])]
    /\ UNCHANGED <<node, global, down, hail, reading, told, bounds>>

(* ... the answer "W n"; with n = 0 nobody is waited for. *)
Welcome(s) ==
    /\ sl[s].phase = "hello" /\ down[s] # <<>>
    /\ sl' = [sl EXCEPT ![s].n = Head(down[s]).n,
                        ![s].phase = IF Head(down[s]).n = 0 THEN "fork" ELSE "wait"]
    /\ down' = [down EXCEPT ![s] = Tail(@)]
    /\ UNCHANGED <<node, global, up, hail, reading, told, bounds>>

(* monitor_master reads the next package unless it is in socket.open. *)
Receives(s, t) == /\ sl[s].phase \in {"wait", "fork", "run", "done"}
                  /\ sl[s].opening["monitor"] = None
                  /\ down[s] # <<>> /\ Head(down[s]).t = t

(* Mutant: while ready() runs, what is new still goes to the queue. *)
ReceiveConnectLate(s) ==
    /\ Receives(s, "C")
    /\ LET id == Head(down[s]).id
       IN  sl' = IF sl[s].phase # "done" THEN [sl EXCEPT ![s].queue = @ \cup {id}]
                 ELSE IF sl[s].peers[id] = "nil" THEN [sl EXCEPT ![s].opening["monitor"] = id]
                 ELSE sl
    /\ down' = [down EXCEPT ![s] = Tail(@)]
    /\ UNCHANGED <<node, global, up, hail, reading, told, bounds>>

ReceiveConnect(s) ==
    /\ Receives(s, "C")
    /\ LET id == Head(down[s]).id
       IN  sl' = IF sl[s].phase \in {"wait", "fork"} THEN [sl EXCEPT ![s].queue = @ \cup {id}]
                 ELSE IF sl[s].peers[id] = "nil" THEN [sl EXCEPT ![s].opening["monitor"] = id]
                 ELSE sl
    /\ down' = [down EXCEPT ![s] = Tail(@)]
    /\ UNCHANGED <<node, global, up, hail, reading, told, bounds>>

ReceiveName(s) ==
    /\ Receives(s, "N")
    /\ LET m == Head(down[s])
           r == ResponseName([sl[s] EXCEPT !.names[m.name] = m.addr], m.name)
       IN  sl' = [sl EXCEPT ![s] = IF r.phase \in {"run", "done"} THEN Redirect(r, {m.name}) ELSE r]
    /\ down' = [down EXCEPT ![s] = Tail(@)]
    /\ UNCHANGED <<node, global, up, hail, reading, told, bounds>>

ReceiveDown(s) ==
    /\ Receives(s, "D")
    /\ LET id == Head(down[s]).id
           r == [sl[s] EXCEPT !.peers[id] = "down"]
       IN  sl' = [sl EXCEPT ![s] = IF sl[s].peers[id] = "up" THEN MonitorClear(r, id) ELSE r]
    /\ down' = [down EXCEPT ![s] = Tail(@)]
    /\ UNCHANGED <<node, global, up, hail, reading, told, bounds>>

-----------------------------------------------------------------------------
(* cslave.lua: the connections *)

(* The socket of s listens until the others have come. *)
Listening(s) == sl[s].phase \in {"hello", "wait"}

(* The other ends of what s closes, or what dies with it, in records l. *)
Cut(l, others, s) == [i \in Slave |-> IF i \in others /\ l[i].link[s] = "open"
                                      THEN [l[i] EXCEPT !.link[s] = "cut"] ELSE l[i]]

(* ready() takes the queue ... *)
Ready(s) ==
    /\ sl[s].phase = "fork"
    /\ sl' = [sl EXCEPT ![s].phase = "run", ![s].todo = sl[s].queue, ![s].queue = {}]
    /\ UNCHANGED <<node, global, up, down, hail, reading, told, bounds>>

(* ... connects to one after the other ... *)
ReadyConnects(s, id) ==
    /\ sl[s].phase = "run" /\ sl[s].opening["ready"] = None /\ id \in sl[s].todo
    /\ sl' = IF sl[s].peers[id] = "nil"
             THEN [sl EXCEPT ![s].todo = @ \ {id}, ![s].opening["ready"] = id]
             ELSE [sl EXCEPT ![s].todo = @ \ {id}]
    /\ UNCHANGED <<node, global, up, down, hail, reading, told, bounds>>

(* ... and tells the harbor every name that is known. *)
ReadyDone(s) ==
    /\ sl[s].phase = "run" /\ sl[s].opening["ready"] = None /\ sl[s].todo = {}
    /\ sl' = [sl EXCEPT ![s] = [Redirect(sl[s], {n \in Name : sl[s].names[n] # None})
                                    EXCEPT !.phase = "done"]]
    /\ UNCHANGED <<node, global, up, down, hail, reading, told, bounds>>

(* Bound: a fault takes the place of a request. *)
MayFail == faults < MaxFaults /\ ops + faults < MaxOps

(* connect_slave after socket.open: "S" makes the harbor say its id. *)
Opened(s, c) ==
    /\ Alive(s) /\ sl[s].opening[c] # None
    /\ LET id == sl[s].opening[c]
           r == [sl[s] EXCEPT !.opening[c] = None]
       IN  \/ /\ Listening(id)
              /\ sl' = [sl EXCEPT ![s] = MonitorClear([r EXCEPT !.peers[id] = "up",
                                                                !.link[id] = "open"], id)]
              /\ hail' = [hail EXCEPT ![id] = @ \cup {s}]
              /\ UNCHANGED faults
           \/ /\ \/ ~Listening(id) /\ UNCHANGED faults
                 \/ Listening(id) /\ MayFail /\ faults' = faults + 1
              /\ sl' = [sl EXCEPT ![s] = r]
              /\ UNCHANGED hail
    /\ UNCHANGED <<node, global, up, down, reading, told, ops>>

(* socket.start(slave_fd, ...): a connection is accepted. *)
Accept(s, i) ==
    /\ sl[s].phase = "wait" /\ i \in hail[s]
    /\ hail' = [hail EXCEPT ![s] = @ \ {i}]
    /\ reading' = [reading EXCEPT ![s] = @ \cup {i}]
    /\ UNCHANGED <<node, global, up, down, sl, told, bounds>>

(* The number of entries of slaves[], false ones included, against n. *)
AllCame(r) == Cardinality({i \in Slave : r.peers[i] # "nil"}) >= r.n

(* The end of accept_slave; the last one wakes the start function, which   *)
(* closes the listening socket with its backlog.                           *)
AcceptEnds(s, i, l) ==
    /\ reading' = [reading EXCEPT ![s] = @ \ {i}]
    /\ IF l[s].phase = "wait" /\ AllCame(l[s])
       THEN /\ sl' = Cut([l EXCEPT ![s].phase = "fork"], hail[s], s)
            /\ hail' = [hail EXCEPT ![s] = {}]
       ELSE sl' = l /\ UNCHANGED hail
    /\ UNCHANGED <<node, global, up, down, told, bounds>>

(* accept_slave has read the id: a known one is refused. *)
ReadId(s, i) ==
    /\ Alive(s) /\ i \in reading[s]
    /\ IF sl[s].peers[i] # "nil"
       THEN AcceptEnds(s, i, Cut(sl, {i}, s))
       ELSE AcceptEnds(s, i, [sl EXCEPT ![s] =
                MonitorClear([sl[s] EXCEPT !.peers[i] = "up",
                    !.link[i] = IF sl[i].link[s] = "open" THEN "open" ELSE "cut"], i)])

(* ... or the connection ended before it. *)
ReadNothing(s, i) ==
    /\ Alive(s) /\ i \in reading[s] /\ sl[i].link[s] # "open"
    /\ AcceptEnds(s, i, sl)

(* monitor_harbor, "D id": the harbor has lost the connection. *)
HarborDown(s, id) ==
    /\ Alive(s) /\ sl[s].link[id] = "cut"
    /\ LET r == [sl[s] EXCEPT !.link[id] = "none", !.peers[id] = "down"]
       IN  sl' = [sl EXCEPT ![s] = IF sl[s].peers[id] = "up" THEN MonitorClear(r, id) ELSE r]
    /\ UNCHANGED <<node, global, up, down, hail, reading, told, bounds>>

-----------------------------------------------------------------------------
(* cslave.lua: the requests of the services of a node *)

Request == ops + faults < MaxOps /\ ops' = ops + 1

(* REGISTER, when the name is new to the slave *)
Register(s, n) ==
    /\ Started(s) /\ Request /\ sl[s].names[n] = None
    /\ sl' = [sl EXCEPT ![s] = Redirect(ResponseName([sl[s] EXCEPT !.names[n] = s], n), {n})]
    /\ up' = [up EXCEPT ![s] = Append(@, [t |-> "R", name |-> n, addr |-> s])]
    /\ UNCHANGED <<node, global, down, hail, reading, told, faults>>

(* QUERYNAME: the first one to ask for a name asks the master. *)
QueryName(s, n) ==
    /\ Started(s) /\ Request /\ sl[s].names[n] = None
    /\ sl' = [sl EXCEPT ![s].querying = @ \cup {n}]
    /\ up' = IF n \in sl[s].querying THEN up
             ELSE [up EXCEPT ![s] = Append(@, [t |-> "Q", name |-> n])]
    /\ UNCHANGED <<node, global, down, hail, reading, told, faults>>

(* monitor_harbor, "Q name" *)
HarborQuery(s, n) ==
    /\ Started(s) /\ Request /\ n \notin sl[s].known
    /\ IF sl[s].names[n] # None
       THEN sl' = [sl EXCEPT ![s] = Redirect(sl[s], {n})] /\ UNCHANGED up
       ELSE /\ sl' = [sl EXCEPT ![s].asked = @ \cup {n}]
            /\ up' = [up EXCEPT ![s] = Append(@, [t |-> "Q", name |-> n])]
    /\ UNCHANGED <<node, global, down, hail, reading, told, faults>>

(* LINK waits while id is connected. *)
Link(s, id) ==
    /\ Started(s) /\ Request /\ id # s /\ sl[s].peers[id] = "up"
    /\ sl' = [sl EXCEPT ![s].monitor[id] = @ \cup {"link"}]
    /\ UNCHANGED <<node, global, up, down, hail, reading, told, faults>>

(* CONNECT waits until it is. *)
Connect(s, id) ==
    /\ Started(s) /\ Request /\ id # s /\ sl[s].peers[id] # "up"
    /\ sl' = [sl EXCEPT ![s].monitor[id] = @ \cup {"connect"}]
    /\ UNCHANGED <<node, global, up, down, hail, reading, told, faults>>

(* A node dies, with everything it holds. *)
Crash(s) ==
    /\ Alive(s) /\ MayFail
    /\ faults' = faults + 1
    /\ sl' = Cut([sl EXCEPT ![s] = [Fresh EXCEPT !.phase = "dead"]], Slave, s)
    /\ down' = [down EXCEPT ![s] = <<>>]
    /\ hail' = [hail EXCEPT ![s] = {}]
    /\ reading' = [reading EXCEPT ![s] = {}]
    /\ UNCHANGED <<node, global, up, told, ops>>

(* The connection of two nodes breaks. *)
Break(s, i) ==
    /\ sl[s].link[i] = "open" /\ MayFail
    /\ faults' = faults + 1
    /\ sl' = Cut(Cut(sl, {s}, i), {i}, s)
    /\ UNCHANGED <<node, global, up, down, hail, reading, told, ops>>

-----------------------------------------------------------------------------
MasterStep(s) == Handshake(s) \/ MasterRegister(s) \/ MasterQuery(s) \/ MasterDown(s)
SlaveStep(s) == \/ Welcome(s) \/ ReceiveConnect(s) \/ ReceiveName(s) \/ ReceiveDown(s)
                \/ Ready(s) \/ ReadyDone(s)
                \/ \E i \in Slave : \/ ReadyConnects(s, i) \/ Accept(s, i)
                                    \/ ReadId(s, i) \/ ReadNothing(s, i) \/ HarborDown(s, i)
                \/ \E c \in {"monitor", "ready"} : Opened(s, c)
Ask(s) == \/ \E n \in Name : Register(s, n) \/ QueryName(s, n) \/ HarborQuery(s, n)
          \/ \E i \in Slave : Link(s, i) \/ Connect(s, i)

Next == \E s \in Slave : \/ Start(s) \/ MasterStep(s) \/ SlaveStep(s) \/ Ask(s)
                         \/ Crash(s) \/ \E i \in Slave : Break(s, i)

Spec == Init /\ [][Next]_vars

-----------------------------------------------------------------------------
TypeOK ==
    /\ node \in [Slave -> {"none", "up", "down"}] /\ global \in [Name -> Slave \cup {None}]
    /\ \A s \in Slave :
        /\ sl[s].phase \in {"off", "hello", "wait", "fork", "run", "done", "dead"}
        /\ sl[s].peers \in [Slave -> {"nil", "up", "down"}]
        /\ sl[s].link \in [Slave -> {"none", "open", "cut"}]
        /\ sl[s].names \in [Name -> Slave \cup {None}]
        /\ sl[s].monitor \in [Slave -> SUBSET {"link", "connect"}]

Travels(q, p(_)) == \E k \in DOMAIN q : p(q[k])
Asks(s, n) == Travels(up[s], LAMBDA m : m.t = "Q" /\ m.name = n)
Learns(s, n) == Travels(down[s], LAMBDA m : m.t = "N" /\ m.name = n)

(***************************************************************************)
(* The master answers only a query for a name it knows (cmaster.lua:89).   *)
(* Whoever waits for a name all the same waits with a reason: its question *)
(* or an answer is on the way, or nobody has registered the name.          *)
(***************************************************************************)
QueriesCovered ==
    \A s \in Slave : Alive(s) => \A n \in sl[s].querying :
        /\ sl[s].names[n] = None
        /\ global[n] = None \/ Asks(s, n) \/ Learns(s, n)

(***************************************************************************)
(* The same for the harbor service of the node: a name that its slave has  *)
(* learnt while connect_queue was there reaches it when ready() ends.      *)
(***************************************************************************)
HarborTold ==
    \A s \in Slave : Alive(s) =>
        /\ \A n \in Name : sl[s].names[n] # None /\ sl[s].phase = "done" => n \in sl[s].known
        /\ \A n \in sl[s].asked : \/ global[n] = None \/ Asks(s, n) \/ Learns(s, n)
                                  \/ sl[s].names[n] # None /\ sl[s].phase \in {"fork", "run"}

(***************************************************************************)
(* LINK and CONNECT share the list monitor[id] (cslave.lua:187,202), and   *)
(* monitor_clear answers all of it: it never holds a LINK that would miss  *)
(* the loss or a CONNECT that has missed the connection.                   *)
(***************************************************************************)
WaitersRight ==
    \A s, i \in Slave : Alive(s) =>
        /\ "link" \in sl[s].monitor[i] => sl[s].peers[i] = "up"
        /\ "connect" \in sl[s].monitor[i] => sl[s].peers[i] # "up"

(* A slave that believes in a connection has one, or will be told of its end. *)
LinksKnown == \A s, i \in Slave : Alive(s) /\ sl[s].peers[i] = "up" => sl[s].link[i] # "none"

(***************************************************************************)
(* A slave that was told of a newcomer is connected to it or on the way:   *)
(* it is not forgotten between the queue, the list of ready() and what     *)
(* monitor_master opens itself, nor on the newcomer's side, so that the    *)
(* count the newcomer waits for (cslave.lua:260) is reached.  A node that  *)
(* dies, or a connection that fails, can spoil that, see the README.       *)
(***************************************************************************)
OnItsWay(s, i) ==
    \/ sl[s].phase = "hello" \/ Travels(down[s], LAMBDA m : m.t = "C" /\ m.id = i)
    \/ i \in sl[s].queue /\ sl[s].phase \in {"wait", "fork"}
    \/ i \in sl[s].todo \/ \E c \in {"monitor", "ready"} : sl[s].opening[c] = i
    \/ s \in hail[i] \cup reading[i]

MeshCovered ==
    faults = 0 =>
        /\ \A p \in told : \/ OnItsWay(p[1], p[2])
                           \/ sl[p[1]].peers[p[2]] = "up" /\ sl[p[2]].peers[p[1]] = "up"
        /\ \A s \in Slave : sl[s].phase = "wait" =>
                            \E i \in Slave : <<i, s>> \in told /\ OnItsWay(i, s)

(***************************************************************************)
(* "Waiting for %d harbors" (cslave.lua:248): refuted when one of them     *)
(* dies after it was counted, since nothing but a connection is looked at  *)
(* (line 260); see the README.                                             *)
(***************************************************************************)
WaitEnds == \A s \in Slave : sl[s].phase = "wait" => \E i \in Slave : Alive(i) /\ OnItsWay(i, s)

(* Names, waiters and connections of the network *)
NetInv == TypeOK /\ QueriesCovered /\ HarborTold /\ WaitersRight /\ LinksKnown /\ MeshCovered

(***************************************************************************)
(* "all the global names : name -> address" (cmaster.lua:7): when nothing  *)
(* is under way, everybody agrees with the master.  Refuted when two nodes *)
(* register a name at the same time, see the README.                       *)
(***************************************************************************)
NamesConverge ==
    (\A s \in Slave : up[s] = <<>> /\ down[s] = <<>>) =>
        \A s \in Slave, n \in Name : Alive(s) /\ sl[s].names[n] # None => sl[s].names[n] = global[n]
=============================================================================
