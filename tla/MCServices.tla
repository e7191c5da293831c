------------------------------- MODULE MCServices -------------------------------
(***************************************************************************)
(* The services of a node that are written in Lua, and what they share,    *)
(* for TLC: the critical section of a service (CriticalSection), the       *)
(* slaves and the master of the harbor network (HarborNet), multicast      *)
(* (Multicast), the launcher and the service manager (ServiceManager), the *)
(* socket channel (Channel), objects in transactional memory (Stm), shared *)
(* tables (SharedData), both ends of a cluster connection (Cluster and     *)
(* ClusterAgent), the messages that go over it (ClusterMessage), and the   *)
(* data center (DataCenter).  They share no state; each behaviour is one   *)
(* of the part that was chosen at its start, and the others are absent     *)
(* from it.                                                                *)
(***************************************************************************)
EXTENDS CriticalSection, Stm, SharedData, TLC

CONSTANTS Slave, Name, None, MaxOps, MaxFaults,         \* HarborNet
          Subscriber, MaxPub, MaxCalls,                 \* Multicast
          Caller, MaxHandle,                            \* ServiceManager
          Req, NoReq, User, MaxFd, MaxLost, MaxUser,    \* Channel
          Here, There, MaxReload, MaxAsk,               \* Cluster
          MaxRegister,                                  \* ClusterAgent
          Waiter                                        \* DataCenter

VARIABLES part,
          node, global, up, down, sl, hail, reading, told, ops, faults,
          group, count, remote, mbox, net, sub, post, open, mref, heard, crossed,
          pubs, mops,
          svc, state, got, ask, reply, instance, answers, lbox, boot,
          mode, ch, run, cpc, answer, fd, cmds, cbox, left, broken, calls,
          sender, queue, at, rs, qsender, issued, out, address, nowaiting,
          channel, node_sender, owner, waiters, task, tried, known, host, link,
          attempt, borrowed, asks, reloads,
          conn, addr_of, name_of, cluster_agent, agent, launched, aasks,
          atold, cache, gen, inquery, req, missed, since, registers,
          session, requests, there, back, large, by, handed, made, data, given,
          tree, line, waiting, passed

netVars == <<node, global, up, down, sl, hail, reading, told, ops, faults>>
castVars == <<group, count, remote, mbox, net, sub, post, open, mref, heard,
              crossed, pubs, mops>>
managerVars == <<svc, state, got, ask, reply, instance, answers, lbox, boot>>
channelVars == <<mode, ch, run, cpc, answer, fd, cmds, cbox, left, broken,
                 calls>>
clusterVars == <<sender, queue, at, rs, qsender, issued, out, address,
                 nowaiting, channel, node_sender, owner, waiters, task,
                 tried, known, host, link, attempt, borrowed, asks, reloads>>
agentVars == <<conn, addr_of, name_of, cluster_agent, agent, launched, aasks,
               atold, cache, gen, inquery, req, missed, since, registers>>
messageVars == <<session, requests, there, back, large, by, handed, made, data, given>>
centerVars == <<tree, line, waiting, passed>>

(* The variables of a part that is absent; the critical section, the       *)
(* object of Stm and the shared table are at rest.                         *)
NoNet ==
    /\ node = 0 /\ global = 0 /\ up = 0 /\ down = 0 /\ sl = 0 /\ hail = 0
    /\ reading = 0 /\ told = 0 /\ ops = 0 /\ faults = 0
NoCast ==
    /\ group = 0 /\ count = 0 /\ remote = 0 /\ mbox = 0 /\ net = 0
    /\ sub = 0 /\ post = 0 /\ open = 0 /\ mref = 0 /\ heard = 0 /\ crossed = 0
    /\ pubs = 0 /\ mops = 0
NoManager ==
    /\ svc = 0 /\ state = 0 /\ got = 0 /\ ask = 0 /\ reply = 0
    /\ instance = 0 /\ answers = 0 /\ lbox = 0 /\ boot = 0
NoChannel ==
    /\ mode = 0 /\ ch = 0 /\ run = 0 /\ cpc = 0 /\ answer = 0 /\ fd = 0
    /\ cmds = 0 /\ cbox = 0 /\ left = 0 /\ broken = 0 /\ calls = 0
NoCluster ==
    /\ sender = 0 /\ queue = 0 /\ at = 0 /\ rs = 0 /\ qsender = 0
    /\ issued = 0 /\ out = 0 /\ address = 0 /\ nowaiting = 0 /\ channel = 0
    /\ node_sender = 0 /\ owner = 0 /\ waiters = 0 /\ task = 0 /\ tried = 0
    /\ known = 0 /\ host = 0 /\ link = 0 /\ attempt = 0 /\ borrowed = 0
    /\ asks = 0 /\ reloads = 0
NoAgent ==
    /\ conn = 0 /\ addr_of = 0 /\ name_of = 0 /\ cluster_agent = 0
    /\ agent = 0 /\ launched = 0 /\ aasks = 0 /\ atold = 0 /\ cache = 0
    /\ gen = 0 /\ inquery = 0 /\ req = 0 /\ missed = 0 /\ since = 0
    /\ registers = 0
NoMessage ==
    /\ session = 0 /\ requests = 0 /\ there = 0 /\ back = 0 /\ large = 0
    /\ by = 0 /\ handed = 0 /\ made = 0 /\ data = 0 /\ given = 0
NoCenter == tree = 0 /\ line = 0 /\ waiting = 0 /\ passed = 0

(* The first services live on node 1, which owns the channel and has the   *)
(* manager that the others ask.                                            *)
N == INSTANCE HarborNet
M == INSTANCE Multicast WITH Node <- {1, 2}, Owner <- 1, Home <- LAMBDA s : IF s = 1 THEN 1 ELSE 2, inbox <- post,
                             Service <- Subscriber, MaxOps <- MaxCalls, ops <- mops, ref <- mref
S == INSTANCE ServiceManager WITH Node <- {1, 2}, Standalone <- 1, Nobody <- 0,
                                  Home <- LAMBDA c : IF c < 3 THEN 1 ELSE 2,
                                  Launches <- LAMBDA c : c % 2 = 1
C == INSTANCE Channel WITH MaxFaults <- MaxLost, got <- answer, inbox <- cbox, faults <- broken, pc <- cpc
K == INSTANCE Cluster WITH Call <- {"c1", "c2"}, Push <- {"p1"}, Service <- Here, Other <- {There},
                           Address <- {"a1", "a2"}, Absent <- "absent", Down <- "down", pc <- task
A == INSTANCE ClusterAgent WITH Name <- {"m", "n"}, Service <- {"s1", "s2"}, Request <- {"r1", "r2"},
                                asks <- aasks, told <- atold
R == INSTANCE ClusterMessage WITH Request <- {1, 2, 3}, Sizes <- <<{1, 3}, {2, 3}, {1, 4}>>, Part <- 2, MaxPush <- 1,
                                  asked <- requests, out <- there, task <- by, answer <- made, got <- given
T == INSTANCE DataCenter WITH
        Client <- Waiter, Key <- {"a", "b", "c"},
        Path <- {<<"a">>, <<"a", "b">>, <<"a", "b", "c">>, <<"b">>},
        Value <- {<<>>, <<>> :> "number", <<>> :> "b", <<>> :> "false", <<>> :> "table" @@ <<"b">> :> "number"}

Symmetric == Permutations(Slave)

ServicesInit ==
    /\ Init /\ StmInit /\ SharedInit
    /\ \/ part \in {"section", "stm", "shared"} /\ NoNet /\ NoCast /\ NoManager /\ NoChannel /\ NoCluster /\ NoAgent /\ NoMessage /\ NoCenter
       \/ part = "net" /\ N!Init /\ NoCast /\ NoManager /\ NoChannel /\ NoCluster /\ NoAgent /\ NoMessage /\ NoCenter
       \/ part = "multicast" /\ M!Init /\ NoNet /\ NoManager /\ NoChannel /\ NoCluster /\ NoAgent /\ NoMessage /\ NoCenter
       \/ part = "manager" /\ S!Init /\ NoNet /\ NoCast /\ NoChannel /\ NoCluster /\ NoAgent /\ NoMessage /\ NoCenter
       \/ part = "channel" /\ C!Init /\ NoNet /\ NoCast /\ NoManager /\ NoCluster /\ NoAgent /\ NoMessage /\ NoCenter
       \/ part = "cluster" /\ K!Init /\ NoNet /\ NoCast /\ NoManager /\ NoChannel /\ NoAgent /\ NoMessage /\ NoCenter
       \/ part = "agent" /\ A!Init /\ NoNet /\ NoCast /\ NoManager /\ NoChannel /\ NoCluster /\ NoMessage /\ NoCenter
       \/ part = "message" /\ R!Init /\ NoNet /\ NoCast /\ NoManager /\ NoChannel /\ NoCluster /\ NoAgent /\ NoCenter
       \/ part = "center" /\ T!CenterInit /\ NoNet /\ NoCast /\ NoManager /\ NoChannel /\ NoCluster /\ NoAgent /\ NoMessage

ServicesNext ==
    \/ part = "section" /\ Next /\ UNCHANGED <<part, netVars, castVars, managerVars, channelVars, stmVars, sharedVars, clusterVars, agentVars, messageVars, centerVars>>
    \/ part = "net" /\ N!Next
       /\ UNCHANGED <<part, vars, castVars, managerVars, channelVars, stmVars, sharedVars, clusterVars, agentVars, messageVars, centerVars>>
    \/ part = "multicast" /\ M!Next
       /\ UNCHANGED <<part, vars, netVars, managerVars, channelVars, stmVars, sharedVars, clusterVars, agentVars, messageVars, centerVars>>
    \/ part = "manager" /\ S!Next
       /\ UNCHANGED <<part, vars, netVars, castVars, channelVars, stmVars, sharedVars, clusterVars, agentVars, messageVars, centerVars>>
    \/ part = "channel" /\ C!Next
       /\ UNCHANGED <<part, vars, netVars, castVars, managerVars, stmVars, sharedVars, clusterVars, agentVars, messageVars, centerVars>>
    \/ part = "stm" /\ StmNext
       /\ UNCHANGED <<part, vars, netVars, castVars, managerVars, channelVars, sharedVars, clusterVars, agentVars, messageVars, centerVars>>
    \/ part = "shared" /\ SharedNext
       /\ UNCHANGED <<part, vars, netVars, castVars, managerVars, channelVars, stmVars, clusterVars, agentVars, messageVars, centerVars>>
    \/ part = "cluster" /\ K!Next
       /\ UNCHANGED <<part, vars, netVars, castVars, managerVars, channelVars, stmVars, sharedVars, agentVars, messageVars, centerVars>>
    \/ part = "agent" /\ A!Next
       /\ UNCHANGED <<part, vars, netVars, castVars, managerVars, channelVars, stmVars, sharedVars, clusterVars, messageVars, centerVars>>
    \/ part = "message" /\ R!Next
       /\ UNCHANGED <<part, vars, netVars, castVars, managerVars, channelVars, stmVars, sharedVars, clusterVars, agentVars, centerVars>>
    \/ part = "center" /\ T!CenterNext
       /\ UNCHANGED <<part, vars, netVars, castVars, managerVars, channelVars, stmVars, sharedVars, clusterVars, agentVars, messageVars>>

ServicesSpec == ServicesInit /\ [][ServicesNext]_<<part, vars, netVars, castVars, managerVars, channelVars,
                                                    stmVars, sharedVars, clusterVars, agentVars, messageVars, centerVars>>

(***************************************************************************)
(* Slaves that were told of each other connect, and whoever waits for a    *)
(* name or a connection waits with a reason (NetInv of HarborNet).         *)
(***************************************************************************)
HarborNetInv == part = "net" => N!NetInv

(***************************************************************************)
(* Packages are freed once and not too early, and each service gets what   *)
(* was published, in order (MulticastInv of Multicast).                    *)
(***************************************************************************)
MulticastInv == part = "multicast" => M!MulticastInv

(***************************************************************************)
(* A unique service is launched once, and everybody who waits for it is    *)
(* answered (ManagerInv of ServiceManager); and who waits for a value of   *)
(* the data center stands where an update looks for him, and waits for     *)
(* something (DataCenterInv of DataCenter).                                *)
(***************************************************************************)
RegistryInv == /\ part = "manager" => S!ManagerInv
               /\ part = "center" => T!DataCenterInv

(***************************************************************************)
(* Requests over one connection get their own answers or an error          *)
(* (ChannelInv of Channel).                                                *)
(***************************************************************************)
ChannelInv == part = "channel" => C!ChannelInv

(***************************************************************************)
(* Requests leave for another node in their order and to its present       *)
(* address (SenderInv of Cluster); at the other end names are resolved to  *)
(* what they stand for, and a lost connection's agent ends (AgentInv of    *)
(* ClusterAgent); and however packets overtake each other, a service is    *)
(* given each request whole and once, and a caller its own answer          *)
(* (MessageInv of ClusterMessage).                                         *)
(***************************************************************************)
ClusterInv == /\ part = "cluster" => K!SenderInv
              /\ part = "agent" => A!AgentInv
              /\ part = "message" => R!MessageInv
=============================================================================
