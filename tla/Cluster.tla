-------------------------------- MODULE Cluster --------------------------------
(***************************************************************************)
(* How a service reaches another node of a cluster: the requests wait in   *)
(* the service (cluster.lua) until clusterd has opened a channel to the    *)
(* node (clusterd.lua), whose address the configuration may not have yet   *)
(* or may change at any time.  One service with its requests, and other    *)
(* services that ask clusterd for the same node.  The clustersender has    *)
(* one connection, which may be lost, and which a request opens again      *)
(* (block_connect of socketchannel.lua) while changenode may come in.      *)
(***************************************************************************)
EXTENDS Naturals, Sequences, FiniteSets

CONSTANTS Call, Push,   \* requests of the service, by cluster.call and cluster.send
          Service,      \* request_sender of the service, as a caller of clusterd
          Other,        \* other callers of clusterd
          Address, Absent, Down,    \* values of node_address: a string, nil, false
          MaxReload,    \* bound: reloads of the configuration
          MaxAsk        \* bound: calls of clusterd

Fork == 1 .. MaxReload  \* coroutines of clusterd that loadconfig forks
Task == {Service} \cup Other \cup Fork
Nobody == 0
NoAttempt == [to |-> Absent, opened |-> FALSE]

VARIABLES sender,       \* service: sender[node] is set
          queue,        \* ... task_queue[node], with whoever has left it
          at,           \* ... the place of request_sender in it, 0 when it does not run
          rs,           \* ... "none", "asks", "run" (it was answered), "wake", "confirm"
          qsender,      \* ... q.sender, if there is one
          issued, out,  \* history: requests as they were made, and as they left or failed
          address,      \* clusterd: node_address[node]
          nowaiting,    \* ... config.nowaiting
          channel,      \* ... node_channel[node] is set
          node_sender,  \* ... the clustersender was launched
          owner, waiters,   \* ... connecting[node]: who made it, and who waits in it
          pc, tried,    \* ... where each task is in open_channel, and its address
          known,        \* ... some service was given the clustersender
          host, link,   \* clustersender: __host of its channel, and where its connection goes
          attempt,      \* ... a request that connects again, and whether its socket is open
          borrowed,     \* history: the last changenode took over the connection of an attempt
          asks, reloads

service == <<sender, queue, at, rs, qsender, issued, out>>
clusterd == <<address, nowaiting, channel, node_sender, owner, waiters, pc, tried, known>>
clustersender == <<host, link, attempt, borrowed>>
vars == <<service, clusterd, clustersender, asks, reloads>>

Init == /\ sender = FALSE /\ queue = <<>> /\ at = 0 /\ rs = "none" /\ qsender = FALSE
        /\ issued = <<>> /\ out = <<>>
        /\ address = Absent /\ nowaiting = FALSE /\ channel = FALSE /\ node_sender = FALSE
        /\ owner = Nobody /\ waiters = {} /\ known = FALSE
        /\ host = Absent /\ link = Absent /\ attempt = NoAttempt /\ borrowed = FALSE
        /\ pc = [t \in Task |-> "idle"] /\ tried = [t \in Task |-> Absent]
        /\ asks = 0 /\ reloads = 0

-----------------------------------------------------------------------------
(* cluster.lua *)

(* cluster.call and cluster.send; get_queue forks request_sender. *)
Request(r) ==
    /\ r \in (Call \cup Push) \ {issued[i] : i \in DOMAIN issued}
    /\ issued' = Append(issued, r)
    /\ IF sender THEN out' = Append(out, r) /\ UNCHANGED <<queue, rs>>
       ELSE /\ queue' = Append(queue, r) /\ rs' = IF rs = "none" THEN "asks" ELSE rs
            /\ UNCHANGED out
    /\ UNCHANGED <<sender, at, qsender, clusterd, clustersender, asks, reloads>>

(* request_sender: pushes leave, or are dropped, up to the next coroutine. *)
NextCall == {j \in at + 1 .. Len(queue) : queue[j] \in Call}
RunTasks ==
    /\ rs = "run"
    /\ IF NextCall # {}
       THEN LET j == CHOOSE k \in NextCall : \A l \in NextCall : k <= l
            IN  /\ out' = out \o SubSeq(queue, at + 1, j - 1) /\ at' = j /\ rs' = "wake"
                /\ UNCHANGED <<queue, sender>>
       ELSE /\ out' = out \o SubSeq(queue, at + 1, Len(queue)) /\ at' = 0 /\ rs' = "none"
            /\ queue' = <<>> /\ sender' = qsender
    /\ UNCHANGED <<qsender, issued, clusterd, clustersender, asks, reloads>>

(* get_sender goes on in the coroutine: its request leaves, or fails. *)
Wakeup ==
    /\ rs = "wake" /\ rs' = "confirm" /\ out' = Append(out, queue[at])
    /\ UNCHANGED <<sender, queue, at, qsender, issued, clusterd, clustersender, asks, reloads>>
Confirm ==
    /\ rs = "confirm" /\ rs' = "run"
    /\ UNCHANGED <<sender, queue, at, qsender, issued, out, clusterd, clustersender, asks, reloads>>

-----------------------------------------------------------------------------
(* clusterd: open_channel, in pieces between two calls                     *)

(* The commands of got end with the sender, those of failed with an error. *)
answerVars == <<rs, qsender, known>>
Answer(got, failed) ==
    /\ known' = (known \/ got \ Fork # {})
    /\ IF Service \in got \cup failed THEN rs' = "run" /\ qsender' = (Service \in got)
       ELSE UNCHANGED <<rs, qsender>>

(* Coroutine t has address a; those of got have ended in the same turn. *)
Connect(t, a, got) ==
    LET ended == got \cup IF a \in Address THEN {} ELSE waiters \cup {t}
    IN  /\ IF a \in Address THEN owner' = t /\ tried' = [tried EXCEPT ![t] = a]
           ELSE owner' = Nobody /\ UNCHANGED tried
        /\ waiters' = waiters \ ended
        /\ pc' = [u \in Task |-> CASE u \in ended -> "idle"
                                   [] u = t /\ u \notin ended -> IF node_sender THEN "change" ELSE "launch"
                                   [] OTHER -> pc[u]]
        /\ Answer(got, ended \ got)

OpenChannel(t, a) ==
    IF owner # Nobody
    THEN /\ pc' = [pc EXCEPT ![t] = "wait"] /\ waiters' = waiters \cup {t}
         /\ UNCHANGED <<owner, tried, answerVars>>
    ELSE IF a = Absent /\ ~nowaiting
    THEN /\ pc' = [pc EXCEPT ![t] = "name"] /\ owner' = t
         /\ UNCHANGED <<waiters, tried, answerVars>>
    ELSE Connect(t, a, {})

(* command.sender *)
Sender(t) ==
    /\ t \in {Service} \cup Other /\ pc[t] = "idle" /\ asks < MaxAsk /\ asks' = asks + 1
    /\ t = Service => rs = "asks"
    /\ IF channel THEN Answer({t}, {}) /\ UNCHANGED <<owner, waiters, pc, tried>> ELSE OpenChannel(t, address)
    /\ UNCHANGED <<sender, queue, at, issued, out, address, nowaiting, channel, node_sender, clustersender, reloads>>

(* skynet.newservice returns. *)
Launched(t) ==
    /\ pc[t] = "launch" /\ pc' = [pc EXCEPT ![t] = "change"]
    /\ node_sender' = TRUE /\ host' = tried[t]
    /\ UNCHANGED <<service, address, nowaiting, channel, owner, waiters, tried, known,
                   link, attempt, borrowed, asks, reloads>>

(* Mutant: the address is not compared with the one at the start. *)
ChangedOnce(t) ==
    /\ pc[t] = "changed" /\ channel' = TRUE
    /\ pc' = [u \in Task |-> IF u \in waiters \cup {t} THEN "idle" ELSE pc[u]]
    /\ owner' = Nobody /\ waiters' = {} /\ UNCHANGED tried
    /\ Answer(waiters \cup {t}, {})
    /\ UNCHANGED <<sender, queue, at, issued, out, address, nowaiting, node_sender, clustersender, asks, reloads>>

(* changenode of clustersender has succeeded; the address may be another one by now. *)
Changed(t) ==
    /\ pc[t] = "changed" /\ channel' = TRUE
    /\ IF address = tried[t]
       THEN /\ pc' = [u \in Task |-> IF u \in waiters \cup {t} THEN "idle" ELSE pc[u]]
            /\ owner' = Nobody /\ waiters' = {} /\ UNCHANGED tried
            /\ Answer(waiters \cup {t}, {})
       ELSE Connect(t, address, waiters)
    /\ UNCHANGED <<sender, queue, at, issued, out, address, nowaiting, node_sender, clustersender, asks, reloads>>

(* ... or it has failed: nobody compares the address then. *)
ChangeFails(t) ==
    /\ pc[t] = "failed"
    /\ pc' = [u \in Task |-> IF u \in waiters \cup {t} THEN "idle" ELSE pc[u]]
    /\ owner' = Nobody /\ waiters' = {}
    /\ Answer({}, waiters \cup {t})
    /\ UNCHANGED <<sender, queue, at, issued, out, address, nowaiting, channel, node_sender, tried, clustersender, asks, reloads>>

(* loadconfig with value x for the node, or none, and perhaps __nowaiting *)
Reload(x, n) ==
    /\ reloads < MaxReload /\ reloads' = reloads + 1
    /\ nowaiting' = (nowaiting \/ n) /\ address' = IF x = Absent THEN address ELSE x
    /\ channel' = (channel /\ address' = address)
    /\ IF owner # Nobody /\ pc[owner] = "name" /\ (x # Absent \/ nowaiting')
       THEN Connect(owner, address', {})
       ELSE IF channel /\ ~channel' THEN OpenChannel(reloads', address')
       ELSE UNCHANGED <<owner, waiters, pc, tried, answerVars>>
    /\ UNCHANGED <<sender, queue, at, issued, out, node_sender, clustersender, asks>>

-----------------------------------------------------------------------------
(* clustersender, and the channel it has *)
OnlySender == UNCHANGED <<service, address, nowaiting, channel, node_sender, owner, waiters, tried, known, asks, reloads>>

(* changenode closes the connection and opens one to the new address, or   *)
(* waits when a request has begun to connect: channel:connect(true).       *)
ChangeNode(t) ==
    /\ pc[t] = "change"
    /\ pc' = [pc EXCEPT ![t] = IF attempt = NoAttempt THEN "connect" ELSE "join"]
    /\ host' = tried[t] /\ link' = Absent /\ borrowed' = FALSE
    /\ OnlySender /\ UNCHANGED attempt

(* The connection that changenode opens itself is there, or refused. *)
ChangeConnects(t, ok) ==
    /\ pc[t] = "connect"
    /\ pc' = [pc EXCEPT ![t] = IF ok THEN "changed" ELSE "failed"]
    /\ link' = IF ok THEN host ELSE Absent
    /\ OnlySender /\ UNCHANGED <<host, attempt, borrowed>>

(* The other node closes the connection. *)
Lost ==
    /\ link # Absent /\ link' = Absent
    /\ OnlySender /\ UNCHANGED <<pc, host, attempt, borrowed>>

(* A request finds no connection, and nobody who opens one. *)
Reconnect ==
    /\ known /\ link = Absent /\ attempt = NoAttempt /\ \A t \in Task : pc[t] # "connect"
    /\ attempt' = [to |-> host, opened |-> FALSE]
    /\ OnlySender /\ UNCHANGED <<pc, host, link, borrowed>>

(* connect_once writes the address it has connected to back into the       *)
(* channel, and then waits for the last dispatch thread to end.            *)
Opened ==
    /\ attempt # NoAttempt /\ ~attempt.opened
    /\ attempt' = [attempt EXCEPT !.opened = TRUE] /\ host' = attempt.to
    /\ OnlySender /\ UNCHANGED <<pc, link, borrowed>>

(* The attempt ends, with a connection or, when no socket was opened,      *)
(* without; a changenode that waits in it succeeds or fails with it.       *)
AttemptEnds(ok) ==
    /\ attempt # NoAttempt /\ ok = attempt.opened
    /\ attempt' = NoAttempt
    /\ pc' = [t \in Task |-> IF pc[t] # "join" THEN pc[t] ELSE IF ok THEN "changed" ELSE "failed"]
    /\ link' = IF ok THEN attempt.to ELSE Absent
    /\ borrowed' = (borrowed \/ (ok /\ \E t \in Task : pc[t] = "join"))
    /\ OnlySender /\ UNCHANGED host

Next == \/ \E r \in Call \cup Push : Request(r)
        \/ RunTasks \/ Wakeup \/ Confirm
        \/ \E t \in Task : Sender(t) \/ Launched(t) \/ ChangeNode(t) \/ Changed(t) \/ ChangeFails(t)
        \/ \E t \in Task, ok \in BOOLEAN : ChangeConnects(t, ok)
        \/ Lost \/ Reconnect \/ Opened \/ \E ok \in BOOLEAN : AttemptEnds(ok)
        \/ \E x \in Address \cup {Absent, Down}, n \in BOOLEAN : Reload(x, n)

Spec == Init /\ [][Next]_vars

-----------------------------------------------------------------------------
(* The requests of a service leave, or fail, in the order in which they    *)
(* were made, each once: those that wait in the queue and those that find  *)
(* the sender known.                                                       *)
Waiting == SubSeq(queue, IF rs = "wake" THEN at ELSE at + 1, Len(queue))
OrderKept == issued = out \o Waiting /\ (rs = "none" => queue = <<>>) /\ (sender => rs = "none")

(* Whoever waits in clusterd has somebody who will wake it, and that one   *)
(* waits for a name only as long as the configuration lacks it.            *)
WaitersKept ==
    /\ \A t \in Task : /\ pc[t] = "wait" <=> t \in waiters
                       /\ pc[t] \notin {"idle", "wait"} <=> t = owner
                       /\ pc[t] = "name" => address = Absent /\ ~nowaiting
    /\ owner = Nobody => waiters = {}
    /\ pc[Service] # "idle" => rs = "asks"

(***************************************************************************)
(* When clusterd is not connecting, the channel that it hands out goes to  *)
(* the configured address, now and when it connects again.  It does not    *)
(* when the node was put down while it was opened, and when changenode met *)
(* a request that was connecting and took its connection for its own.      *)
(***************************************************************************)
Goes == CASE link # Absent -> link [] attempt # NoAttempt -> attempt.to [] OTHER -> host
AddressCurrent ==
    channel /\ owner = Nobody =>
        \/ address = Down \/ borrowed
        \/ Goes = address /\ host = address

SenderInv == OrderKept /\ WaitersKept /\ AddressCurrent
=============================================================================
