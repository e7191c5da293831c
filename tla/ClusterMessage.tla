--------------------------- MODULE ClusterMessage ---------------------------
(***************************************************************************)
(* Requests and answers between two nodes of a cluster, over one           *)
(* connection that holds: what is larger than a part goes as several       *)
(* packets of low priority (lua-cluster.c), which packets of high priority *)
(* overtake, and is put together again by its session: requests by the     *)
(* agent (clusteragent.lua), answers by the channel (socketchannel.lua).   *)
(* A byte says of which message it is and where in it.                     *)
(*                                                                         *)
(* The socket server sends what is queued with high priority first         *)
(* (SocketServer), and a packet arrives whole (Netpack).  Names are        *)
(* resolved in ClusterAgent; here that takes time and may fail.  The tags  *)
(* of traced calls are left out.                                           *)
(***************************************************************************)
EXTENDS Naturals, Sequences, FiniteSets, SequencesExt

CONSTANTS Request,      \* requests, 1 .. n in the order in which they are made
          Sizes,        \* by request: the bytes that it and its answer may have
          Part,         \* MULTI_PART, 0x8000 in the code
          MaxPush       \* bound: requests that are cluster.send

VARIABLES session,      \* the session of clustersender
          asked,        \* requests: Nothing or [op, size, ses]
          out, back,    \* packets that wait for the socket, high and low, to and fro
          large,        \* large_request of the agent, by session
          task,         \* ... the coroutine that has each request
          handed,       \* what the services were given
          answer,       \* the size of the answer of each, 0 before it is made
          data,         \* __result_data of each caller
          got           \* what each caller was given, or Nothing

vars == <<session, asked, out, back, large, task, handed, answer, data, got>>

Nothing == [op |-> "none"]
Empty == [high |-> <<>>, low |-> <<>>]
NoLarge == [s \in {} |-> Nothing]

Init == /\ session = 1 /\ asked = [i \in Request |-> Nothing]
        /\ out = Empty /\ back = Empty
        /\ large = NoLarge /\ task = [i \in Request |-> Nothing]
        /\ handed = <<>> /\ answer = [i \in Request |-> 0]
        /\ data = [i \in Request |-> <<>>] /\ got = [i \in Request |-> Nothing]

-----------------------------------------------------------------------------
(* lua-cluster.c *)

Bytes(kind, i, n) == [k \in 1 .. n |-> [of |-> i, kind |-> kind, at |-> k]]

Least(a, b) == IF a < b THEN a ELSE b

(* The parts of a message, the last of them marked. *)
Parts(ses, msg) ==
    LET part == (Len(msg) - 1) \div Part + 1
        Left(k) == Len(msg) - (k - 1) * Part
    IN  [k \in 1 .. part |->
            [t |-> IF Left(k) > Part THEN "part" ELSE "end", ses |-> ses,
             msg |-> SubSeq(msg, (k - 1) * Part + 1, (k - 1) * Part + Least(Left(k), Part))]]

(* A request of less than a part is one packet; a push has session 0 then. *)
PackRequest(named, ses, msg, push) ==
    IF Len(msg) < Part
    THEN [first |-> [t |-> "req", named |-> named, ses |-> IF push THEN 0 ELSE ses, msg |-> msg], padding |-> <<>>]
    ELSE [first |-> [t |-> "multi", named |-> named, ses |-> ses, sz |-> Len(msg), push |-> push],
          padding |-> Parts(ses, msg)]

(* An error is cut to one part. *)
PackResponse(ses, ok, msg) ==
    IF ok /\ Len(msg) > Part
    THEN <<[t |-> "begin", ses |-> ses, sz |-> Len(msg)]>> \o Parts(ses, msg)
    ELSE <<[t |-> IF ok THEN "ok" ELSE "error", ses |-> ses, msg |-> SubSeq(msg, 1, Least(Len(msg), Part))]>>

(* What was appended, if its size is the one that was announced. *)
Concat(sz, parts) == LET msg == FlattenSeq(parts) IN IF Len(msg) = sz THEN msg ELSE <<>>

-----------------------------------------------------------------------------
(* clustersender.lua *)

Turn(i) == asked[i] = Nothing /\ \A j \in Request : j < i => asked[j] # Nothing

(* channel:request writes all packets of a large request with low priority. *)
Written(p) ==
    IF p.padding = <<>> THEN [out EXCEPT !.high = Append(@, p.first)]
    ELSE [out EXCEPT !.low = @ \o <<p.first>> \o p.padding]

Call(i, n, named) ==
    LET p == PackRequest(named, session, Bytes("q", i, n), FALSE)
    IN  /\ Turn(i) /\ session' = session + 1
        /\ asked' = [asked EXCEPT ![i] = [op |-> "call", size |-> n, ses |-> session]]
        /\ out' = Written(p)
        /\ UNCHANGED <<back, large, task, handed, answer, data, got>>

(* The session counts on only after a large push. *)
Push(i, n, named) ==
    LET p == PackRequest(named, session, Bytes("q", i, n), TRUE)
    IN  /\ Turn(i) /\ Cardinality({j \in Request : asked[j].op = "push"}) < MaxPush
        /\ session' = IF p.padding = <<>> THEN session ELSE session + 1
        /\ asked' = [asked EXCEPT ![i] = [op |-> "push", size |-> n, ses |-> p.first.ses]]
        /\ out' = Written(p)
        /\ UNCHANGED <<back, large, task, handed, answer, data, got>>

-----------------------------------------------------------------------------
(* clusteragent.lua *)

Comes(q) == q.high # <<>> \/ q.low # <<>>
Packet(q) == IF q.high # <<>> THEN Head(q.high) ELSE Head(q.low)
Rest(q) == IF q.high # <<>> THEN [q EXCEPT !.high = Tail(@)] ELSE [q EXCEPT !.low = Tail(@)]

(* socket.write, or socket.lwrite for each packet of a large answer *)
Reply(ps) == back' = IF Len(ps) > 1 THEN [back EXCEPT !.low = @ \o ps] ELSE [back EXCEPT !.high = @ \o ps]

(* dispatch_request with padding *)
Padding ==
    /\ Comes(out) /\ Packet(out).t \in {"multi", "part"}
    /\ LET p == Packet(out)
           multi == p.t = "multi"
           new == [sz |-> 0, parts |-> <<>>, named |-> multi /\ p.named, push |-> multi /\ p.push]
           old == IF p.ses \in DOMAIN large THEN large[p.ses] ELSE new
           req == IF multi THEN [old EXCEPT !.sz = p.sz] ELSE [old EXCEPT !.parts = Append(@, p.msg)]
       IN  large' = [s \in DOMAIN large \cup {p.ses} |-> IF s = p.ses THEN req ELSE large[s]]
    /\ out' = Rest(out)
    /\ UNCHANGED <<session, asked, back, task, handed, answer, data, got>>

(* rawsend, rawcall *)
Hand(i, t) ==
    /\ handed' = Append(handed, [msg |-> t.msg, push |-> t.push])
    /\ task' = [task EXCEPT ![i] = [t EXCEPT !.op = IF t.push THEN "done" ELSE "call"]]

(* dispatch_request of a whole request, up to where it waits: for a name,  *)
(* or for the service                                                      *)
Whole ==
    /\ Comes(out) /\ Packet(out).t \in {"req", "end"}
    /\ LET p == Packet(out)
           several == p.ses \in DOMAIN large
           req == IF several THEN large[p.ses] ELSE [named |-> p.named, push |-> p.ses = 0]
           msg == IF several THEN Concat(req.sz, Append(req.parts, p.msg)) ELSE p.msg
           t == [op |-> "query", ses |-> p.ses, msg |-> msg, push |-> req.push]
       IN  /\ large' = [s \in DOMAIN large \ {p.ses} |-> large[s]]
           /\ IF msg = <<>> THEN Reply(PackResponse(p.ses, FALSE, <<>>)) /\ UNCHANGED <<task, handed>>
              ELSE IF req.named THEN task' = [task EXCEPT ![msg[1].of] = t] /\ UNCHANGED <<handed, back>>
              ELSE Hand(msg[1].of, t) /\ UNCHANGED back
    /\ out' = Rest(out)
    /\ UNCHANGED <<session, asked, answer, data, got>>

(* The name is known, at once or after a question to clusterd. *)
Known(i) ==
    /\ task[i].op = "query" /\ Hand(i, task[i])
    /\ UNCHANGED <<session, asked, out, back, large, answer, data, got>>

(* The name is not known: "Invalid name", to a push too. *)
Unknown(i) ==
    /\ task[i].op = "query" /\ task' = [task EXCEPT ![i].op = "done"]
    /\ Reply(PackResponse(task[i].ses, FALSE, Bytes("error", i, 1)))
    /\ UNCHANGED <<session, asked, out, large, handed, answer, data, got>>

(* The service answers with n bytes, or fails with an error of n. *)
Answer(i, n, ok) ==
    /\ task[i].op = "call" /\ task' = [task EXCEPT ![i].op = "done"]
    /\ answer' = [answer EXCEPT ![i] = n]
    /\ Reply(PackResponse(task[i].ses, ok, Bytes(IF ok THEN "answer" ELSE "error", i, n)))
    /\ UNCHANGED <<session, asked, out, large, handed, data, got>>

-----------------------------------------------------------------------------
(* dispatch_by_session of the channel, and the caller that it wakes *)

Waiting(ses) == {i \in Request : asked[i].op = "call" /\ asked[i].ses = ses /\ got[i] = Nothing}

Receive ==
    /\ Comes(back) /\ back' = Rest(back)
    /\ LET p == Packet(back) IN
       \/ Waiting(p.ses) = {} /\ UNCHANGED <<data, got>>
       \/ \E i \in Waiting(p.ses) :
            /\ p.t \in {"begin", "part"}
            /\ data' = [data EXCEPT ![i] = Append(@, IF p.t = "begin" THEN p.sz ELSE p.msg)]
            /\ UNCHANGED got
       \/ \E i \in Waiting(p.ses) :
            /\ p.t \notin {"begin", "part"}
            /\ got' = [got EXCEPT ![i] =
                 [op |-> IF p.t = "error" THEN "error" ELSE "answer",
                  msg |-> IF p.t = "error" \/ data[i] = <<>> THEN p.msg
                          ELSE Concat(Head(data[i]), Append(Tail(data[i]), p.msg))]]
            /\ data' = [data EXCEPT ![i] = <<>>]
    /\ UNCHANGED <<session, asked, out, large, task, handed, answer>>

Next == \/ \E i \in Request, named \in BOOLEAN :
              \E n \in Sizes[i] : Call(i, n, named) \/ Push(i, n, named)
        \/ Padding \/ Whole
        \/ \E i \in Request : Known(i) \/ Unknown(i) \/ \E n \in Sizes[i], ok \in BOOLEAN : Answer(i, n, ok)
        \/ Receive

Spec == Init /\ [][Next]_vars

-----------------------------------------------------------------------------
(***************************************************************************)
(* However packets overtake each other, a service is given each request    *)
(* whole and at most once, a call as a call and a send as a send.          *)
(***************************************************************************)
HandedWhole ==
    /\ \A k \in DOMAIN handed :
         LET i == handed[k].msg[1].of
         IN  handed[k] = [msg |-> Bytes("q", i, asked[i].size), push |-> asked[i].op = "push"]
    /\ \A k, l \in DOMAIN handed : handed[k].msg = handed[l].msg => k = l

(***************************************************************************)
(* A caller is given the answer to its own request, all of it, or its own  *)
(* error, at most a part of it.                                            *)
(***************************************************************************)
OwnAnswer ==
    \A i \in Request :
        /\ got[i].op = "answer" => got[i].msg = Bytes("answer", i, answer[i])
        /\ got[i].op = "error" => \E n \in 1 .. Part : got[i].msg = Bytes("error", i, n)

(***************************************************************************)
(* Nothing gets lost on its way: the last part of a request is in the      *)
(* queue until a coroutine has the request, and what the agent has put     *)
(* together and what is queued are the whole; a call is with its service   *)
(* or its answer is on the way back, in the same manner; and the agent     *)
(* keeps no part of what was handed over.                                  *)
(***************************************************************************)
Text(q, i) == LET mine == SelectSeq(q.high \o q.low, LAMBDA p : "msg" \in DOMAIN p /\ p.msg[1].of = i)
              IN  FlattenSeq([k \in DOMAIN mine |-> mine[k].msg])

OnItsWay(i) ==
    LET s == asked[i].ses
        partly == IF s \in DOMAIN large THEN FlattenSeq(large[s].parts) ELSE <<>>
    IN  Text(out, i) # <<>> /\ partly \o Text(out, i) = Bytes("q", i, asked[i].size)

OnItsWayBack(i) ==
    LET partly == FlattenSeq(SubSeq(data[i], 2, Len(data[i])))
    IN  /\ Text(back, i) # <<>>
        /\ \/ partly \o Text(back, i) = Bytes("answer", i, answer[i])
           \/ \E n \in 1 .. Part : data[i] = <<>> /\ Text(back, i) = Bytes("error", i, n)

NothingLost ==
    /\ \A i \in Request :
         /\ asked[i] # Nothing /\ task[i] = Nothing => OnItsWay(i)
         /\ asked[i].op = "call" /\ task[i].op = "done" /\ got[i] = Nothing => OnItsWayBack(i)
    /\ \A s \in DOMAIN large : \E i \in Request : asked[i].op # "none" /\ asked[i].ses = s /\ task[i] = Nothing

(* The parts of the invariant of the run. *)
MessageInv == HandedWhole /\ OwnAnswer /\ NothingLost
=============================================================================
