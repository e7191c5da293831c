--------------------------------- MODULE Multicast ---------------------------------
(***************************************************************************)
(* A multicast channel (multicast.lua, multicastd.lua, lua-multicast.c):   *)
(* a multicastd on each node keeps the subscribers of its node, the one of *)
(* the owner of the channel also the nodes that have some.  A message is   *)
(* one package per node, counted by references, whose pointer is sent to   *)
(* every subscriber.                                                       *)
(*                                                                         *)
(* The mailboxes keep the order in which messages are sent, and so do the  *)
(* connections of two nodes.  One channel is modelled, which exists from   *)
(* the start; how ids are chosen (NEW) is left out.  The handler of a      *)
(* subscriber may yield before its package is closed; where the unpack     *)
(* before it raises an error, the package is never closed (multicast.lua,  *)
(* line 79), which is a handler here that never ends.                      *)
(***************************************************************************)
EXTENDS Naturals, Sequences, FiniteSets, SequencesExt

CONSTANTS Node, Owner,  \* nodes, and the one whose channel it is
          Service,      \* services
          Home(_),      \* the node of each service
          MaxPub,       \* bound: messages published
          MaxOps        \* bound: calls of subscribe, unsubscribe and delete

VARIABLES group,        \* channel[c] of each multicastd, or {nil}
          count,        \* channel_n[c]
          remote,       \* channel_remote[c] of the owner
          mbox,         \* the messages that wait for each multicastd
          net,          \* ... and those on the way from node to node
          sub,          \* services: "no", "calling", "yes" (__subscribe)
          inbox,        \* multicast messages that wait for each service
          open,         \* the packages that a __dispatch of each service is busy with
          ref,          \* the reference of each package, 0 when it is freed
          heard,        \* history: what each service was handed
          crossed,      \* history: a node gave up while one of its services subscribed
          pubs, ops

vars == <<group, count, remote, mbox, net, sub, inbox, open, ref, heard, crossed, pubs, ops>>

Nil == {0}             \* no channel; services are positive
Exists(n) == group[n] # Nil

Init == /\ group = [n \in Node |-> IF n = Owner THEN {} ELSE Nil]
        /\ count = [n \in Node |-> 0] /\ remote = {}
        /\ mbox = [n \in Node |-> <<>>] /\ net = [p \in Node \X Node |-> <<>>]
        /\ sub = [s \in Service |-> "no"] /\ inbox = [s \in Service |-> <<>>]
        /\ open = [s \in Service |-> {}]
        /\ ref = [p \in (1 .. MaxPub) \X Node |-> 0]
        /\ heard = [s \in Service |-> <<>>]
        /\ crossed = FALSE /\ pubs = 0 /\ ops = 0

-----------------------------------------------------------------------------
(* multicast.lua: the services *)

Op == ops < MaxOps /\ ops' = ops + 1
ToDaemon(s, m) == mbox' = [mbox EXCEPT ![Home(s)] = Append(@, m)]

(* chan:subscribe, which waits for the answer *)
Subscribe(s) ==
    /\ Op /\ sub[s] = "no"
    /\ sub' = [sub EXCEPT ![s] = "calling"]
    /\ ToDaemon(s, [t |-> "SUB", who |-> s])
    /\ UNCHANGED <<group, count, remote, net, inbox, open, ref, heard, crossed, pubs>>

(* chan:unsubscribe, which does not *)
Unsubscribe(s) ==
    /\ Op /\ sub[s] = "yes"
    /\ sub' = [sub EXCEPT ![s] = "no"]
    /\ ToDaemon(s, [t |-> "USUB", who |-> s])
    /\ UNCHANGED <<group, count, remote, net, inbox, open, ref, heard, crossed, pubs>>

(* chan:delete *)
DeleteChannel(s) ==
    /\ Op
    /\ sub' = [sub EXCEPT ![s] = IF @ = "yes" THEN "no" ELSE @]
    /\ ToDaemon(s, [t |-> "DEL", who |-> s])
    /\ UNCHANGED <<group, count, remote, net, inbox, open, ref, heard, crossed, pubs>>

(* chan:publish *)
Publish(s) ==
    /\ pubs < MaxPub /\ pubs' = pubs + 1
    /\ ToDaemon(s, [t |-> "PUB", pub |-> pubs + 1])
    /\ UNCHANGED <<group, count, remote, net, sub, inbox, open, ref, heard, crossed, ops>>

(* dispatch_subscribe: a package that is not wanted is closed at once; the *)
(* handler of another may yield, and the service goes on meanwhile.        *)
DispatchSubscribe(s) ==
    /\ inbox[s] # <<>>
    /\ LET p == Head(inbox[s])
       IN  \/ /\ sub[s] # "yes"
              /\ ref' = [ref EXCEPT ![<<p, Home(s)>>] = @ - 1]
              /\ UNCHANGED <<open, heard>>
           \/ /\ sub[s] = "yes"
              /\ open' = [open EXCEPT ![s] = @ \cup {p}]
              /\ heard' = [heard EXCEPT ![s] = Append(@, p)]
              /\ UNCHANGED ref
    /\ inbox' = [inbox EXCEPT ![s] = Tail(@)]
    /\ UNCHANGED <<group, count, remote, mbox, net, sub, crossed, pubs, ops>>

(* __dispatch has returned or failed: mc.close *)
Dispatched(s) ==
    /\ \E p \in open[s] : /\ open' = [open EXCEPT ![s] = @ \ {p}]
                          /\ ref' = [ref EXCEPT ![<<p, Home(s)>>] = @ - 1]
    /\ UNCHANGED <<group, count, remote, mbox, net, sub, inbox, heard, crossed, pubs, ops>>

-----------------------------------------------------------------------------
(* multicastd.lua *)

Receives(n, t) == mbox[n] # <<>> /\ Head(mbox[n]).t = t
Consume(n) == mbox' = [mbox EXCEPT ![n] = Tail(@)]
Msg(n) == Head(mbox[n])
(* What n sends to the nodes ns, in records of a message *)
Sends(n, ns, m) == net' = [p \in Node \X Node |-> IF p[1] = n /\ p[2] \in ns THEN Append(net[p], m) ELSE net[p]]

(* publish: to the other nodes first, then to the subscribers of this one. *)
Spread(n, p) ==
    /\ Sends(n, IF n = Owner THEN remote ELSE {}, [t |-> "multicast", pub |-> p])
    /\ IF group[n] \in {Nil, {}} THEN UNCHANGED <<inbox, ref>>
       ELSE /\ ref' = [ref EXCEPT ![<<p, n>>] = @ + count[n]]
            /\ inbox' = [s \in Service |-> IF s \in group[n] THEN Append(inbox[s], p) ELSE inbox[s]]

(* command.PUB, and the multicast messages of other nodes *)
Pub(n) ==
    /\ Receives(n, "PUB") \/ Receives(n, "multicast")
    /\ Consume(n)
    /\ IF Msg(n).t = "PUB" /\ n # Owner
       THEN Sends(n, {Owner}, [t |-> "multicast", pub |-> Msg(n).pub]) /\ UNCHANGED <<inbox, ref>>
       ELSE Spread(n, Msg(n).pub)
    /\ UNCHANGED <<group, count, remote, sub, open, heard, crossed, pubs, ops>>

Join(n, s, g) == /\ group' = [group EXCEPT ![n] = g \cup {s}]
                 /\ count' = [count EXCEPT ![n] = (IF Exists(n) THEN @ ELSE 0) + (IF s \in g THEN 0 ELSE 1)]
Answer(s) == sub' = [sub EXCEPT ![s] = "yes"]

(* command.SUB: the first one of a node asks the owner. *)
Sub(n) ==
    /\ Receives(n, "SUB") /\ Consume(n)
    /\ LET s == Msg(n).who
       IN  IF n # Owner /\ ~Exists(n)
           THEN Sends(n, {Owner}, [t |-> "SUBR", who |-> s, node |-> n]) /\ UNCHANGED <<group, count, sub>>
           ELSE /\ Answer(s) /\ UNCHANGED net
                /\ IF Exists(n) THEN Join(n, s, group[n]) ELSE UNCHANGED <<group, count>>
    /\ UNCHANGED <<remote, inbox, open, ref, heard, crossed, pubs, ops>>

(* Mutant: the group that another SUB has made is made again. *)
SubscribedAgain(n) ==
    /\ Receives(n, "subscribed") /\ Consume(n)
    /\ LET s == Msg(n).who
       IN  /\ Answer(s)
           /\ IF Msg(n).none THEN UNCHANGED <<group, count>> ELSE Join(n, s, {})
    /\ UNCHANGED <<remote, net, inbox, open, ref, heard, crossed, pubs, ops>>

(* ... and goes on when it has answered. *)
Subscribed(n) ==
    /\ Receives(n, "subscribed") /\ Consume(n)
    /\ LET s == Msg(n).who
       IN  /\ Answer(s)
           /\ IF Msg(n).none THEN UNCHANGED <<group, count>>
              ELSE Join(n, s, IF Exists(n) THEN group[n] ELSE {})
    /\ UNCHANGED <<remote, net, inbox, open, ref, heard, crossed, pubs, ops>>

(* command.SUBR *)
Subr(n) ==
    /\ Receives(n, "SUBR") /\ Consume(n)
    /\ remote' = IF Exists(n) THEN remote \cup {Msg(n).node} ELSE remote
    /\ Sends(n, {Msg(n).node}, [t |-> "subscribed", who |-> Msg(n).who, none |-> ~Exists(n)])
    /\ UNCHANGED <<group, count, sub, inbox, open, ref, heard, crossed, pubs, ops>>

(* Who of node n waits for the owner in command.SUB *)
Asking(n) == {s \in Service : Home(s) = n /\ sub[s] = "calling"
                                  /\ [t |-> "SUB", who |-> s] \notin Range(mbox[n])}

(* command.USUB: the last one of a node tells the owner.  Without a        *)
(* channel, the assertion only ends this request.                          *)
Usub(n) ==
    /\ Receives(n, "USUB") /\ Consume(n)
    /\ LET g == group[n] \ {Msg(n).who}
           member == Exists(n) /\ Msg(n).who \in group[n]
           leaves == member /\ g = {} /\ n # Owner
       IN  /\ group' = IF leaves THEN [group EXCEPT ![n] = Nil]
                       ELSE IF member THEN [group EXCEPT ![n] = g] ELSE group
           /\ count' = IF member THEN [count EXCEPT ![n] = @ - 1] ELSE count
           /\ crossed' = (crossed \/ (leaves /\ Asking(n) # {}))
           /\ Sends(n, IF leaves THEN {Owner} ELSE {}, [t |-> "USUBR", node |-> n])
    /\ UNCHANGED <<remote, sub, inbox, open, ref, heard, pubs, ops>>

(* command.USUBR *)
Usubr(n) ==
    /\ Receives(n, "USUBR") /\ Consume(n)
    /\ remote' = remote \ {Msg(n).node}
    /\ UNCHANGED <<group, count, net, sub, inbox, open, ref, heard, crossed, pubs, ops>>

(* command.DEL, and command.DELR at the nodes that have subscribed *)
Del(n) ==
    /\ Receives(n, "DEL") \/ Receives(n, "DELR")
    /\ Consume(n)
    /\ IF Msg(n).t = "DEL" /\ n # Owner
       THEN Sends(n, {Owner}, Msg(n)) /\ UNCHANGED <<group, count, remote>>
       ELSE /\ group' = [group EXCEPT ![n] = Nil] /\ count' = [count EXCEPT ![n] = 0]
            /\ Sends(n, IF n = Owner THEN remote ELSE {}, [t |-> "DELR"])
            /\ remote' = IF n = Owner THEN {} ELSE remote
    /\ UNCHANGED <<sub, inbox, open, ref, heard, crossed, pubs, ops>>

(* The harbors of two nodes *)
Deliver(p) ==
    /\ net[p] # <<>>
    /\ mbox' = [mbox EXCEPT ![p[2]] = Append(@, Head(net[p]))]
    /\ net' = [net EXCEPT ![p] = Tail(@)]
    /\ UNCHANGED <<group, count, remote, sub, inbox, open, ref, heard, crossed, pubs, ops>>

Next == \/ \E s \in Service : \/ Subscribe(s) \/ Unsubscribe(s) \/ DeleteChannel(s)
                              \/ Publish(s) \/ DispatchSubscribe(s) \/ Dispatched(s)
        \/ \E n \in Node : \/ Pub(n) \/ Sub(n) \/ Subscribed(n) \/ Subr(n)
                           \/ Usub(n) \/ Usubr(n) \/ Del(n)
        \/ \E p \in Node \X Node : Deliver(p)

Spec == Init /\ [][Next]_vars

-----------------------------------------------------------------------------
TypeOK == /\ \A n \in Node : group[n] \subseteq Service \cup Nil
          /\ remote \subseteq Node \ {Owner}
          /\ sub \in [Service -> {"no", "calling", "yes"}]

(***************************************************************************)
(* A package lives as long as a subscriber has its pointer in the mailbox  *)
(* or a handler that has not returned, however subscribers come and go     *)
(* between mc.bind and their mc.close; and no service is handed a message  *)
(* twice or two messages in another order.                                 *)
(***************************************************************************)
Pointers(p, n) == Cardinality({s \in Service : Home(s) = n /\ p \in Range(inbox[s]) \cup open[s]})
PackagesExact == \A p \in 1 .. MaxPub, n \in Node : ref[<<p, n>>] = Pointers(p, n)

HeardOnce == \A s \in Service : IsInjective(heard[s] \o inbox[s])

CountExact == \A n \in Node : count[n] = IF Exists(n) THEN Cardinality(group[n]) ELSE 0

(***************************************************************************)
(* When nothing is on the way, whoever has subscribed is reached: it is in *)
(* the group of its node, and the owner knows the node ("node subscribe it *)
(* by send a SUBR to the owner", line 139).  Refuted, because a USUBR can  *)
(* overtake the answer to a SUBR of the same node; see the README.         *)
(***************************************************************************)
Quiet == (\A n \in Node : mbox[n] = <<>>) /\ (\A p \in Node \X Node : net[p] = <<>>)
SubscribersReached ==
    Quiet /\ Exists(Owner) =>
        \A s \in Service : sub[s] = "yes" => s \in group[Home(s)] /\ Home(s) \in remote \cup {Owner}

(* The rest of what the channel promises, and this unless the two have crossed *)
MulticastInv == /\ TypeOK /\ PackagesExact /\ HeardOnce /\ CountExact
                /\ crossed \/ SubscribersReached
=============================================================================
