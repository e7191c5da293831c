------------------------------- MODULE MsgServer -------------------------------
(***************************************************************************)
(* The message server of a game (msgserver.lua) on top of the gate in Lua  *)
(* (gateserver.lua), for one user.  A client that loses its connection     *)
(* comes back with a higher index and sends again what was not answered;   *)
(* the server keeps the responses that it has sent for that purpose.       *)
(*                                                                         *)
(* Each packet is handled at once, and only conf.request_handler yields    *)
(* (line 272).  The messages of one connection are handled in their order, *)
(* which module Netpack is about.  Codes, addresses and the handlers of    *)
(* the user are left out.                                                  *)
(***************************************************************************)
EXTENDS Naturals, Sequences, FiniteSets

CONSTANTS Session,      \* the session numbers a client uses
          MaxFd,        \* bound: connections
          MaxReq,       \* bound: different requests of the client
          MaxRun,       \* bound: calls of the request handler
          Expired,      \* expired_number
          MaxClient     \* maxclient of the gate

Socket == 1 .. MaxFd
Run == 1 .. MaxRun
Nil == 0

VARIABLES
    link,       \* connections: "none", "up", "down", "gone" (the close is handled)
    wire, back, \* what the client sent and is not handled; the answers on their way
    client,     \* the client: its connection, its index, its requests
    gate,       \* connection of gateserver.lua: "nil", TRUE or FALSE
    number,     \* client_number
    handshake,  \* handshake
    conn,       \* connection of msgserver.lua: the descriptors of the user
    user,       \* the user: online, version, index, fd
    response,   \* u.response: the entry of each session, or Nil
    entry,      \* the entries { return_fd, response, version, index }
    runs,       \* history: how often each request was executed
    spoilt      \* history: requests that a connection before the last one has had a
                \* hand in (see Finish), or whose response has expired

vars == <<link, wire, back, client, gate, number, handshake, conn, user, response, entry, runs, spoilt>>
sockets == <<link, wire, back, client>>
server == <<gate, number, handshake, conn>>
requests == <<response, entry, runs, spoilt>>

(* The client: next numbers the requests; waits maps a session to the      *)
(* request that is not answered; first[r] is the connection of its first   *)
(* sending, and mine the sessions that can be used again in this one.      *)
Init == /\ link = [f \in Socket |-> "none"] /\ wire = [f \in Socket |-> <<>>] /\ back = [f \in Socket |-> <<>>]
        /\ client = [fd |-> Nil, index |-> 0, next |-> 1, waits |-> [s \in Session |-> Nil],
                     first |-> [r \in 1 .. MaxReq |-> Nil], used |-> {}, mine |-> {}, wrong |-> FALSE]
        /\ gate = [f \in Socket |-> "nil"] /\ number = 0
        /\ handshake = {} /\ conn = {}
        /\ user = [online |-> TRUE, version |-> 0, index |-> 0, fd |-> Nil]
        /\ response = [s \in Session |-> Nil]
        /\ entry = [p \in Run |-> [fd |-> Nil, done |-> FALSE, version |-> 0, index |-> 0,
                                 session |-> Nil, request |-> Nil, asked |-> 0]]
        /\ runs = [r \in 1 .. MaxReq |-> 0] /\ spoilt = {}

-----------------------------------------------------------------------------
(* The client, which plays by the rules of the comment at line 11 *)

Again(s) == [t |-> "request", session |-> s, request |-> client.waits[s]]

(* A new connection, the handshake, and everything that is not answered *)
Connect(f) ==
    /\ client.fd = Nil /\ link[f] = "none" /\ \A g \in 1 .. f - 1 : link[g] # "none"
    /\ link' = [link EXCEPT ![f] = "up"]
    /\ client' = [client EXCEPT !.fd = f, !.index = @ + 1, !.mine = {}]
    /\ \E q \in [1 .. Cardinality({s \in Session : client.waits[s] # Nil}) -> Session] :
        /\ {q[k] : k \in DOMAIN q} = {s \in Session : client.waits[s] # Nil}
        /\ wire' = [wire EXCEPT ![f] = <<[t |-> "open"], [t |-> "auth", index |-> client.index + 1]>>
                                         \o [k \in DOMAIN q |-> Again(q[k])]]
    /\ UNCHANGED <<back, server, user, requests>>

(* A session is new, or was used and answered in this connection. *)
Ask(s) ==
    LET r == client.next
    IN  /\ client.fd # Nil /\ r <= MaxReq /\ client.waits[s] = Nil
        /\ s \notin client.used \/ s \in client.mine
        /\ client' = [client EXCEPT !.next = r + 1, !.waits[s] = r, !.first[r] = client.fd,
                                    !.used = @ \cup {s}, !.mine = @ \ {s}]
        /\ wire' = [wire EXCEPT ![client.fd] =
                        Append(@, [t |-> "request", session |-> s, request |-> r])]
        /\ UNCHANGED <<link, back, server, user, requests>>

Receive ==
    LET f == client.fd IN
    /\ f # Nil /\ back[f] # <<>>
    /\ LET m == Head(back[f])
           s == m.session
       IN  client' = [client EXCEPT !.wrong = @ \/ (client.waits[s] # m.request /\ client.waits[s] \notin spoilt),
                                    !.waits[s] = Nil,
                                    !.mine = IF client.first[m.request] = f THEN @ \cup {s} ELSE @]
    /\ back' = [back EXCEPT ![f] = Tail(@)]
    /\ UNCHANGED <<link, wire, server, user, requests>>

(* The connection breaks; the end of what was sent is lost, both ways. *)
Break(f) ==
    /\ client.fd = f /\ link[f] = "up"
    /\ \E n \in 0 .. Len(wire[f]) : wire' = [wire EXCEPT ![f] = SubSeq(@, 1, n)]
    /\ link' = [link EXCEPT ![f] = "down"] /\ back' = [back EXCEPT ![f] = <<>>]
    /\ client' = [client EXCEPT !.fd = Nil]
    /\ UNCHANGED <<server, user, requests>>

(* The client notices that the server has closed. *)
Notice == /\ client.fd # Nil /\ link[client.fd] # "up" /\ back[client.fd] = <<>>
          /\ client' = [client EXCEPT !.fd = Nil]
          /\ UNCHANGED <<link, wire, back, server, user, requests>>

-----------------------------------------------------------------------------
(* gateserver.lua *)

Arrives(f, t) == wire[f] # <<>> /\ Head(wire[f]).t = t
Consume(f) == wire' = [wire EXCEPT ![f] = Tail(@)]

(* socketdriver.close of the descriptors fs *)
Hangup(fs) == link' = [f \in Socket |-> IF f \in fs /\ link[f] = "up" THEN "down" ELSE link[f]]

(* gateserver.closeclient *)
CloseClient(fs) == /\ gate' = [f \in Socket |-> IF f \in fs /\ gate[f] = "true" THEN "false" ELSE gate[f]]
                   /\ Hangup({f \in fs : gate[f] = "true"})

(* MSG.open, handler.connect *)
Open(f) ==
    /\ Arrives(f, "open") /\ Consume(f)
    /\ IF number >= MaxClient THEN Hangup({f}) /\ UNCHANGED <<gate, number, handshake>>
       ELSE /\ gate' = [gate EXCEPT ![f] = "true"] /\ number' = number + 1
            /\ handshake' = handshake \cup {f}
            /\ UNCHANGED link
    /\ UNCHANGED <<back, client, conn, user, requests>>

(* MSG.close and MSG.error, handler.disconnect *)
Disconnect(f) ==
    /\ link[f] = "down" /\ wire[f] = <<>>
    /\ link' = [link EXCEPT ![f] = "gone"]
    /\ handshake' = handshake \ {f} /\ conn' = conn \ {f}
    /\ user' = IF f \in conn THEN [user EXCEPT !.fd = Nil] ELSE user
    /\ gate' = [gate EXCEPT ![f] = "nil"] /\ number' = IF gate[f] = "nil" THEN number ELSE number - 1
    /\ UNCHANGED <<wire, back, client, requests>>

(* dispatch_msg for a descriptor that was closed *)
DropMessage(f) == /\ wire[f] # <<>> /\ ~Arrives(f, "open") /\ gate[f] # "true" /\ Consume(f)
                  /\ UNCHANGED <<link, back, client, server, user, requests>>

-----------------------------------------------------------------------------
(* msgserver.lua *)

(* auth, do_auth *)
Auth(f) ==
    /\ Arrives(f, "auth") /\ gate[f] = "true" /\ f \in handshake /\ Consume(f)
    /\ handshake' = handshake \ {f}
    /\ LET idx == Head(wire[f]).index
       IN  IF ~user.online \/ idx <= user.version
           THEN CloseClient({f}) /\ UNCHANGED <<user, conn>>
           ELSE /\ user' = [user EXCEPT !.version = idx, !.fd = f] /\ conn' = conn \cup {f}
                /\ UNCHANGED <<link, gate>>
    /\ UNCHANGED <<back, client, number, requests>>

(* socketdriver.send, when there is somebody *)
Answer(f, p) == back' = IF f \in conn /\ link[f] = "up"
                        THEN [back EXCEPT ![f] = Append(@, p)] ELSE back

(***************************************************************************)
(* retire_response, with the entries ent and the index n of the user: what *)
(* was sent long ago is forgotten, and the rest is renumbered.             *)
(***************************************************************************)
Retire(resp, ent, n, late) ==
    LET sent == {s \in Session : resp[s] # Nil /\ ent[resp[s]].fd = Nil}
        old == {s \in sent : ent[resp[s]].index < Expired}
        kept == {resp[s] : s \in sent \ old}
        Renumbered(p) == ent[p].index - Expired
        top == CHOOSE m \in {0} \cup {Renumbered(p) : p \in kept} :
                   \A p \in kept : m >= Renumbered(p)
    IN  IF n < Expired * 2
        THEN response' = resp /\ entry' = ent /\ user' = [user EXCEPT !.index = n] /\ spoilt' = spoilt \cup late
        ELSE /\ response' = [s \in Session |-> IF s \in old THEN Nil ELSE resp[s]]
             /\ entry' = [p \in Run |-> IF p \in kept THEN [ent[p] EXCEPT !.index = Renumbered(p)] ELSE ent[p]]
             /\ user' = [user EXCEPT !.index = top + 1]
             /\ spoilt' = spoilt \cup late \cup {ent[resp[s]].request : s \in old}

(* do_request, of a session whose entry is there and answers to this request *)
Reused(s) == response[s] # Nil /\ entry[response[s]].version = user.version
Busy(p) == entry[p].request # Nil /\ ~entry[p].done

(* What arrives over a connection that is not the last one, and what the   *)
(* response to an earlier request of the same session is mistaken for      *)
Old(f) == LET m == Head(wire[f])
              p == response[m.session]
          IN  {r \in {m.request} : f # user.fd \/ (p # Nil /\ ~Reused(m.session) /\ entry[p].request # r)}

(* Mutant: the answer goes to the connection in which it was asked. *)
MovedNot(p, f) == [entry EXCEPT ![p].version = user.version, ![p].index = user.index]

(* Entry p is answered over connection f now. *)
Moved(p, f) == [entry EXCEPT ![p].fd = f, ![p].version = user.version, ![p].index = user.index]

(* ... it was asked in an earlier connection: the response is sent again, now or later *)
Resend(f) ==
    /\ Arrives(f, "request") /\ gate[f] = "true" /\ f \notin handshake /\ f \in conn /\ Consume(f)
    /\ LET s == Head(wire[f]).session
           p == response[s]
       IN  /\ p # Nil /\ ~Reused(s)
           /\ IF entry[p].done
              THEN /\ Answer(f, [session |-> s, request |-> entry[p].request])
                   /\ Retire(response, [Moved(p, f) EXCEPT ![p].fd = Nil], user.index + 1, Old(f))
              ELSE entry' = Moved(p, f) /\ spoilt' = spoilt \cup Old(f) /\ UNCHANGED <<back, user, response>>
    /\ UNCHANGED <<link, client, server, runs>>

(* ... it is a new one, and conf.request_handler is called *)
Execute(f) ==
    /\ Arrives(f, "request") /\ gate[f] = "true" /\ f \notin handshake /\ f \in conn /\ Consume(f)
    /\ LET m == Head(wire[f])
           s == m.session
       IN  /\ response[s] = Nil \/ (Reused(s) /\ entry[response[s]].done)
           /\ \E p \in Run : /\ entry[p].request = Nil /\ \A q \in 1 .. p - 1 : entry[q].request # Nil
                             /\ entry' = [entry EXCEPT ![p].fd = f, ![p].session = s,
                                                          ![p].request = m.request, ![p].asked = user.version]
                             /\ response' = [response EXCEPT ![s] = p]
           /\ runs' = [runs EXCEPT ![m.request] = @ + 1]
           /\ spoilt' = spoilt \cup Old(f)
    /\ UNCHANGED <<link, back, client, server, user>>

(* ... it conflicts with one that is not answered: an error, as for a      *)
(* descriptor without a user.                                              *)
Refuse(f) ==
    /\ Arrives(f, "request") /\ gate[f] = "true" /\ f \notin handshake /\ Consume(f)
    /\ LET s == Head(wire[f]).session
       IN  \/ f \notin conn /\ UNCHANGED <<link, gate, response>>
           \/ /\ f \in conn /\ Reused(s) /\ ~entry[response[s]].done
              /\ response' = [response EXCEPT ![s] = Nil]
              /\ CloseClient({f})
    /\ UNCHANGED <<back, client, number, handshake, conn, user, entry, runs, spoilt>>

(***************************************************************************)
(* The handler returns; the connection may be another one, or none.  What  *)
(* is stored is the version of the user at this time, not of the           *)
(* connection in which it was asked: a client that has come back meanwhile *)
(* and asks again seems to use its session for something new (spoilt).     *)
(***************************************************************************)
Finish(p) ==
    /\ Busy(p)
    /\ LET e == entry[p]
           done == [entry EXCEPT ![p].done = TRUE, ![p].fd = Nil,
                                 ![p].version = user.version, ![p].index = user.index]
       IN  /\ Answer(e.fd, [session |-> e.session, request |-> e.request])
           /\ Retire(response, done, user.index + 1,
                     IF e.version # user.version /\ e.asked # user.version THEN {e.request} ELSE {})
    /\ UNCHANGED <<link, wire, client, server, runs>>

(* server.logout, which the agent of the user calls *)
Logout ==
    /\ user.online /\ user' = [user EXCEPT !.online = FALSE]
    /\ CloseClient({user.fd} \ {Nil}) /\ conn' = conn \ {user.fd}
    /\ UNCHANGED <<wire, back, client, number, handshake, requests>>

Next == \/ \E f \in Socket : \/ Connect(f) \/ Break(f) \/ Open(f) \/ Disconnect(f) \/ DropMessage(f)
                         \/ Auth(f) \/ Resend(f) \/ Execute(f) \/ Refuse(f)
        \/ \E s \in Session : Ask(s)
        \/ \E p \in Run : Finish(p)
        \/ Receive \/ Notice \/ Logout

Spec == Init /\ [][Next]_vars

-----------------------------------------------------------------------------
TypeOK == /\ \A f \in Socket : gate[f] \in {"nil", "true", "false"}
          /\ handshake \cup conn \subseteq Socket /\ number \in Nat

(***************************************************************************)
(* The gate counts its clients exactly, whoever closes first, so that it   *)
(* never fills up; and each descriptor is in one state of the server.      *)
(***************************************************************************)
ClientsCounted ==
    /\ number = Cardinality({f \in Socket : gate[f] # "nil"}) /\ number <= MaxClient
    /\ handshake \cap conn = {} /\ \A f \in handshake \cup conn : gate[f] # "nil"

(***************************************************************************)
(* A request is executed once, however often its client comes back for the *)
(* answer, unless its entry has expired or got a later version (spoilt).   *)
(***************************************************************************)
ExecutedOnce == \A r \in DOMAIN runs : runs[r] > 1 => r \in spoilt

(* The client is never handed the answer to another request. *)
AnswersRight == ~client.wrong

(***************************************************************************)
(* A client that waits will hear: its request is on the way, is executed   *)
(* for this connection, or is answered; or its connection is being closed. *)
(***************************************************************************)
NoneLost ==
    LET f == client.fd IN
    f # Nil /\ link[f] = "up" => \A s \in Session : client.waits[s] # Nil =>
        LET r == client.waits[s] IN
        \/ r \in spoilt
        \/ \E k \in DOMAIN wire[f] : wire[f][k].t = "request" /\ wire[f][k].request = r
        \/ \E k \in DOMAIN back[f] : back[f][k].request = r
        \/ \E p \in Run : Busy(p) /\ entry[p].request = r /\ entry[p].fd = f

(* "return ip when connection establish, or nil" (line 61), of server.ip   *)
IpKnown == conn # {} => user.fd # Nil

(* "user logout": nobody is left behind who could still send requests.     *)
LogoutComplete == ~user.online => conn = {}

(* Requests of a user *)
MsgServerInv == TypeOK /\ ClientsCounted /\ ExecutedOnce /\ AnswersRight /\ NoneLost
=============================================================================
