-------------------------------- MODULE MCHarbor --------------------------------
(***************************************************************************)
(* The services that stand between a node and its sockets, for TLC: the    *)
(* harbor with what goes out (Harbor) and the bytes that come in           *)
(* (HarborStream), the gate in C (Gate), the packets of the gate in Lua    *)
(* (Netpack), the message server on top of it (MsgServer), and a service   *)
(* that reads a connection (SocketBuffer).  They share no state; each      *)
(* behaviour is one of the part that was chosen at its start, and the      *)
(* others are absent from it.                                              *)
(***************************************************************************)
EXTENDS Harbor, Integers, TLC

CONSTANTS Fd, QueueSize, HashSize, MaxOpen, MaxAsleep,     \* Netpack
          Id, Cap, MaxBox,                                  \* Gate
          Session, MaxFd, MaxReq, MaxRun, Expired, MaxClient, \* MsgServer
          Sizes, Limit, FirstChunk, Windows,                \* SocketBuffer
          Byte, MaxFF, MaxBuffer, Buffer, MaxSession, MaxWords, \* Sproto
          MaxCookie, BlockSize, MaxDepth, MaxArgs,              \* Seri
          Null

(* Two's complement needs an even number of values, and the two low bits   *)
(* of a sproto record need four; a cookie holds a length and one value more *)
ASSUME CodecAssumption == /\ Byte \in Nat /\ Byte % 2 = 0 /\ Byte >= 4
                          /\ MaxFF \in Nat \ {0, 1} /\ Buffer \in Nat \ {0} /\ MaxBuffer \in Nat
                          /\ MaxCookie \in Nat \ {0, 1} /\ BlockSize \in Nat \ {0} /\ MaxDepth \in Nat

-----------------------------------------------------------------------------
(***************************************************************************)
(* What is serialised: the types and the protocols of two hosts with       *)
(* different versions of sproto types, what they ask and answer, the words *)
(* that are packed, and the Lua values of messages.  Widths are those of   *)
(* bytes with 4 values.                                                    *)
(***************************************************************************)
Plain(tag, type) == [tag |-> tag, type |-> type, array |-> FALSE, st |-> ""]
Struct(tag, st) == [tag |-> tag, type |-> "struct", array |-> FALSE, st |-> st]
Array(f) == [f EXCEPT !.array = TRUE]

Types ==
    [package |-> <<Plain(0, "integer"), Plain(1, "integer"), Plain(2, "integer")>>,
     point |-> <<Plain(0, "integer"), Plain(2, "string")>>,
     old |-> <<Plain(0, "integer"), Plain(1, "string"), Array(Plain(3, "integer"))>>,
     new |-> <<Plain(0, "integer"), Plain(1, "string"), Struct(2, "point"), Array(Plain(3, "integer")),
               Array(Plain(5, "boolean")), Array(Struct(6, "point")), Array(Plain(7, "string"))>>,
     short |-> <<Plain(1, "boolean"), Plain(2, "integer")>>,
     long |-> <<Plain(1, "boolean"), Plain(2, "integer"), Plain(3, "string")>>]

Protos ==
    [old |-> <<[request |-> "old", response |-> "short"], [request |-> Null, response |-> Null]>>,
     new |-> <<[request |-> "new", response |-> "long"], [request |-> Null, response |-> Null]>>]

Request(from, tag, session, ud, args) ==
    [from |-> from, tag |-> tag, session |-> session, ud |-> ud, args |-> args]

(* Integers at the limits of a record and of 4 bytes, arrays of them that   *)
(* become wider, empty arrays, and an object that is too large              *)
Requests ==
    <<Request("old", 1, 1, 200, 0 :> 7 @@ 1 :> <<>>),
      Request("old", 1, 7, 0, 0 :> 128 @@ 1 :> <<3, 0>> @@ 3 :> <<-1, 128, 5, -129>>),
      Request("old", 1, 1, 0, 1 :> [i \in 1 .. 150 |-> 1]),
      Request("old", 2, 7, 0, <<>>),
      Request("old", 1, 1, 0, <<>>),
      Request("new", 1, 1, 0, 0 :> -1 @@ 3 :> <<>>),
      Request("new", 1, 0, 0, 0 :> 6 @@ 2 :> (0 :> 1) @@ 3 :> <<-1, 127>> @@ 5 :> <<TRUE, FALSE>>),
      Request("new", 1, 7, 0, 5 :> <<>> @@ 6 :> <<0 :> 6 @@ 2 :> <<3>>, <<>>>> @@ 7 :> <<<<>>, <<1>>>>)>>

Answers ==
    [old |-> <<[type |-> "short", args |-> 2 :> 127], [type |-> "short", args |-> 1 :> TRUE]>>,
     new |-> <<[type |-> "long", args |-> 1 :> FALSE @@ 3 :> <<1>>], [type |-> "long", args |-> 2 :> -129]>>]

(* Words with n bytes that are not zero, and rests of a word *)
WordShapes == {[i \in 1 .. 8 |-> IF i <= n THEN 1 ELSE 0] : n \in {0, 5, 6, 7, 8}}
RestShapes == {[i \in 1 .. n |-> 1] : n \in {1, 6, 7}}

(* Lua values: integers at the limits of each width, strings and arrays at *)
(* those of a cookie, holes, tables in tables up to one that is too deep   *)
Num(n) == <<"int", n>>
Str(n) == <<"string", [i \in 1 .. n |-> i]>>
Table(f) == <<"table", f>>

Values ==
    <<<<"nil", 0>>, <<"boolean", FALSE>>, <<"boolean", TRUE>>, <<"real", 1>>, <<"pointer", 2>>, <<"function", 0>>>>
    \o [i \in 1 .. 11 |-> Num(<<0, 3, 4, 15, 16, 127, 128, -1, -128, -129, 9000>>[i])]
    \o [i \in 1 .. 5 |-> Str(<<0, 3, 4, 15, 16>>[i])]
    \o <<Table(<<>>), Table(Num(1) :> Num(0) @@ Num(3) :> Num(5) @@ Str(1) :> Table(<<>>)),
         Table(Num(1) :> Num(1) @@ Num(2) :> Str(1) @@ Num(3) :> Num(3) @@ Num(4) :> Num(200)),
         Table(Num(0) :> Num(1) @@ <<"boolean", FALSE>> :> Num(-1)),
         Table(Num(1) :> Table(Num(1) :> Table(<<>>))),
         Table(Str(1) :> Table(Num(1) :> Table(Num(1) :> Num(1)))),
         <<"pairs", <<<<Num(1), Num(2)>>, <<Str(1), Table(<<>>)>>, <<Num(2), <<"nil", 0>>>>>>>>>>

-----------------------------------------------------------------------------
VARIABLES part,
          pos, buffer, busy, state, size, content, length, out,
          got, opened, table, ring, run, cur, rest, forks, asleep, done, sealed,
          box, sentTo, life, clients, listening, id, next, chain, count, conn, at, packets, unheard, failed,
          link, onWire, back, client, gate, number, handshake, attached, user, response, entry, runs, spoilt,
          came, sb, pool, object, sock, ready, co, last, gone,
          session, flight, open, room, unsent, result, bytes, args, far

harborVars == vars
streamVars == <<pos, buffer, busy, state, size, content, length, out>>
netpackVars == <<got, opened, table, ring, run, cur, rest, forks, asleep, done, sealed>>
gateVars == <<box, sentTo, life, clients, listening, id, next, chain, count, conn, at, packets, unheard, failed>>
serverVars == <<link, onWire, back, client, gate, number, handshake, attached, user, response, entry, runs, spoilt>>
bufferVars == <<came, sb, pool, object, sock, ready, co, last, gone>>
sprotoVars == <<session, flight, open, room, unsent, result>>
codecVars == <<bytes, args, far>>

(* Messages of one byte, of several, and of one again; packets of the      *)
(* clients of the gates, with an empty one first, last or between, and one *)
(* that is over the limit; and, with lengths of 4 bytes, a negative one    *)
S == INSTANCE HarborStream WITH Lens <- <<1, 3, 2, 1>>, status <- state
N == INSTANCE Netpack WITH Lens <- <<<<1, 0, 2>>, <<0, 1, 1>>>>, pos <- got, hash <- table, shut <- sealed
G == INSTANCE Gate WITH Lens <- <<<<0, 1>>, <<-2>>, <<>>>>, Buckets <- 1, Header <- 2, Watchdog <- FALSE,
                        pos <- sentTo, opened <- clients, hash <- chain, busy <- at, out <- packets
W == INSTANCE Gate WITH Id <- {1, 2}, Cap <- 1, Lens <- <<<<1, -3, 1>>, <<>>>>, Buckets <- 1, Header <- 4,
                        Watchdog <- TRUE, pos <- sentTo, opened <- clients, hash <- chain, busy <- at,
                        out <- packets
M == INSTANCE MsgServer WITH wire <- onWire, conn <- attached
(* Two lines, with the first half of a separator before each real one *)
B == INSTANCE SocketBuffer WITH Stream <- <<"x", "r", "r", "n", "r", "n">>, Sep <- <<"r", "n">>,
                                sent <- came, s <- object, run <- ready, pc <- co
H == INSTANCE Sproto WITH Host <- DOMAIN Protos, Cap <- 1, wire <- flight, failed <- unsent
L == INSTANCE Seri

(* The variables of a part that is absent *)
NoStream ==
    /\ pos = 0 /\ buffer = 0 /\ busy = 0 /\ state = 0 /\ size = 0 /\ content = 0 /\ length = 0 /\ out = 0
NoNetpack ==
    /\ got = 0 /\ opened = 0 /\ table = 0 /\ ring = 0 /\ run = 0 /\ cur = 0 /\ rest = 0
    /\ forks = 0 /\ asleep = 0 /\ done = 0 /\ sealed = 0
NoGate ==
    /\ box = 0 /\ sentTo = 0 /\ life = 0 /\ clients = 0 /\ listening = 0 /\ id = 0 /\ next = 0
    /\ chain = 0 /\ count = 0 /\ conn = 0 /\ at = 0 /\ packets = 0 /\ unheard = 0 /\ failed = 0
NoServer ==
    /\ link = 0 /\ onWire = 0 /\ back = 0 /\ client = 0 /\ gate = 0 /\ number = 0 /\ handshake = 0
    /\ attached = 0 /\ user = 0 /\ response = 0 /\ entry = 0 /\ runs = 0 /\ spoilt = 0
NoBuffer ==
    /\ came = 0 /\ sb = 0 /\ pool = 0 /\ object = 0 /\ sock = 0 /\ ready = 0 /\ co = 0 /\ last = 0
    /\ gone = 0
NoSproto == session = 0 /\ flight = 0 /\ open = 0 /\ room = 0 /\ unsent = 0 /\ result = 0
NoCodec == bytes = <<>> /\ args = 0 /\ far = 0

HarborInit ==
    /\ Init
    /\ \/ part = "out" /\ NoStream /\ NoNetpack /\ NoGate /\ NoServer /\ NoBuffer /\ NoSproto /\ NoCodec
       \/ part = "in" /\ S!Init /\ NoNetpack /\ NoGate /\ NoServer /\ NoBuffer /\ NoSproto /\ NoCodec
       \/ part = "netpack" /\ N!Init /\ NoStream /\ NoGate /\ NoServer /\ NoBuffer /\ NoSproto /\ NoCodec
       \/ /\ (part = "gate" /\ G!Init) \/ (part = "wide" /\ W!Init)
          /\ NoStream /\ NoNetpack /\ NoServer /\ NoBuffer /\ NoSproto /\ NoCodec
       \/ part = "msgserver" /\ M!Init /\ NoStream /\ NoNetpack /\ NoGate /\ NoBuffer /\ NoSproto /\ NoCodec
       \/ part = "buffer" /\ B!Init /\ NoStream /\ NoNetpack /\ NoGate /\ NoServer /\ NoSproto /\ NoCodec
       \/ part = "sproto" /\ H!HostInit /\ NoStream /\ NoNetpack /\ NoGate /\ NoServer /\ NoBuffer /\ NoCodec
       \/ /\ NoStream /\ NoNetpack /\ NoGate /\ NoServer /\ NoBuffer /\ NoSproto
          /\ \/ part = "pack" /\ NoCodec
             \/ part = "values" /\ L!SeriInit /\ bytes = <<>>

(* More bytes to pack, in whole words up to the last *)
MoreBytes == /\ Len(bytes) % 8 = 0 /\ Len(bytes) < 8 * MaxWords
             /\ \E w \in WordShapes \cup RestShapes : bytes' = bytes \o w

HarborNext ==
    /\ \/ part = "out" /\ Next
       \/ part # "out" /\ UNCHANGED harborVars
    /\ \/ part = "in" /\ S!Next
       \/ part # "in" /\ UNCHANGED streamVars
    /\ \/ part = "netpack" /\ N!Next
       \/ part # "netpack" /\ UNCHANGED netpackVars
    /\ \/ part = "gate" /\ G!Next
       \/ part = "wide" /\ W!Next
       \/ part \notin {"gate", "wide"} /\ UNCHANGED gateVars
    /\ \/ part = "msgserver" /\ M!Next
       \/ part # "msgserver" /\ UNCHANGED serverVars
    /\ \/ part = "buffer" /\ B!Next
       \/ part # "buffer" /\ UNCHANGED bufferVars
    /\ \/ part = "sproto" /\ H!HostNext
       \/ part # "sproto" /\ UNCHANGED sprotoVars
    /\ \/ part = "pack" /\ MoreBytes /\ UNCHANGED <<args, far>>
       \/ part = "values" /\ L!SeriNext /\ UNCHANGED bytes
       \/ part \notin {"pack", "values"} /\ UNCHANGED codecVars
    /\ UNCHANGED part

harborAll == <<part, harborVars, streamVars, netpackVars, gateVars, serverVars, bufferVars, sprotoVars, codecVars>>

HarborSpec == HarborInit /\ [][HarborNext]_harborAll

(***************************************************************************)
(* Wherever the socket cuts the bytes of a peer or of a client, each of    *)
(* the receivers gets exactly the complete packets, in order: the harbor   *)
(* (Reassembled of HarborStream), the gate in Lua although handlers yield  *)
(* and fail (NetpackInv of Netpack), the gate in C, which also finds each  *)
(* of its clients (GateInv of Gate), and a service that reads sizes, lines *)
(* or all there is, while another coroutine closes (BufferInv).            *)
(***************************************************************************)
FramesKept == /\ part = "in" => S!Reassembled
              /\ part = "netpack" => N!NetpackInv
              /\ part = "gate" => G!GateInv
              /\ part = "wide" => W!GateInv
              /\ part = "buffer" => B!BufferInv

(***************************************************************************)
(* A client that comes back gets the answers that it missed, and its       *)
(* requests are executed once (MsgServerInv of MsgServer).                 *)
(***************************************************************************)
MsgServerInv == part = "msgserver" => M!MsgServerInv

(***************************************************************************)
(* What is sent is what is received: the packets of two hosts that speak   *)
(* versions of sproto, each in its session (PacketsKept, SessionsExact of  *)
(* Sproto), the bytes that are packed, in the space there is (Fits),       *)
(* and the values of a message between services (SeriKept of Seri).        *)
(***************************************************************************)
ValuesKept == /\ part = "sproto" => H!PacketsKept /\ H!SessionsExact
              /\ part = "pack" => H!Fits(bytes)
              /\ part = "values" => L!SeriKept

(* A service that reads a connection, alone *)
BufferSpec == HarborInit /\ part = "buffer" /\ [][HarborNext]_harborAll

(***************************************************************************)
(* The nodes of buffer_pool lie in its chunks (lua-socket.c:94); refuted   *)
(* on Windows, where readline and readall put one there that does not.     *)
(***************************************************************************)
PoolKept == part = "buffer" => B!NodesKept
=============================================================================
