------------------------------- MODULE SharedData -------------------------------
(***************************************************************************)
(* Tables that a service shares with the others of its node                *)
(* (sharedatad.lua, sharedata.lua): the object of a name is built once,    *)
(* its readers point into it, and references are counted by hand until it  *)
(* can be freed.  One name; each client has one value of it.               *)
(*                                                                         *)
(* The handlers of sharedatad do not yield (the code that CMD.new loads is *)
(* taken not to call other services), and answers carry the pointer to an  *)
(* object, whose reference the client confirms when it has its own.        *)
(***************************************************************************)
EXTENDS Naturals, Sequences, FiniteSets

CONSTANTS Client,
          MaxObj,       \* bound: objects ever built
          MaxQuery,     \* bound: queries of all clients
          MaxDeaths     \* bound: clients that exit

ASSUME SharedAssumption ==
    IsFiniteSet(Client) /\ MaxObj \in Nat /\ MaxQuery \in Nat /\ MaxDeaths \in Nat

Object == 1 .. MaxObj
NoObj == 0
Failed == MaxObj + 1    \* the answer is an error

VARIABLES pool,         \* pool[name].obj
          objmap,       \* "nil", "value", or "true" when it was taken out of the pool
          getref,       \* the references of each object
          dirty, gone,
          watch,        \* pool[name].watch
          asked,        \* the mailbox of sharedatad
          inbox,        \* answers on their way to each client
          obj, update,  \* each client's value: its object, and the one core.update has left for it
          boxes,        \* userdata of each client for each object, until they are collected
          cached,       \* cache[name] is the value
          app, monitor, \* the coroutine that queries; the monitor: "none", "call", or "error"
          lost,         \* history: references in an answer that nobody confirms
          orphans,      \* history: watchers of an update that failed
          queries, deaths, deleted

server == <<pool, objmap, dirty, gone, watch>>
value == <<obj, update, cached>>
history == <<lost, orphans, deleted>>
bounds == <<queries, deaths>>
sharedVars == <<server, getref, asked, inbox, value, boxes, app, monitor, history, bounds>>

SharedInit == /\ pool = NoObj /\ objmap = [o \in Object |-> "nil"] /\ getref = [o \in Object |-> 0]
              /\ dirty = {} /\ gone = {} /\ watch = {}
              /\ asked = <<>> /\ inbox = [c \in Client |-> <<>>]
              /\ obj = [c \in Client |-> NoObj] /\ update = [c \in Client |-> NoObj]
              /\ boxes = [c \in Client |-> [o \in Object |-> 0]]
              /\ cached = [c \in Client |-> FALSE]
              /\ app = [c \in Client |-> "idle"] /\ monitor = [c \in Client |-> "none"]
              /\ lost = [o \in Object |-> 0] /\ orphans = {}
              /\ queries = 0 /\ deaths = 0 /\ deleted = FALSE

Alive(c) == app[c] # "dead"
Ask(op, c, o) == [op |-> op, from |-> c, obj |-> o]
Answer(co, o) == [to |-> co, obj |-> o]

-----------------------------------------------------------------------------
(* sharedatad.lua *)

(* The coroutines co of the clients cs are answered o, an object or not.   *)
Respond(cs, co, o) ==
    /\ inbox' = [c \in Client |-> IF c \in cs /\ Alive(c) THEN Append(inbox[c], Answer(co, o)) ELSE inbox[c]]
    /\ lost' = IF o \in Object THEN [lost EXCEPT ![o] = @ + Cardinality({c \in cs : ~Alive(c)})] ELSE lost

(* newobj *)
Unused == {o \in Object : objmap[o] = "nil" /\ o \notin gone}
Built(o) == o \in Unused /\ \A p \in Unused : o <= p

New == /\ pool = NoObj
       /\ \E o \in Object : /\ Built(o) /\ pool' = o
                            /\ objmap' = [objmap EXCEPT ![o] = "value"]
                            /\ getref' = [getref EXCEPT ![o] = 1]
       /\ watch' = {}
       /\ UNCHANGED <<dirty, gone, asked, inbox, value, boxes, app, monitor, history, bounds>>

DeleteObject ==
    /\ pool # NoObj /\ pool' = NoObj /\ watch' = {} /\ deleted' = TRUE
    /\ objmap' = [objmap EXCEPT ![pool] = "true"] /\ getref' = [getref EXCEPT ![pool] = @ - 1]
    /\ Respond(watch, "monitor", NoObj)
    /\ UNCHANGED <<dirty, gone, asked, value, boxes, app, monitor, orphans, bounds>>

UpdateObject ==
    /\ pool # NoObj /\ watch' = {}
    /\ \E o \in Object :
          /\ Built(o) /\ pool' = o /\ dirty' = dirty \cup {pool}
          /\ objmap' = [objmap EXCEPT ![pool] = "true", ![o] = "value"]
          /\ getref' = [getref EXCEPT ![pool] = @ - 1, ![o] = 1 + Cardinality(watch)]
          /\ Respond(watch, "monitor", o)
    /\ UNCHANGED <<gone, asked, value, boxes, app, monitor, orphans, deleted, bounds>>

(* CMD.new raises an error, when the old object is out of the pool already. *)
UpdateFails ==
    /\ pool # NoObj /\ pool' = NoObj /\ watch' = {} /\ orphans' = orphans \cup watch /\ deleted' = TRUE
    /\ objmap' = [objmap EXCEPT ![pool] = "true"] /\ getref' = [getref EXCEPT ![pool] = @ - 1]
    /\ UNCHANGED <<dirty, gone, asked, inbox, value, boxes, app, monitor, lost, bounds>>

Take == asked # <<>> /\ asked' = Tail(asked)

ServeQuery ==
    /\ Take /\ LET m == Head(asked) IN
       /\ m.op = "query"
       /\ Respond({m.from}, "app", IF pool = NoObj THEN Failed ELSE pool)
       /\ getref' = IF pool = NoObj THEN getref ELSE [getref EXCEPT ![pool] = @ + 1]
    /\ UNCHANGED <<server, value, boxes, app, monitor, orphans, deleted, bounds>>

ServeConfirm ==
    /\ Take /\ LET m == Head(asked) IN
       /\ m.op = "confirm"
       /\ getref' = IF objmap[m.obj] = "nil" THEN getref ELSE [getref EXCEPT ![m.obj] = @ - 1]
    /\ UNCHANGED <<server, inbox, value, boxes, app, monitor, history, bounds>>

(* check_watch throws out watchers that are gone, when there are many.     *)
ServeMonitor ==
    /\ Take /\ LET m == Head(asked) IN
       /\ m.op = "monitor"
       /\ IF m.obj = pool
          THEN /\ \/ watch' = watch \cup {m.from}
                  \/ watch' = {c \in watch : Alive(c)} \cup {m.from}
               /\ UNCHANGED <<inbox, lost, getref>>
          ELSE /\ Respond({m.from}, "monitor", IF pool = NoObj THEN Failed ELSE pool)
               /\ getref' = IF pool = NoObj THEN getref ELSE [getref EXCEPT ![pool] = @ + 1]
               /\ UNCHANGED watch
    /\ UNCHANGED <<pool, objmap, dirty, gone, value, boxes, app, monitor, orphans, deleted, bounds>>

(* Mutant: the object is freed when it is out of the pool. *)
CollectAtOnce(o) ==
    /\ objmap[o] = "true"
    /\ objmap' = [objmap EXCEPT ![o] = "nil"] /\ gone' = gone \cup {o}
    /\ UNCHANGED <<pool, getref, dirty, watch, asked, inbox, value, boxes, app, monitor, history, bounds>>

(* collectobj, whenever its turn comes *)
Collect(o) ==
    /\ objmap[o] = "true" /\ getref[o] = 0
    /\ objmap' = [objmap EXCEPT ![o] = "nil"] /\ gone' = gone \cup {o}
    /\ UNCHANGED <<pool, getref, dirty, watch, asked, inbox, value, boxes, app, monitor, history, bounds>>

-----------------------------------------------------------------------------
(* sharedata.lua *)

Query(c) ==
    /\ app[c] = "idle" /\ ~cached[c] /\ queries < MaxQuery /\ queries' = queries + 1
    /\ app' = [app EXCEPT ![c] = "query"] /\ asked' = Append(asked, Ask("query", c, NoObj))
    /\ UNCHANGED <<server, getref, inbox, value, boxes, monitor, history, deaths>>

(* sd.box; the reference in the answer is confirmed, and the monitor asks. *)
Boxed(c, o) ==
    /\ boxes' = [boxes EXCEPT ![c][o] = @ + 1] /\ getref' = [getref EXCEPT ![o] = @ + 1]
    /\ asked' = asked \o <<Ask("confirm", c, o), Ask("monitor", c, o)>>
    /\ monitor' = [monitor EXCEPT ![c] = "call"]

Receive(c, co, o) ==
    /\ inbox[c] # <<>> /\ Head(inbox[c]) = Answer(co, o)
    /\ inbox' = [inbox EXCEPT ![c] = Tail(@)]
    /\ UNCHANGED <<server, orphans, deleted, bounds>>

QueryReturns(c) ==
    \E o \in Object \cup {Failed} :
        /\ Receive(c, "app", o) /\ app' = [app EXCEPT ![c] = "idle"] /\ UNCHANGED lost
        /\ IF o = Failed THEN UNCHANGED <<value, boxes, getref, asked, monitor>>
           ELSE /\ Boxed(c, o)
                /\ obj' = [obj EXCEPT ![c] = o] /\ update' = [update EXCEPT ![c] = NoObj]
                /\ cached' = [cached EXCEPT ![c] = TRUE]

(* The call of the monitor returns an object, which sd.update accepts when *)
(* the one that is held is dirty; or nil.                                  *)
Told(c) ==
    \E o \in Object :
        /\ Receive(c, "monitor", o) /\ obj[c] \in dirty
        /\ Boxed(c, o) /\ update' = [update EXCEPT ![c] = o]
        /\ UNCHANGED <<obj, cached, app, lost>>
TheEnd(c) ==
    /\ Receive(c, "monitor", NoObj)
    /\ monitor' = [monitor EXCEPT ![c] = "none"] /\ cached' = [cached EXCEPT ![c] = FALSE]
    /\ UNCHANGED <<obj, update, getref, boxes, asked, app, lost>>

(* ... or fails, or the assertion of sd.update does: the monitor is gone.  *)
MonitorFails(c) ==
    \E o \in Object \cup {Failed} :
        /\ Receive(c, "monitor", o) /\ (o = Failed \/ obj[c] \notin dirty)
        /\ monitor' = [monitor EXCEPT ![c] = "error"]
        /\ lost' = IF o = Failed THEN lost ELSE [lost EXCEPT ![o] = @ + 1]
        /\ UNCHANGED <<value, getref, boxes, asked, app>>

(* getcobj, at the next access to the value *)
Access(c) ==
    /\ obj[c] \in dirty /\ update[c] # NoObj
    /\ obj' = [obj EXCEPT ![c] = update[c]] /\ update' = [update EXCEPT ![c] = NoObj]
    /\ UNCHANGED <<server, getref, asked, inbox, cached, boxes, app, monitor, history, bounds>>

(* The application lets go of the value, which the weak cache then loses.  *)
LetGo(c) ==
    /\ monitor[c] # "call" /\ obj[c] # NoObj
    /\ obj' = [obj EXCEPT ![c] = NoObj] /\ update' = [update EXCEPT ![c] = NoObj]
    /\ cached' = [cached EXCEPT ![c] = FALSE]
    /\ UNCHANGED <<server, getref, asked, inbox, boxes, app, monitor, history, bounds>>

(* The collector of c takes a box that nothing points to: releaseobj.      *)
Reached(c, o) == Cardinality({v \in {"obj", "update"} : (v = "obj" /\ obj[c] = o) \/ (v = "update" /\ update[c] = o)})
ReleaseObj(c, o) ==
    /\ boxes[c][o] > Reached(c, o)
    /\ boxes' = [boxes EXCEPT ![c][o] = @ - 1] /\ getref' = [getref EXCEPT ![o] = @ - 1]
    /\ UNCHANGED <<server, asked, inbox, value, app, monitor, history, bounds>>

(* The service ends; its Lua state is closed and all its boxes with it.    *)
Carried(c, o) == Cardinality({i \in DOMAIN inbox[c] : inbox[c][i].obj = o})
Exit(c) ==
    /\ Alive(c) /\ deaths < MaxDeaths /\ deaths' = deaths + 1
    /\ app' = [app EXCEPT ![c] = "dead"] /\ inbox' = [inbox EXCEPT ![c] = <<>>]
    /\ lost' = [o \in Object |-> lost[o] + Carried(c, o)]
    /\ getref' = [o \in Object |-> getref[o] - boxes[c][o]]
    /\ boxes' = [boxes EXCEPT ![c] = [o \in Object |-> 0]]
    /\ obj' = [obj EXCEPT ![c] = NoObj] /\ update' = [update EXCEPT ![c] = NoObj]
    /\ cached' = [cached EXCEPT ![c] = FALSE] /\ monitor' = [monitor EXCEPT ![c] = "none"]
    /\ UNCHANGED <<server, asked, orphans, deleted, queries>>

SharedNext == \/ New \/ DeleteObject \/ UpdateObject \/ UpdateFails \/ ServeQuery \/ ServeConfirm \/ ServeMonitor
              \/ \E o \in Object : Collect(o)
              \/ \E c \in Client : \/ Query(c) \/ QueryReturns(c) \/ Told(c) \/ TheEnd(c) \/ MonitorFails(c)
                                   \/ Access(c) \/ LetGo(c) \/ Exit(c)
                                   \/ \E o \in Object : ReleaseObj(c, o)

SharedSpec == SharedInit /\ [][SharedNext]_sharedVars

-----------------------------------------------------------------------------
(* The references to object o: of the pool, of boxes, of answers, and of   *)
(* confirmations that sharedatad has not yet handled.                      *)
References(o) ==
    (IF pool = o THEN 1 ELSE 0)
    + Cardinality(UNION {{c} \X (1 .. boxes[c][o] + Carried(c, o)) : c \in Client})
    + Cardinality({i \in DOMAIN asked : asked[i].op = "confirm" /\ asked[i].obj = o})

(* An object is counted exactly, but for references that are lost with a   *)
(* client that exits or with a monitor that fails after a deletion; and    *)
(* none that is pointed to is freed.                                       *)
CountedExactly ==
    \A o \in Object :
        /\ getref[o] = References(o) + lost[o]
        /\ o \in gone => References(o) = 0
        /\ lost[o] > 0 => deaths > 0 \/ deleted

(* A client's monitor is watched for, or a message of its is under way;    *)
(* whoever watches has the latest object.  Only an update that fails       *)
(* forgets its watchers.                                                   *)
UnderWay(c) == \/ \E i \in DOMAIN inbox[c] : inbox[c][i].to = "monitor"
               \/ \E i \in DOMAIN asked : asked[i].op = "monitor" /\ asked[i].from = c
WatchedFor ==
    \A c \in Client : Alive(c) =>
        /\ monitor[c] = "call" => c \in watch \cup orphans \/ UnderWay(c)
        /\ c \in watch => pool = (IF update[c] = NoObj THEN obj[c] ELSE update[c])
        /\ monitor[c] = "error" => deleted

SharedDataInv == CountedExactly /\ WatchedFor
=============================================================================
