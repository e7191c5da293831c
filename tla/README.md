# A verification project for skynet

skynet (`src/`, here in its Windows port) is an actor framework: a node is one
process with many *services*; each service has a mailbox and a callback, and a
fixed set of worker threads runs the callbacks. Most services are written in
Lua and are themselves a scheduler of coroutines. Nodes talk to each other
through *harbor* services or *cluster* connections, and everything that touches
a socket goes through one *socket thread*.

This directory holds TLA+ modules of that program, the TLC configurations that
check them on small instances, and proofs that TLAPS checks for every value of
the constants. `PROJECT.json` maps every definition to the source lines it
stands for.

Contents: [inventory](#inventory) - [modules and code](#modules-and-code) -
[runs and bounds](#runs-and-bounds) - [fairness](#fairness) -
[proofs](#proofs) - [divergences found](#divergences-found) -
[not modelled](#not-modelled) - [plan](#plan)

## Inventory

| part | state it keeps | operations | what is hard |
|---|---|---|---|
| reader-writer lock (`rwlock.h`) | words `write`, `read` | rlock, wlock, unlock | back-off of a reader that meets a writer; starvation of the writer |
| epoll for Windows (`wepoll.c`) | a port: sockets in a tree, update and deleted queues, poll groups; AFD requests in the kernel | epoll_ctl, epoll_wait, epoll_close | memory that the kernel still writes to; interest added while somebody waits; starvation of one socket by another |
| mailbox (`skynet_mq.c`) | ring, `head`, `tail`, `cap`, `in_global`, `release`, overload | push, pop, length, overload, mark_release, release | doubling at the full ring; leaving and entering the global queue; who frees it |
| global queue (`skynet_mq.c`) | linked list of mailboxes | push, pop | a mailbox at most once in it, and by one worker at a time out of it |
| contexts (`skynet_server.c`) | `ref`, `handle`, `queue`, `init`, `cb`, total count | launch, reserve, send, dispatch a round, exit, kill, abort | references held by slots, senders, workers and launches; messages before `init` is over |
| handle storage (`skynet_handle.c`) | slots, `handle_index`, sorted names | register, grab, retire, retireall, findname, namehandle | growth under registration; wrap of 24-bit handles; names of dead handles |
| timer (`skynet_timer.c`) | near ring, four levels, 32-bit `time` | timeout, updatetime | cascade, wrap, delivery without the lock |
| threads (`skynet_start.c`) | `sleep`, `quit`, a condition variable | worker, timer, socket, monitor loops, signals | lost wakeups; stop of the node |
| socket server (`socket_server.c`) | slots with type, id, lists, `sending`, direct-write buffer; control pipe; events | open, listen, accept, bind, start, send, close, shutdown | direct writes by workers against the socket thread; reuse of slots; partial writes; halfclose |
| socket messages (`skynet_socket.c`) | - | events to messages | a socket whose owner is dead |
| harbor service (`service_harbor.c`) | a record per peer, a queue per unknown name | send to handle or name, N, S, A, socket events | messages that wait for a name and then for a connection; handshake; peer down |
| slave, master (`cslave.lua`, `cmaster.lua`) | names, addresses, connections | register, query, link, connect | registration from several nodes; slaves that come and go |
| gate in C (`service_gate.c`) | table of clients, a buffer for each | accept, data, kick, forward, close | packets cut anywhere; places and ids that are given again |
| gate in Lua (`gateserver.lua`, `lua-netpack.c`) | uncomplete packets, ring of complete ones | open, data, close | packets cut anywhere; a handler that yields |
| message server (`msgserver.lua`) | users, connections, responses by session | login, connect, request, logout | requests resent after a reconnection |
| Lua runtime (`skynet.lua`) | tables of sessions, coroutines, tokens, watched services; fork, wakeup and error queues | dispatch, call, sleep, wait, wakeup, fork, ret, response, term, exit | nested resumption; errors that unwind; answers that race with failures; exit |
| critical section (`queue.lua`) | owner, depth, waiters | cs(f) | hand-over; errors inside |
| service manager, launcher (`service_mgr.lua`, `launcher.lua`) | services by name with their waiters; launches to be confirmed | uniqueservice, queryservice, launch | one launch for many callers, here or on another node; launches that fail |
| socket library (`socket.lua`, `lua-socket.c`) | a buffer of blocks in nodes of a pool; who reads, who closes | read, readline, readall, close, shutdown, abandon | blocks cut anywhere; a close in the middle of a reading |
| socket channel (`socketchannel.lua`) | connection, requests and waiters, dispatch coroutine | request, close, changehost | connections that fail with requests under way |
| multicast (`multicastd.lua`, `lua-multicast.c`) | groups, nodes, packages with counts | subscribe, publish, unsubscribe, delete | counts across nodes; a group that empties and fills again; handlers that yield |
| transactional memory (`lua-stm.c`) | object, copies, counts | update, read, copy | the last one frees |
| shared tables (`sharedatad.lua`, `sharedata.lua`) | objects with counts, watchers | new, update, delete, query, monitor, confirm | who holds a reference at each moment; updates in the middle of a query |
| cluster (`clusterd.lua`, `clusteragent.lua`, `cluster.lua`) | senders, addresses, queues of first requests; agents, caches of names, parts of large messages | call, send, reload, register, query | order of the first requests; an address or a name that changes; parts that others overtake |
| data center (`datacenterd.lua`) | a tree of values, queues of waiters by path | query, update, wait | updates above and below a path where somebody waits |
| serialisation (`lua-seri.c`) | - | pack, unpack | blocks; widths and lengths at their limits; nil; depth |
| sproto (`sproto.c`, `lsproto.c`, `sproto.lua`) | buffers that grow; sessions of a host | encode, decode, pack, unpack; attach, dispatch, response | versions of a type; integers that become wider; sessions whose request failed |
| other Lua services and libraries | snax, DNS, HTTP, databases, consoles | - | protocols of others |

How they interact. A *send* finds the receiver in the handle storage, takes a
reference, pushes into its mailbox, and gives the reference back; the push may
put the mailbox into the global queue. A *worker* takes a mailbox out, takes a
reference to its context, runs the callback for one or several messages, and
puts the mailbox back. *Retire* takes the slot's reference away; whoever gives
up the last one deletes the context and marks its mailbox, which the worker
that gets it next empties with an error for each sender and frees. The *timer
thread* turns timers into messages and wakes workers; the *socket thread* waits
on an epoll port, turns events into messages and executes the commands that
workers write into a pipe, while workers also write to descriptors themselves.
The *harbor service* gets what is addressed to other nodes, and learns from the
slave service where they are. In a Lua service, one message resumes one
coroutine, and then everything that this one woke; gates, channels, managers
and the ends of a cluster connection are such services, and what is hard in
them is what happens to their tables while a coroutine of theirs is suspended.

What makes each part correct is stated as the properties of its module, next
section. `PROJECT.json` lists the hazards line by line.

## Modules and code

Conventions. A module models one part and says in its header what it leaves
out; the `MC` modules put parts together for TLC. Parts that share no state are
checked in one run: the `MC` module chooses one of them in its initial
predicate, and the variables of the others stay as they are. An operator with
the comment "Mutant:" stands before the definition it replaces, and is used by
nothing: with it in place the run finds its property violated, which shows that
the property can fail. Properties that were refuted and are not checked by a run
are kept in their module with the reason, and listed under
[divergences](#divergences-found).

### The node

**RWLock, PlatformProofs** (`rwlock.h`). One action for each atomic access; `pc`
is the place in the function. The barrier in the spin loops makes memory
sequentially consistent. `MutualExclusion` is what the handle storage needs,
`LockInv` its inductive form, `WriterEnters` says that readers cannot starve a
writer that owns the word.

**FifoQueue, MessageQueue, NodeProofs** (`skynet_mq.c`). `FifoQueue`
promises a mailbox: a sequence, pushed at one end and popped at the other,
scheduled while it is not known to be empty. `MessageQueue` is the ring of the
code with indices, doubling and the overload threshold; each operation runs
under the spin lock of the queue and is one action, except that
`skynet_mq_overload` has no lock. `ImplementsFifo` is the refinement; `RingInv`
says that every index lies in the array; `OverloadCovered` that a warning raises
the threshold above what it reported. `IdleQueue`, that a mailbox outside the
scheduler is empty, is proved only.

**Dispatch, DispatchProofs** (`skynet_server.c`, `skynet_mq.c`, `skynet_handle.c`). The life of
contexts and mailboxes under several workers. A thread is a record with a
program counter and a small stack of returns, because `skynet_context_release`
is called from everywhere and may delete. Each action reaches up to the next
point where another thread can see or change something. The content of a
message is its sender. `MailboxOwned` is the types, one owner for each mailbox
(`OneOwner`), and that what waits is scheduled (`Scheduled`); `RefExact` the
reference counts; `AssertsHold` the assertions of dispatch and when a node aborts;
`NothingForgotten` that mailboxes are emptied and retired contexts freed.
`Reserve` is `skynet_context_reserve`, with which `skynet_harbor_start` keeps a
counted reference of the harbor service and takes it out of the total: so the
total is 0 exactly when all contexts are freed but the reserved ones, which may
still be registered and run then. What a service sends to another node
(`UserSendRemote`) goes to the one in `remote`. A harbor service that is retired
is not freed before `skynet_harbor_exit`, which comes after all threads, and
`NothingForgotten` excepts it. `NoUseAfterFree` excepts two accesses of a launch after it gave
up its reference (`skynet_server.c:167` and the return value used in
`cmd_launch`); they are safe only while nobody retires the new service, which
the code does not enforce.

**HandleStorage, NodeProofs** (`skynet_handle.c`). The scan for a free slot is
`Probe`/`Hits`, growth is `Rehash`/`GrowFails`. The gap between
`skynet_handle_register` and the assignment `ctx->handle = ...` is a step of its
own (`SetHandle`); a context whose handle is not yet assigned counts as handle
0. Retire-all reads and retires slot by slot and repeats while it finds
something. `crash` says how a doubling ended the process: by the assertion on a
collision, or by reading a slot that is NULL; nothing happens after that.
`StorageInv` is the types, `Reachable`, `UniqueHandles` and `NamesFound`. Several
launchers register at once; `StorageSound` says that `StorageInv` holds until a
doubling has met a context whose launcher has still to store its handle
(`raced`), the one thing that spoils the table. `RetireAllComplete` is about what
was alive when retire-all last retired something or last began a pass, so the
loop may not stop after a pass that found a service without a handle.

**TimerSpec, Timer, NodeProofs** (`skynet_timer.c`). `TimerSpec` promises that a timer set
with delay d is delivered at tick now + d, once, and in the order of setting.
`Timer` has the rings with their sizes as the constants `Near` and `Level` (2^8 and
2^6 in the code), and the clock wraps at their product, `Width`;
`SlotOf` is `add_node`, `Shift` is `timer_shift`, with the wrap as its own case
as in the code, and delivery happens one message at a time without the lock.
`ImplementsTimeouts` is the refinement, `WheelInv` says that a node lies where
the cascade will look. `MCDelivery` runs it with the mailbox; both properties are proved
in `NodeProofs` as well.

**Scheduler, NodeProofs** (`skynet_start.c`). Worker, timer, socket, monitor and main
threads, the mutex, the condition variable with spurious wakeups, SIGINT and
SIGHUP. What a dispatch does is abstracted to the number of scheduled mailboxes
(`work`) and of services (`total`). `SleepInv` is the types, `SleepExact` and
`QuitWakesAll`; `NobodyStuck` that work is taken and that the node stops.

**Wepoll, Tree, PlatformProofs** (`wepoll.c`). `Wepoll` is an epoll port: a sock_state per
registered socket with at most one AFD request, the completion port, the poll
groups, the update and the deleted queue, the thread-safe tree of ports with
reference counts. Its contract for several threads is modelled although the
socket thread is the only one in skynet that waits and registers; nobody adds a
socket to a port that is being closed. `PollInv` is the exact ownership of
requests and groups, that an interest is polled while somebody waits, and that
`epoll_close` outlives the calls under way. Until the port is deleted an object
is freed only when its request has come back; `port_delete` (`ForceDelete`) asks
for the end of what is left and frees at once, so that a request may complete
after its object is gone: all that holds then is that each was asked to end.
Further, `EventsReported` says that what stays
ready is reported, also with more ready sockets than `maxevents`. `Tree` is the
red-black tree, addition and deletion with their rotations; `TreeInv` is what
makes it one. `MCPlatform` runs both with the lock.

**SocketServer, SocketProofs, StreamProofs** (`socket_server.c`). Workers and the socket
thread. A worker sends in the steps of the code: look at the slot, take the lock,
look again, write, or count the message in `sending` and put it into the pipe. The socket
thread takes commands, then events; `force_close` and `close_socket` are split
at the lock. A message is `Size` units, and the network takes any part of it;
what was written to each id is kept in `wire`. When an assertion of the code
fails its name goes into `failed` and the process stops. `strayed` records that
a request for the last id of a slot was handled while `reserve_id` was giving
the slot to the next one; `Sound` is that neither has happened, and the
properties are stated under it: `StreamKept` (what a peer receives is whole
messages in the order of each sender), `BuffersCounted` (`FreedOnce`, every
buffer has one place until it is freed, and `SendingExact`, the count that holds
a slot back is exact) and `WriteEventArmed`. `MCSocket` instantiates the module
twice: senders around one slot (`StreamKept`, `BuffersCounted`,
`WriteEventArmed`), and a listening socket with an accepted client in two slots
(`BuffersCounted` through PLISTEN, LISTEN and PACCEPT).

**Stm, ServiceProofs** (`lua-stm.c`). A writer and readers on threads of their own, around an
object with copies, all counted by hand; the lock is the promise of `RWLock`.
`StmInv` says that counts are exact and that each is freed by its last owner,
except for the access that `NobodyInside` is about.

### The Lua runtime

**LuaService, LuaServiceProofs** (`lualib/skynet.lua`). One Lua service with its tables.
`dispatch_message` runs to its end before the next message, so the interleavings
are those of coroutines: `depth` counts the nested `suspend()` calls, `Fail`,
`Respond`, `ServiceDown` and `Receive` are the messages, and the operations of
user code are `Call`, `Sleep`, `Fork`, `Timeout`, `Wakeup`, `Ret`, `Response`,
`Term`, `Exit`, ending normally (`End`) or with an error (`Die`).
`SessionsKept` is `TablesAgree` and `NoneForgotten`; `NothingOwed` is
`AnsweredOnce` and `QueuesDrained`; `ExitReports` and `CallReturns` stand alone.

**CriticalSection, ServiceProofs** (`skynet/queue.lua`). A coroutine
enters, enters again, waits, is handed the section by the one that leaves, and
leaves by return or by error. `SectionInv` is mutual exclusion with the exact
depth, and that who waits is in the queue or was just handed the section.

**SocketBuffer** (`lua-socket.c`, `socket.lua`). The buffer of a connection as a
list of blocks in nodes of a pool, and the socket object with a coroutine that
reads (by size, by line, what there is, or all) and one that closes. A byte is
its position in the stream. `BufferInv` says that every byte leaves once and in
order, that a reading gives what was asked for, that nodes are in the buffer or
free and nowhere else, and that who waits has a reason. With `Windows` TRUE it
is the build of this repository, which the run `stdin` is about; with FALSE the
code without the console input, which is what the rest of it promises.

**Channel** (`socketchannel.lua`, with open, read and close of `socket.lua`). A
channel in either mode, by order or by session: coroutines that connect, send
and wait, the dispatch thread, losses and wrong answers, close and changehost.
`ChannelInv` says that an answer goes to its own request, that one coroutine at
a time connects, and that who waits for an answer is on a list of a living
dispatch thread, until a close has left requests behind (`left`).

### Services in Lua and C

**Harbor, HarborProofs, HarborStream** (`service_harbor.c`). `Harbor` is the sending side: an
action for each message of its mailbox. A message carries who it is for and the
destination field that the header would have, so that a header without a handle
is visible. `MessagesKept` says that each message is in one place and waits with
a reason, `WireInv` that the handshake comes first and order is kept.
`HarborStream` is the receiving side: `push_socket_data` as the switch in a
loop, on a stream that the socket cuts anywhere.

**HarborNet** (`cmaster.lua`, `cslave.lua`). The master and the slaves of all
nodes with their streams and connections. `NetInv` (`HarborNetInv` in
`MCServices`): who waits for a name, a link or a connection waits with a reason,
the harbor service is told what its slave knows, and slaves that were told of
each other connect. Nodes die and connections fail up to `MaxFaults` times,
each in the place of one of the `MaxOps` requests of services; a slave that has died counts among those that answered its peers.

**ServiceManager** (`service_mgr.lua`, `launcher.lua`). One unique service over
two nodes. `ManagerInv` (in `RegistryInv` of `MCServices`): it runs once, everybody gets the same handle, a launch
is confirmed once, waiters are known, and who calls `uniqueservice` finds the
launch under way.

**Multicast** (`multicastd.lua`, `multicast.lua`, `lua-multicast.c`). A channel
between two nodes. `MulticastInv`: a package is freed by its last subscriber and
not before, messages are heard once and in order, counts are exact, and
subscribers are reached unless two answers have crossed (`crossed`). A handler
may yield before its package is closed (`open`), and others run meanwhile; one
that never returns stands for an error of `self.__unpack` as well, which leaves the
package open for ever (`multicast.lua:79`).

**Gate** (`service_gate.c`, `hashid.h`, `databuffer.h`). Connections at the
limit of places, with one bucket, and packets cut anywhere; `GateInv` says that every accepted client and no other is found in the
table, and that the packets which are complete are forwarded in order, for
clients that nothing was unheard of (`unheard`: nobody to forward to, or a length
over the limit). A length with the top bit of a 4-byte header set is negative
(`Negative`), passes the limit and is never complete; a second instance, the part
`wide` of `MCHarbor`, has such clients.

**Netpack** (`lua-netpack.c`, `gateserver.lua`). The packets of two clients,
complete ones and those cut in the header or in the content, the ring with its
growth, and handlers that return, yield or raise, or close a client while packets
of it are in the ring (`shut`), which are dropped. `NetpackInv`: exactly the
complete packets are handed over, in order for each client, until it is closed.

**MsgServer** (`msgserver.lua` on `gateserver.lua`). A user whose client comes
back on a new connection and resends. `MsgServerInv`: a request is executed once
unless it was repeated on one connection while it was under way (`spoilt`),
answers match, old responses are retired by their version only, and the counts
of clients are right.

**SharedData, ServiceProofs** (`sharedatad.lua`, `sharedata.lua`). `SharedDataInv`: the count
of an object is what the pool, the clients and the messages hold, nothing that
is pointed to is freed, and a client's monitor is watched for or on its way.
CMD.new does not yield, and one coroutine of each client asks.

**Cluster, ClusterAgent** (`cluster.lua`, `clusterd.lua`, `clusteragent.lua`).
`SenderInv`: the requests of a service leave in order and once, to a channel
with the present address, and none is left behind when the address comes. The
connection of the clustersender is there with it (`host`, `link`, `attempt`): it
is lost and opened again by a request, and a `changenode` that meets such an
attempt joins it (`borrowed`, [below](#divergences-found)).
`AgentInv`: a request's name is resolved to something it stood for since it was
asked for, caches are emptied by a change unless the agent was not yet known,
and the agent of a lost connection ends.

**ClusterMessage** (`lua-cluster.c`, `clustersender.lua`, `clusteragent.lua`,
`socketchannel.lua`). What is of a part or more goes as several packets of low
priority, which small ones overtake between any two; `out` and `back` are the
two priorities of each direction, a byte is known by its message and place. The
agent keeps the parts by session (`large_request`), the channel by caller
(`__result_data`). `MessageInv`: a service is given each request whole and once,
a call as a call and a send as a send (`HandedWhole`); a caller gets its own
answer, all of it, or its own error (`OwnAnswer`); and what has been put together
and what is still queued are the whole message, at every moment
(`NothingLost`). A send to an unknown name is answered, with session 0 when it is
small and with its own when it is large; that is why a large send uses up a
session.

**DataCenter** (`datacenterd.lua`). A tree of values, flat: a function on paths.
No handler yields, so a message is one step. `DataCenterInv`: who waits is in the
queue of its path, once, below branches only, where an update of that path finds
it; and the path has no value, unless the value came with a table set above it
or was made for nil below it (`passed`).

### Values and bytes

**Bytes, Seri** (`lua-seri.c`). A message of Lua values goes through the chain of
blocks (`WbPush`) into a buffer (`Pack`) and is read again (`Unpack`). A value is
its type and what it is; `lua_rawlen` of a table with holes is any border, so
`far` chooses. `Byte` is 256 in the code; with 4 the limits of all widths are
small numbers. `SeriKept`: the receiver gets what was given, and what cannot be
sent is refused.

**Sproto** (`sproto.c`, `lsproto.c`, `sproto.lua`). `Encode`
and `Decode` are one fold each over the fields or the records, with the space
that is left; `LEncode` repeats with a larger buffer as `lencode` does. `Pack`
and `Unpack` are the zeros. The second part is two hosts that ask, dispatch and
answer in any order with their own versions of the types, and whose buffers
start small. `PacketsKept`: what is dispatched is what the other end sent, cut at
the right place, for the fields both know. `SessionsExact`: a session is noted as
long as something of it is under way, or its request could not be encoded
(`failed`). `Fits`: the space of `lpack` is enough for any words. `MCHarbor` has
the examples.

`MCHarbor` runs `Harbor`, `HarborStream`, `Gate`, `Netpack`, `MsgServer`,
`SocketBuffer`, `Sproto` and `Seri`; `FramesKept` is what four of them promise
together: wherever the bytes are cut, exactly what is complete comes out, and
`ValuesKept` what the last two do: what is decoded is what was encoded.
`MCServices` runs `CriticalSection`, `HarborNet`, `Multicast`, `ServiceManager`,
`Channel`, `Stm`, `SharedData`, `DataCenter`, `Cluster`, `ClusterAgent` and
`ClusterMessage`; `RegistryInv` joins the invariants of `ServiceManager` and
`DataCenter`, which both register who waits for what somebody else will bring.

## Runs and bounds

Every constant that the program does not have is named as a bound in its
module. Deadlock is off where all bounds may be used up or the node stops; it is
on in `delivery`.

| run | instance | what it checks |
|---|---|---|
| `platform` | 3 threads at the lock; 2 sockets (groups of 1, 1 event for each wait), a waiter, a caller with 2 operations, a close; a tree of 10 keys | `MutualExclusion`, `WriterEnters`; `PollInv`, `EventsReported`; `TreeInv`: every shape and every rotation up to 10 nodes |
| `delivery` | ring of 2, up to 4 messages of 2 kinds, threshold 1; rings of 2, hence a 6-bit clock, 3 timers, all delays below half the range | `RingInv`, `ImplementsFifo`, `OverloadCovered`: doublings from every position of the head; `WheelInv`, `ImplementsTimeouts`, `EventuallyDelivered`: every level, the cascade and the wrap |
| `dispatch` | 3 contexts (2 at the start; one is the monitor of exits, and that one or the third may be the harbor service), 2 workers with weights -1 and 0, 1 outside thread, 2 operations of services | `MailboxOwned`, `RefExact`, `NoUseAfterFree`, `AssertsHold`, `NothingForgotten`: a launch, a reservation, sends and a retire at the same time, with a worker that takes one message and one that takes the whole queue |
| `handles` | 4 contexts, 2 launchers, table of 1, mask 3, 2 names | `StorageSound`, `RetireAllComplete`: growth to 4, two launches at once, the wrap of the handles, retire-all between other steps, the names of services that come and go |
| `handles_race` | 5 contexts, 2 launchers, table of 2 | violates `NoCollision`, see [below](#divergences-found) |
| `scheduler` | 2 workers, 1 service, 3 mailbox schedules | `SleepInv`, `NobodyStuck`: lost signals, broadcast against wait, stop |
| `socket` | 2 workers, 1 slot for 2 ids, connected or bound, 2 messages of 2 units, 1 close, shutdown or start; and 2 slots with a listening socket and its client, 3 control requests | `StreamKept`, `BuffersCounted`, `WriteEventArmed`: direct and queued writes of both priorities, partial writes, close, and messages, events and commands for the previous id |
| `lua` | 3 coroutines, 1 other service, 1 request, 3 operations, 1 use of `skynet.term` | `SessionsKept`, `NothingOwed`, `ExitReports`, `CallReturns`: nesting of resumptions, errors and exit |
| `harbor` | 2 peers, 2 services, 1 name, 3 messages; a peer's messages of 1, 3, 2 and 1 bytes; 3 clients of the C gate with 2 places and 1 bucket, and 2 with 4-byte lengths, one of which sends a negative one; 2 clients of the Lua gate with 3 packets each, a ring of 1, 2 handlers that yield; a user with 3 connections and 3 requests; 6 bytes with 2 separators and 2 halves of one; 2 hosts, 8 requests, 4 answers, 1 packet under way each, 2 sessions, buffers from 8 to 128 bytes; up to 5 words to pack, runs of 3; 2 of 29 Lua values, blocks of 5 bytes, depth 2 | `MessagesKept`, `WireInv`, `FramesKept`, `MsgServerInv`, `ValuesKept` |
| `services` | 4 coroutines, depth 3; 3 slaves, 1 name, 2 requests or 1 and a fault; 3 subscribers on 2 nodes, 2 publications, 3 calls; 5 callers on 2 nodes, 2 launches; 3 requests, 3 connections, 2 faults, 1 close or changehost; 2 readers and a writer, 2 updates, 3 reads; 2 clients, 3 objects, 2 queries, 1 exit; 2 calls and a push, 2 reloads; 2 requests, 3 registrations; 3 requests of up to 2 parts, one of them a send at most; 3 clients, 4 paths (3 one below the other), 5 values | `SectionInv`, `HarborNetInv`, `MulticastInv`, `RegistryInv`, `ChannelInv`, `StmInv`, `SharedDataInv`, `ClusterInv` |
| `stm` | 2 readers, 1 writer | violates `NobodyInside` |
| `stdin` | the connection of `harbor`, compiled with `_WIN32` | violates `PoolKept` |

Why they are enough: the lock, the mailbox, the life of a service, the sleeping
workers, the critical section, the timer wheel, the handle storage, the socket
server, transactional objects and shared tables, the Lua runtime and what a harbor
sends are also proved for all values. In the others each bound lets the competing parties meet:
two workers and an outsider are all roles around one mailbox; three coroutines
are a caller, one that it wakes and one that fails inside; two units are a
message with a part written, and a second message is one that may overtake it;
two nodes are an owner and one that is not; three slaves are a newcomer, one it
was told of, and one that is lost meanwhile; two places with three clients are a
full table and an id that is given again. The codecs run with bytes of 4 values,
blocks of 5 bytes, runs of 3 words and cookies below 4, so that every limit of a
width, a length, a block and a buffer is met by values that TLC can enumerate. The sockets are split by kind, since
they do not share state but the pipe and their slot. In `handles` the two launchers
do meet as in `handles_race`, and the doubling of a table with a hole (divergence
4) comes up as well: either can end the process, as `crash` says, and what follows
a race that did not end it is excepted by `StorageSound`.

Larger instances were tried for the parts where a bound is tight: `dispatch`
with 3 operations and no monitor, `lua` with 4 operations or 2 requests,
`socket` with 2 close requests or with 3 messages to one id, `MsgServer` with 2
sessions (6.4 million states), `SharedData` with 3 queries, `Cluster` with 2
pushes and 4 calls of clusterd (3.9 million), `ClusterAgent` with 3 requests (2
million), `ClusterMessage` with 3 requests of 1, 2 or 5 bytes each (1.7 million),
`HarborNet` with 2 requests and a fault (1.3 million), `Gate` with 2 reports
that wait (0.7 million);
the same properties hold.

## Fairness

* `RWLock`: a thread inside a lock function keeps running (weak fairness of each
  step after the call); nobody has to ask for the lock.
* `Wepoll` (in `MCPlatform`): a thread inside `epoll_wait` keeps running and
  calls it again, as the loop of the socket thread does, and the kernel
  completes a request whose socket is ready. Nobody has to call `epoll_ctl`.
* `Dispatch`: every worker keeps running, a callback returns (the code only
  reports one that does not), and a worker that found nothing looks again,
  because the timer thread wakes a sleeper every 2.5 ms.
* `Timer` (in `MCDelivery`): the timer thread never stops and time goes on.
* `Scheduler`: weak fairness of every thread; strong fairness of taking the
  mutex, whose owners hold it for a few instructions; no signal, event or
  spurious wakeup is sure.
* `LuaService`: the service is dispatched, user code comes to an end, and what
  other services and the timer owe arrives.
* `SocketServer` has a `FairSpec` for its two liveness properties, which no run
  of the present set uses: both kinds of thread keep running, and a socket that
  stays open takes everything in the end.

The services of `MCHarbor` and `MCServices` have no liveness properties of their
own: what they owe is stated as invariants of the form "who waits has a reason",
that the answer, the message or the coroutine that will wake it exists. Such an
invariant needs no fairness, and with the fairness of the layers below
(mailboxes are emptied, calls return) it is what liveness rests on.

## Proofs

TLAPS checks, for all values of the constants under the assumptions named in
the modules (`ThreadFinite` in `RWLock`, `WepollAssumption` in `Wepoll`, `SizeAssumption` and `NoMsgAssumption`
in `MessageQueue`, `CtxAssumption` and `ThreadAssumption` in `Dispatch`, `NoThreadIsNone` in
`CriticalSection`, `SchedulerAssumption` in `Scheduler`, `HarborAssumption` and
`NameAssumption` in `Harbor`, `StorageAssumption` in `HandleStorage`, `TimerAssumption` in `Timer`,
`LuaAssumption`, `CoAssumption` and `ServiceAssumption` in `LuaService`,
`SocketAssumption` in `SocketServer`, `StmAssumption` in `Stm`,
`SharedAssumption` in `SharedData`: finite sets, positive sizes, weights that the code can be started with, values that are
no message, no service, no coroutine, no worker, names that are no handles, a
handle mask that leaves room for a handle, and delays below half of the clock,
as an `int` is):

* `PlatformProofs`, about `RWLock`: `LockInvariant` (`Spec => []LockInv`) and from it
  `MutualExclusionHolds`. Exclusion is not inductive: a reader that has
  incremented `read` but not yet looked at `write` again is neither inside nor
  outside. `LockInv` adds that `read` is the number of threads that have
  incremented it, that `write` is set exactly while one thread owns it, and
  that a writer that has drained has no entered reader beside it. The proof has
  one step for each action and uses the cardinality of the set of counted
  threads with one thread added or removed.
* `PlatformProofs`, about `Wepoll`: `PollHolds` (`PollSpec => []PollInv`), for any
  sockets, any numbers of waiting and calling threads and of objects, and any
  size of a group. `PollInv` is not inductive: it says how many requests an object has
  and not whose they are. `PollIInv` adds that no two packets are of one object
  (`PacketsApart`), that an object has a packet or a request with the driver
  exactly when its `poll_status` is not idle (`Linked`), that who is idle is in
  the update queue and who is pending and not in it watches all that is wanted
  (`LookedAfter`), that the queue is empty while a thread waits, and which
  references the threads hold (`ThreadsKept`). About a port that is gone it says
  only that each request left was asked to end, since `port_delete` waits for
  none (`DeletesAll`, `DeletePortKeeps`). What the code does under the lock is several
  changes of the port, and between them the invariant does not hold; so `Sound`
  is stated of a port with the requests that it has started and stopped
  so far, and each operation is shown to keep it: `UpdateSound`, `FeedSound`,
  `AddSound`, `ModSound`, `DeleteSound`. The three loops are recursive functions
  over the rounds (`RoundsExist`, `RoundsKeep`). The groups are `Fits`, with
  lemmas for one more member, a new group, a full group that goes to the front
  and one that is released.
* `NodeProofs`, about `MessageQueue`: `RingInvariant`, `IdleQueueHolds`, `FifoRefinement`
  and `OverloadHolds` (`MQSpec => OverloadCovered`).
  The ring invariant says that the indices lie in the array and that the slots
  from head to tail hold messages; the refinement maps the ring to the sequence
  `Content` and has to show that `Expand` leaves `Content` as it was, that a
  push appends to it and that a pop takes its head. The lemmas about `Wrap` and
  `Content` carry the arithmetic. For the overload, that the doublings of `pop`
  reach a threshold over any length is `DoublesExist` and `RaisedIs`: the function
  exists up to each length, and there is a least number of doublings that is enough.
* `DispatchProofs`: `MailboxOwnedHolds`, `RefExactHolds`, `NoUseAfterFreeHolds`,
  `AssertsHoldAlways`, all from one invariant, `IInv`. None of the four is
  inductive. `Frames` says which identifiers a thread has at which step and where
  its send or release may return to. `Counted` is `RefExact` over a set that is
  split by thread, so that a step of one thread changes one term; the reservation
  of a harbor service is one term more. `Dead` says
  that a context whose deletion has begun has the count 0 and one thread that
  deletes it. `Owners` is an equality, the owned mailboxes are those scheduled or
  released and not freed: one inclusion says that a mailbox that is about to be
  scheduled has no owner yet, the other that one with messages has an owner. `Ready` says that a service
  found before `ctx->init` is set is still held by its launch, which is why its
  first dispatch comes later. A lemma for each group of actions shows that the
  step moves one thread (`Moved`), changes `ref` by what its frame then holds
  (`Balanced`) and keeps, takes or gives mailboxes (`Keeps`, `Takes`, `Gives`);
  the parts of the invariant follow from these.
* `NodeProofs`, about `Timer`: `WheelHolds` and `TimeoutsRefinement`, for rings of any
  size, from `TimerInv`: each waiting node is in the slot that `add_node` would
  choose for it now, is due in less than half of the clock, and is there once;
  of two nodes due at the same tick the one set first is first in their slot. The
  cascade is the hard part. `ShiftPlaces` says that when a tick begins a block, the
  nodes whose slot changes are those of the one list that `timer_shift` takes.
  The others stay where they are (`StaysPut`), because nothing that waits is due in
  the block that has just ended (`BlockOver`). The wrap is the same argument with level 3 as the ring
  that begins. `move_list` puts the nodes of that list back one by one
  (`MoveStart`, `MoveNext`): that the function `moved` is what its recursion says
  follows by the least place where it would not be. For the refinement, the
  slot of the present tick holds all nodes that are due now and no others
  (`NowIs`), in the order of their ids, so `dispatch_list` delivers what
  `TimerSpec` says is due.
* `NodeProofs`, about `Scheduler`: `SleepHolds` (`Spec => []SleepInv`). That no worker waits on
  after `quit` needs three facts more: the mutex is held exactly from the lock
  to the wait and after the wake (`Holders`), who is to be signalled is inside
  `pthread_cond_wait` (`Blocked`), and once `quit` is set nobody is between the
  test of it and the wait (`QuitSeen`). The count of sleepers is the cardinality
  of a set that each step leaves alone or changes by one worker.
* `ServiceProofs`, about `CriticalSection`: `SectionHolds` (`Spec => []SectionInv`), through
  `QueueInv`. That two coroutines are never inside is not inductive: when one
  leaves, the section goes to the head of the queue, and nothing in
  `SectionInv` says that this one is waiting, or that it is there only once.
  `Owned` ties depth and program counter of every coroutine to
  `current_thread` and `ref`, `Waiting` says that the queue is the set of those
  that wait, without repetition; the proof then has one step for each action,
  and a lemma on the tail of a sequence without repetition.
* `ServiceProofs`, about `Stm`: `StmHolds` (`StmSpec => []StmInv`), from
  `ObjectsInv`. The counts are sums over who has the object or a copy, so each
  step has to be put down as one owner more or less: `Boxes` says that a reader
  is in a function of `lua-stm.c` only with an open box or on its way out, which is
  when it owns the object; `Hands` that a reader holds a copy only between
  `stm_copy` and the comparison, and the object has one until `stm_release`. A
  copy that is not made yet needs an invariant of its own (`Exact`): nobody has
  it, or `stm_newcopy` would give it too small a count. `HavingStep` counts those
  that have a copy when one of them takes another, and `ReleaseKeeps` is
  `stm_releasecopy` for each of its callers. The invariant does not speak of the
  lock: what the lock keeps together, as the look of `stm_copy` at the copy and
  its increment, or the plain decrement of `stm_release`, is one action.
* `ServiceProofs`, about `SharedData`: `SharedDataHolds` (`SharedSpec =>
  []SharedDataInv`) and `PointersLive`, from `SharedIInv`. The count of an object is
  a sum over clients, a set of pairs whose size is what each has in boxes and in
  unread answers (`Carriers`); `CarriersOne` says what a step of one client does to
  it, `RespondIs` what an answer to a set of watchers does. `Counts` adds that an
  object which is not in `objmap` has the count 0: that is why a message can only
  carry one that is there. That a monitor asks about the latest object is not
  inductive. `CallsOnce` says that the call of a monitor is in one place, its
  question in the mailbox, its name in `watch` or its answer on the way, and that
  the application does not query while the value is cached; `AsksLatest` that the
  question is about the object that the client will have after its next access,
  and that what is being replaced is `dirty`, which `sd.update` asserts. The last
  holds until the first deletion (`ChainInv`: until then every object but the
  present one is dirty); after it the assertion can fail, as listed
  [below](#divergences-found). A client that does not take part in a step keeps
  its invariant by `ClientKept`.

* `HarborProofs`: `MessagesKeptHolds` and `WireInvHolds`, from `HarborInv`. A
  message lies in one of the places of `Place`: the socket of a peer, the queue
  of a peer or of a name, the local mailboxes, or dropped. `Fate` says that the
  ids given so far are those held in some place, each in one, which is `OneFate`
  for one indexed family of sets instead of five.
  Each action either puts a new message or moves a whole queue, so it is reduced
  to `Source`, where the messages come from, and `Put`, where they go; four
  lemmas say that each kind of place may receive them. Order on a socket is not
  inductive: what waits in the queues will be written behind it later. `Orders`
  says that for each destination the ids ascend from the socket to the queue of
  its peer and on to the queue of its name, and `Unknown` that no message for a
  name whose handle is not known has left the queue of the name; without it the
  messages that are released when the name becomes known could come behind
  later ones.
* `NodeProofs`, about `HandleStorage`: `RetireAllCompletes` for any number of threads that
  create services, from `RetireInv`: the handles that the last pass still has to
  meet lie in slots at or after its index (`Ahead`), and a doubling moves them
  to slots not before that (`ModDouble`: h mod 2n is h mod n or n more).
  `ReachableHolds`, `UniqueHandlesHold` and `NoCollisionHolds` are for any number of
  creators, too, from `PlacedInv`: each context is in the slot of the
  handle it has, or is about to get. Creators that only register next to each
  other keep it; what breaks it is a doubling between the
  `skynet_handle_register` of another and its `ctx->handle`, so the three say
  `~raced => ...`, and `handles_race` shows that they cannot say more.
  `NamesFoundHolds` needs no such hypothesis:
  the names are sorted (`NamesInv`), and in a sorted table the binary search
  gives for each range the place where the name is, or where it belongs, cut to
  that range (`Between`, `BetweenHalves`); that this is the only function which
  the recursion describes follows by the least length for which another one
  would differ (`HalvesFind`, with `LeastNat`). The loop of `skynet_handle_retire`
  is treated in the same way (`WithoutIs`). All parts together are `StorageHolds`
  (`HandleSpec => []StorageSound`).
* `LuaServiceProofs`: `SessionsKeptHolds`, `NothingOwedHolds` and the action
  property `ExitReportsHolds`, from `LuaInv`, which has three parts.
  `SessionInv` adds to `SessionsKept` that a suspended coroutine has a session,
  that a session not yet generated has no owner (else `skynet.call` could
  overwrite one), that the running coroutine runs, and that the fork queue holds
  forked coroutines, each once (else the second entry would resume a coroutine
  that is suspended). `RequestInv` adds to `AnsweredOnce` that a request has one
  holder and that one that has not come yet has no answer. `Chain` says what the
  queues hold at each point of `suspend` and `dispatch_message`: past the wakeup
  queue it is empty, or a token was stale; past the error queue that is empty as
  well, or a coroutine of `function() end` in the fork queue will go through
  both again, which is what the fork after an error in `suspend`
  (`skynet.lua:183`) is for. Every action resumes the owner of a session, gives
  a new session to a coroutine, changes one coroutine that waits for nothing, or
  leaves the tables alone, and there is one lemma for each of these; that a
  service that is down puts all of its sessions into the error queue is a
  counting argument on finite sets (`OrderHolds`).
* `SocketProofs`: `TypeCorrect`, `SocketInvariant`, `WritesArmed` (`Spec =>
  []WriteEventArmed`), `BuffersFreedOnce` (`Spec => []FreedOnce`) and `BuffersExact`
  (`Spec => []BuffersCounted` when services send after SOCKET_OPEN), for any number
  of slots, workers, ids, messages and units of a message. It has five layers,
  each with one lemma for the steps of a worker and one for those of the socket
  thread. Everything above the types is stated under `Sound`; `SoundBefore` says
  that it cannot come back once it is lost.
  The types (`TypeOK`) hold in any case; they include that an offset stays inside
  its message and that `n` units are taken only of a list that has `n`. The
  module's `Units` is a `FlattenSeq` and `Rest` takes units from the front, both by
  recursion: `FlattenIs` describes the first by a function that exists for each
  length and is unique, and the inductions use that a set of naturals that is not
  empty has a least element (`LeastNat`, from the well-foundedness of `<`), since
  an induction over a predicate is out of reach.
  `OwnersInv` says who has a slot: `HoldersInv`, that a RESERVE slot is held by one
  worker or by one opening request in the pipe; `NamesInv`, that an open slot has
  an id that hashes to it; `ClosingInv`, that what is being closed between two
  locks is still there. Without it a step on `HASH_ID(id)` could meet a slot of
  somebody else.
  `ArmedInv` is `WriteEventArmed` with what it rests on: a socket of a type that
  is not written to has nothing queued, a connecting or connected one is in the
  poll set, a connecting one waits for its write event unless it is being
  closed, and a descriptor that is not polled came from a bind request (`BoundInv`).
  `PlacesInv` is an equation for each message: how often it was freed, plus the
  workers, the requests in the pipe and the buffers in the slots that have it, is
  1 if it was sent and 0 if not. `SlotsCount`, `JobsCount`, `CountAppend`,
  `CountTail` and `CountConcat` say what one change does to each term, and
  `RestCount` that a write takes from the front and frees what it takes whole,
  so that a step has to show only that its own terms balance (`Balanced`,
  `SlotBalanced`). It holds for services that use an id early, too.
  `CountedInv` says that `sending` of a TCP slot is the number of requests counted
  and not yet queued for the id that the slot has. It is not inductive: `new_fd`
  sets the count to 0, which is right only if nothing is in flight to
  the new id. `SendersInv`, that a request in flight is for an id that was
  reported open, gives that, and needs the hypothesis `~Early`: a service that
  sends to an id before SOCKET_OPEN puts a request into the pipe that was not
  counted (`SendingAssert`, below).
* `StreamProofs`, on top of it: `StreamsKept` (`Spec => []StreamKept` when
  services send after SOCKET_OPEN), for all constants. `FlowInv` is about
  streams: what an id was sent, then what its slot has queued (the direct write,
  the high list, the low list) is one sequence of units, and it is made of whole
  messages of that id in the order of their senders and priorities (`Ended`);
  nothing in the pipe is older than it (`Ahead`), and what a worker holds is the
  last that it sent (`JobOf`), so that whatever comes next may follow it; the
  pipe itself is in order (`PipeOf`); and an id that no socket has had yet was
  sent nothing (`Due`). A write moves units from the queued part to the sent
  part (`SentStream`: the sequence stays as it was, also when a low buffer that
  was begun is raised into the high list), a queued message goes between the
  high and the low ones or behind all (`HighStream`, `LowStream`), and
  `free_wb_list` takes away what was not begun (`FreedStream`) or marks the id
  as cut. It needs `ArmedInv`, since an accepted socket takes over a slot
  without clearing its lists, and `CountedInv`, without which a direct write of
  a worker could overtake its own request in the pipe; hence `~Early` here, too.

The inductive invariants hold in TLC as well, on instances like those of the runs
(`LuaInv` with 5 operations and 2 requests, 4.7 million states).

Only model-checked: all liveness properties (they need fairness and ENABLED),
what is computed by recursive operators (`Tree`,
`SocketBuffer`, `Seri`, `Sproto`), and the invariants
of the other services of `MCHarbor` and `MCServices`: `FramesKept`,
`MsgServerInv`, `ValuesKept`, `HarborNetInv`, `MulticastInv`, `RegistryInv`,
`ChannelInv` and `ClusterInv`. Most are conjunctions over several components that
need an invariant of their own each.

## Divergences found

Where the code and its own comments or assertions disagree. The first three are
runs. Each of the others was met while its module was written, with TLC, and the
property that states it stands in the module, outside the set of runs, where one
is named: to see the counterexample, check that property alone with the
constants given here (where none are given, those of the run of the module). The
last part lists what the models had to except without a property of its own.

1. `NoCollision` (`handles_race`): `skynet_handle_register` publishes the
   context (`skynet_handle.c:50`) before `ctx->handle` is set
   (`skynet_server.c:156`); a table that grows in between rehashes it by handle
   0 and meets `assert(new_slot[hash] == NULL)` (`skynet_handle.c:64`).
2. `NobodyInside` (`stm`): "last reader, no writer. so no need to unlock"
   (`lua-stm.c:77`), but another reader that has counted itself out before can
   still be on its way to `rwlock_runlock` of the object that is freed.
3. `PoolKept` (`stdin`): compiled with `_WIN32`, `lreadline` and `lreadall`
   replace the head of every buffer by console input (`lua-socket.c:353`, `395`)
   in a node that lies in no chunk: what the socket had received is dropped, and
   the node goes to the free list although Lua may collect it, against
   `lua-socket.c:94`.
4. `GrowsOnlyWhenFull` (`HandleStorage`; run `handles`): the scan jumps from
   HANDLE_MASK to 1 ("0 is reserved", `skynet_handle.c:45`) and so misses slot 0;
   when that is the only free one the table is doubled with a hole in it, and
   `skynet_context_handle(NULL)` is called.
5. `CheckedFirst` (`Harbor`): "we should send self_id to fd first , and then recv
   a id (check it), and at last send queue" (`service_harbor.c:8`), but
   `dispatch_name_queue` (line 361) asks for `fd` only: messages of a name that
   is learnt during the handshake are written before the id was checked.
6. `Destined` (`Harbor`): messages of a name whose peer is not connected yet are
   moved to the peer (`service_harbor.c:369`) and written later without their
   destination.
7. `DownReported` (`Harbor`): the branch "report the destination is dead"
   (`service_harbor.c:538`) is inside a test for `fd == 0` or STATUS_HANDSHAKE,
   and `close_harbor` leaves `fd` as it was: it is never taken.
8. `ResumesSuspended` (`LuaService`): `skynet.term` inside a coroutine that was
   resumed with an error queues a session twice, and `coroutine.resume` gets
   nil (`skynet.lua:80`).
9. `NoForkAfterExit` (`LuaService`): "no fork coroutine can be execute after
   skynet.exit" (`skynet.lua:322`), but what other coroutines fork later is
   executed.
10. `ReserveAssert`, `ListAssert` (`SocketServer`; 1 message): between the
    compare-and-swap of `reserve_id` (`socket_server.c:366`) and `s->id = id` the
    slot answers to its old id; a close or a message that comes then reaches
    `assert(s->type != SOCKET_TYPE_RESERVE)` (539) or
    `assert(s->head == NULL)` in `new_fd` (599).
11. `SendingAssert` (`SocketServer`; MaxId 1, 1 message, no control request,
    Early TRUE): a message sent on the id that `socket_server_connect` returned,
    before the connect command ran, is uncounted without having been counted
    (`socket_server.c:1330`).
12. `StreamAlwaysWhole` (`SocketServer`; Kinds {"O"}, MaxId 1): `force_close`
    frees the lists before it takes the lock (`socket_server.c:540`); a direct
    write can follow a part of the message that was freed, against "append the
    rest part to high list" (1022).
13. `CloseAnswered` (`SocketServer`, `FairSpec`; Kinds {"O"}, MaxId 1, 1
    message): "SOCKET_CLOSE message will send later" (`socket_server.c:1203`) does
    not hold when the message that the half-closed socket waits for is still in
    the pipe, and is dropped.
14. `Released` (`SocketServer`, `FairSpec`; Kinds {"B"}, MaxId 1, 1 message, no
    control request): what is sent to a bound descriptor waits for ever
    (`socket_server.c:1042`). With Kinds {"O"} and MaxSending 1 it holds.
15. `ReaderReturns` (`SocketBuffer`): "socket.close() will wait last socket
    buffer operation before clear the buffer" (`socket.lua:35`), but the reader
    may begin another reading before the closer runs, which then removes the
    socket under it: the reader sleeps for ever.
16. `WaitEnds` (`HarborNet`): "Waiting for %d harbors" (`cslave.lua:248`): when
    one of them dies after it was counted and before it has connected, nothing
    looks at the count again (line 260).
17. `NamesConverge` (`HarborNet`; MaxOps 2): "all the global names"
    (`cmaster.lua:7`): two nodes that register one name at the same time keep
    different ideas of it, since a slave takes its own before the master's
    broadcast (`cmaster.lua:79`).
18. `SubscribersReached` (`Multicast`): "node subscribe it by send a SUBR to the
    owner" (`multicastd.lua:139`): a USUBR of a node can overtake the answer to
    its SUBR (line 149), and the owner then does not know a node that has
    subscribers.
19. `WaitersListed` (`Channel`; the property without `left`): "capture socket
    error in request/response transaction" (`socketchannel.lua:5`): a close or
    changehost in the middle of a reconnection can leave requests behind that no
    dispatch thread knows.
20. `AcceptAsserted` (`Gate`): `assert(g->listen_id == message->id)`
    (`service_gate.c:265`): an accept that was under way when the gate closed its
    listening socket.
21. `IpKnown` (`MsgServer`): "return ip when connection establish, or nil"
    (`msgserver.lua:61`): the close of an older connection takes away the fd of
    the present one. `LogoutComplete` (`MsgServer`): after a logout a connection
    of the user can still be there.

Without a property of their own:

* `ServiceManager`: a `uniqueservice` behind a `queryservice` of the same node
  waits for somebody else to launch (`service_mgr.lua:49`); a remote failure
  arrives as nil and fails an assertion in every waiter. LIST, STAT and MEM of
  the launcher traverse a table that other requests change while they wait
  (`launcher.lua:27`, `47`; `service_mgr.lua:100`).
* `MsgServer`: the version of an entry is set after the handler has yielded, so
  that a repetition on the same connection executes the request again; a session
  number that is used again can get the earlier answer; a request of an older
  connection moves the fd of its entry back.
* `Gate`: `_forward` with nobody to forward to leaves the packet in the buffer
  and parses it as lengths; a packet over the limit is followed by its own bytes
  read as lengths; a length of 2^31 or more in a 4-byte header is negative for
  the code, is not refused as too large, and never complete.
* `SharedData`: a monitor that fails after a deletion leaves the cache of its
  service stale (`sharedata.lua:16`); a deletion followed by a creation returns an
  object for one that is not dirty, and `corelib.lua:131` asserts; a CMD.new that
  fails in an update loses the watchers (`sharedatad.lua:116`); the references
  given to watchers that have exited stay (`sharedatad.lua:121`).
* `Cluster`: a `changenode` that meets a request which is connecting to the old
  address again waits for it; `connect_once` restores the old address
  (`socketchannel.lua:259`), `connect(true)` returns on the old connection
  (lines 397-413), and clusterd hands out a channel to an address that is no
  longer configured. A node that is put down while it is opened keeps its channel
  (`clusterd.lua:64`); a `newservice` that fails leaves `connecting[key]`
  (line 38, not modelled).
* `ClusterAgent`: a waiter looks into the table of names that was replaced
  (`clusteragent.lua:22`) and is refused; an agent that is being started is not
  told of changes (`clusterd.lua:171`); a launch that fails leaves
  `cluster_agent[fd]` set.
* `Wepoll`: "If the poll request still needs to complete, the sock_state object
  can't be free()d yet" (`wepoll.c:1691`), but `port_delete` frees at once those whose cancelled
  request has not come back (lines 1146 and 1694): the kernel still has the
  address of a status block in freed memory.
* `Dispatch`: a harbor service that is retired keeps the reference of
  `skynet_harbor_start`, so its mailbox is not released; nobody takes it out of
  the global queue for good, and what is sent to other nodes is lost in it
  until the node stops. That there is a harbor service when something is sent to
  another node (`assert` of `skynet_harbor.c:21`) is assumed.
* `Multicast`: the arguments of the `pcall`, and with them `self.__unpack`, are
  evaluated outside of it (`multicast.lua:79`): when that fails, the package is
  never closed.
* `DataCenter`: a table that is set above a path where somebody waits gives that
  path a value and wakes nobody, and neither does nil set below it, which makes
  it a table (`datacenterd.lua:36`); a client that waits at a path on the way of a
  longer update is answered with an error (line 48); a string at the place of a
  table is indexed and gives nil instead of an error (line 12).
* `Sproto`: a request whose content cannot be encoded leaves its session
  noted (`sproto.lua:239`), which nothing removes.
* Traced calls of a cluster (not modelled): the agent keeps the tag in one
  variable, `tracetag`; between the packet with the tag and the request other
  packets can come, and a name that is looked up yields (`clusteragent.lua:92`), so
  a tag can come to another request; a send does not clear it (line 97).

## Not modelled

* Memory: sequentially consistent, as the interlocked operations and locks make
  it for the words in question; weak-memory effects are out of scope.
* The contents of messages, the formatting of commands, logs and statistics.
* UDP, pausing, the warning size, and the owner of a socket; the Windows control
  channel as an unreliable datagram socket.
* The monitor of endless loops, modules, environment: nothing waits for them.
* Sharetable and datasheet, the login server, DNS and HTTP: services of the same
  kind as those that are modelled, in the plan.
* In sproto real numbers, decimals, maps with a main index, the limit of depth,
  and the import of schemas; bson.
* Cryptography and the protocols of databases: functions of unbounded data
  without state; a property test reaches them better.
* Vendored code: Lua, lpeg, the allocators, pthreads-w32.

## Plan

Written so far: the modules above. Next, in this order:

1. Proofs: the mutex that `CriticalSection` implements; of the modules without a
   proof, `MsgServer` and `Channel` would say most.
2. UDP in `SocketServer`, its owner field composed with `skynet_socket.c`;
   `Monitor` in `Scheduler`.
3. `sharetable`, the import of sproto schemas, the loss of a connection in `ClusterMessage`.
4. Abstract specifications of the services: a global name table for `HarborNet`,
   a FIFO mutex that its owner may enter again for `CriticalSection`.
