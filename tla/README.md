# A verification project for skynetplus

skynetplus is an actor frame in C++. Its unit is the *ctx*, an object that owns
a message queue and is reached by a 32-bit handle. Worker threads take queues
from a manager and run the handlers of one ctx at a time, so the code of a ctx
is written "as single thread, no lock" (`src/README.md:4`). Handlers are
coroutines: a handler that waits for a reply, a timer or another ctx yields and
is resumed by a later message. On top of the frame lie clients for Redis, MySQL
and other servers, a gate that ties network sessions to ctxs, a center that
connects servers, and a ranking.

Paths below are relative to `src/dll/kernel/ccframe/` unless they begin with
`src/`.

## 1. Inventory

| component | state | operations | talks to |
|---|---|---|---|
| message queue and managers (`ctx_msgqueue`) | a lock-free queue per ctx, `m_nAddTimes`; a lock-free queue of queues per manager, `m_nWaitThread`, an auto-reset event | `MQPush`, `MQPop`, `PushToMQMgr`, `GlobalMQPush`, `GlobalMQPop`, `WaitForGlobalMQ` | called by every thread |
| workers (`ctx_threadpool`) | `pQ`, `pThreadQ` of each thread | `DispathCtxMsg`, `ExecThreadOnWork` | pops queues, runs handlers, drains and unregisters released ctxs |
| registry (`ctx_handle`) | handle -> ctx, name -> handle, released handles | `Register`, `UnRegister`, `GetContextByHandleID`, `NameHandle`, `FindName` | the server link is told of global names |
| ctx base (`coroutine_ctx`) | `m_bRelease`, handle, queue, timers | `InitCtx`, `ReleaseCtx`, `PushMessage`, timers | registry, managers |
| coroutine layer (`coroutine_ctx`) | the ctx a coroutine is in, where it goes next, the ctxs it must kick when it ends | `Ctx_CreateCoroutine`, `Ctx_YieldCoroutine`, `Ctx_ResumeCoroutine`, `Ctx_ResumeCoroutine_Fail`, `Ctx_DispathCoroutine`, `Ctx_ExeCoroutine`, `FinishFunc` | messages between ctxs |
| Redis client (`net/ctx_redis`) | list of requests, list of waiters, the session, ping and timeout marks | `SendPacket`, `ReceiveRedisReply`, `ReceiveRedisDisconnect`, `OnTimer`, the handshake on the network side | network callbacks push messages to the ctx |
| Redis watch (`net/ctx_redis`) | a map of subscriptions, list of waiters, the session | subscribe, unsubscribe, messages of a channel, `OnTimer` | as above; hands messages to the ctx that subscribed |
| MySQL client (`net/ctx_mysql`) | list of requests, list of waiters, the bytes received and not yet read | `DispathBussinessMsg_*`, `GetPacketYield`, `ReceiveMysqlDisconnect`, `OnTimer`, login on the network side | as above |
| request stores (`public/kernelrequeststoredata`) | a queue, or a map with numbered sessions | push, front, pop, fail all | used by the clients |
| server link (`net/ctx_netclientsevercommu`) | numbered requests, a queue for the requests by name, local names | register, request, transfer, disconnect | the center |
| center (`src/dll/interationcenter`) | servers, names, transferred requests of each session | register, names, transfer, release | the links of all servers |
| gate (`net/ctx_gate`) | key -> ctx and session | register, release, delayed deletion | network sessions, the ctx of each session |
| frame server (`net/ccframeserver*`) | ctx id of a session | bind, receive, disconnect | gate |
| packet filter (`net/ccframedefaultfilter`) | the bytes not yet delivered, the length of the packet they begin with | receive, send, reset | called by the session, before the ctx is told |
| http server (`net/ctx_http`) | the functions that answer, by name | register, unregister, request and answer | the functions of other ctxs |
| ranking and its records (`paiming/*`) | table of cells, key -> cell; cached challenge records | load, challenge, result, query | a database outside this repository |
| log, dll modules, server start, protocol codec, thread state | - | - | sequential glue, generated code, display |

What is hard here, and what the properties are for:

* *Interleaving of lock-free steps.* A queue must be in exactly one place. The
  counter `m_nAddTimes` is the whole protocol: who counts from zero hands the
  queue over, and a worker gives a queue up by a compare-and-swap against the
  value it read before it found the queue empty.
* *The end of a ctx.* Release is a flag and a kick; the worker drains the
  queue, then unregisters. Who looked the ctx up before may still push. Handles
  are reused.
* *Sleeping.* Only the global manager is waited on, the announcement comes after
  the manager was seen empty, and the event is auto-reset.
* *Request lists matched by order.* Replies carry no number. Everything depends
  on the list, the connection, and the messages that tell the ctx of the
  connection's end being in step. An answer of MySQL is several packets, of which
  a message may bring any part.
* *Requests matched by number, over two hops.* A call of another server waits in a
  map of its link and in a map of the center. Both time out, both lose
  connections, and the servers they connect end and come back.
* *State kept on both sides.* Names are known to a server and to the center,
  subscriptions to a ctx and to Redis. One side changes while the other is away.
* *Coroutines that yield.* Iterators, references and session pointers are kept
  across a yield in several places.
* *Failure.* Disconnects, timeouts, reconnects by timer, late replies.

The correctness of each component, in a sentence:

* scheduler - one consumer per queue, no lost wake-up, handlers of a ctx one at a
  time and in a registered ctx, every message dispatched or drained;
* registry - a handle leads to the ctx that has it, a released ctx leaves;
* Redis client - a reply is given to the coroutine whose command it answers, every
  request ends with a reply or a failure, no coroutine is left in a list twice or
  after it ended;
* MySQL client - the coroutine that takes a packet is the one whose answer it
  belongs to, and every statement ends;
* Redis watch - the entries are those of which the server sends the messages, and
  every message finds one;
* server link and center - the answer to a numbered request reaches the one that
  asked, once; a call is carried out at most once; the names known at the center are
  the names the servers have;
* gate - a key leads to the session and ctx that registered last, a ctx of a
  closed session is released once;
* packet filter - what is delivered are the packets that were sent, whole and in
  order, whatever connection came before;
* ranking - the table is a permutation, the rank in a cell is its place, a key
  leads to its own cell; who asks for a record gets that record or nothing.

`PROJECT.json` lists the components with their status and every hazard at the
line where it bites.

## 2. Plan

| step | module | what |
|---|---|---|
| 1 (done) | `CtxScheduler`, `CtxMailbox` | scheduler, registry, life of a ctx; the abstract mailbox it implements |
| 2 (done) | `CtxSchedulerProofs` | the inductive invariant and its theorems |
| 3 (done) | `CtxRedis`, `CtxRedisProofs` | the Redis client and its network side; proofs for every set of requests and any number of connections |
| 4 (done) | `TiaoZhanPaiMing`, `Ladder`, `TiaoZhanPaiMingProofs` | the ranking; the abstract ladder it implements; proofs for every table size |
| 5 (done) | `CtxGate`, `CtxGateProofs` | gate, frame server sessions, registration at the center; proofs for every set of sessions and keys |
| 6 (done) | `CtxInbox`, `CtxServerCalls`, `RemoteCall`, `CtxServerNames`, composed for TLC by `MCServerLinks`; `CtxServerCallsProofs`, `CtxServerNamesProofs` | a queue that keeps no order; calls of other servers over two links and the center; the abstract remote call they implement; names; proofs about both |
| 7 (done) | `CtxMysql`, `CtxRedisWatch`, composed for TLC with `CtxRedis` by `MCClients`; `CtxMysqlProofs`, and the last part of `CtxRedisProofs` | the other clients; proofs about both |
| 8 (done) | `CtxCoroutine`, composed for TLC with `CtxScheduler` by `MCFrame`; `FrameProofs` | coroutines that go from ctx to ctx, wait in lists, and fail |
| 9 (done) | `FrameFilter`, in `MCFrame`; `FrameProofs` | the packet filter over the connections of a client |
| 10 (done) | `TiaoZhanRecords`, in `MCRanking`; proofs in `TiaoZhanPaiMingProofs` | the cache of challenge records across a read from the database |

An abstract specification still worth stating: a client as a bag of open calls each
of which gets its own reply or a failure.

## 3. Modules

### CtxScheduler

One action is one access to shared memory; a ctx and the queue inside it are one
value.

| code | model |
|---|---|
| `CCoroutineCtxHandle::m_mapIDToCtx`, `m_ctxID` | `owner`, `id` |
| `InitCtxMsgQueue` done, `m_bRelease` | `inited`, `released` |
| queue of messages, `m_nAddTimes` | `msgs`, `addTimes` |
| content of a `CMQMgr` | `inMgr` with `Home` |
| `m_pEvent`, `m_nWaitThread` | `event`, `Waiters` |
| reference a caller holds, message it pushes | `target`, `cmsg` |
| `pQ` and `pThreadQ`, `pCtx`, `nDequeueAddTimes`, `i`, `pNextQ` | `hand`, `pctx`, `seen`, `packet`, `nextQ` |
| `InitCtx` | `Register`, then `InitQueue` |
| `PushMessageByID` | `PushMessageByID`, `MQPushEnqueue`, `FetchAdd`, `GlobalMQPush`, `Signal` |
| `ReleaseCtxByID` | `ReleaseCtxByID`, `ReleaseCtxMark`, then as above |
| `FinishFunc` -> `PushGlobalQueue` | `FinishFunc`, `PushGlobalQueue`, then as above |
| `MQPop` | `MQPopRead`, `MQPopMessage`, `MQPopEmpty`, `MQPopGiveUp`, `MQPopRetry` |
| `DispathCtxMsg` | `TakeQueue`/`TakeNothing`, `FindNothing`/`FindCtx`, MQPop, `DispatchMsg`, `RotateTo`/`RotateKeep`, `Requeue`, `RequeueSignal`, `UnRegister`, `NextQueue`/`NextNothing` |
| `ExecThreadOnWork` | `Return`, and which manager is served next |
| `WaitForGlobalMQ` | `WaitAnnounce`, `WaitSignalled`, `WaitTimeout`, `WaitLeave` |
| a call through the null `m_pMgr`, a read of a destroyed queue | `CrashNullMgr`, `CrashDangling` |

The lock-free queues are a library that is not in the repository. It keeps the
order of one producer token, and the code makes a new token for each push, so
queues are sets and bags. `DispathCtxMsg` looks the ctx up by the handle stored
in the queue; so does the model, which is why a stale queue can be dispatched in
another ctx. A handler is the time between `MQPopMessage` and `DispatchMsg`; what
it sends is sent by a client meanwhile.

Not in the model: wrap-around of `m_nAddTimes` (the bound `MaxAddTimes` blocks the
push instead: to wrap, a ctx must be sent 2^32 messages without once being idle),
the monitor thread, `SetClose`, the names.

### CtxMailbox

What a ctx promises to those who send to it: a set of messages, of which one at a
time is handled, and which may be thrown away once the ctx is closed.
`ImplementsMailbox` says that the scheduler implements it, with `msgs` as the
mailbox and the message in the hand of the worker as the one handled. It is checked and
proved as `MailboxUnlessReused`: each step keeps the promise as long as no handle was given
to a second ctx; `sched_reuse` shows why.

### CtxCoroutine

What the messages do: coroutines that go from ctx to ctx. A coroutine that yields to
another ctx is put into its queue by whoever resumed it, after Resume has
returned; one that yields to nobody has put itself into a list, from which a handler
resumes it inside itself. So what runs in a handler is a stack.

| code | model |
|---|---|
| the calls of `Ctx_ResumeCoroutine` under way in a handler, or in a thread that runs none | `stack`, of frames that run, or have suspended, or are about to look a ctx up, or to push |
| messages of `CTXMESSAGE_TYPE_RUNCOROUTINE` in a queue | `queue` |
| `m_vtRequest`, `m_vtWaitRequest` and the maps of the clients | `waiting`, of each ctx |
| `CCorutinePlus::m_pCurrentCtx`, `WakeUpCorutineType` | `current`, `lastWord` |
| `Ctx_CreateCoroutine` | `CreateCoroutine`, then as after a resumption |
| `DispatchMsg` | `DispatchMsg`; `DispatchOther` and `OtherEnds` for a timer or a message without a coroutine |
| `Ctx_ResumeCoroutine`, `Ctx_ResumeCoroutineNormal` | `ResumeCoroutine`, `ResumeReturns`, `DispathCoroutine`, `PushMessage` |
| `Ctx_ResumeCoroutine_Fail`, called by a handler or by a dispatch that finds no ctx | `ResumeCoroutineFail`, `DispathCoroutine` |
| `Ctx_YieldCoroutine` to a ctx, and in `Ctx_ExeCoroutine`; to nobody | `YieldCoroutine`; `YieldToNobody` |
| `ReleaseCtx`, the drain in `DispathCtxMsg` | `ReleaseCtx`, `UnRegister` |

That the handlers of a ctx run one at a time is taken from `CtxScheduler`, and so is
that messages are taken; a coroutine puts itself only into a list of the ctx it is in,
which is what every client does. The coroutines a ctx has in its lists when it ends are
lost, unless its own `ReleaseCtx` does something about it, which none does. A coroutine
may begin with saying that it is in the ctx it was created in (`net/ctx_redis.cpp:623`),
which `Ctx_CreateCoroutine` does not take back when it yields: `current` is stale then
until it is resumed. `lost` is auxiliary: coroutines nobody will resume. The comment at
`coroutine_ctx.h:233` warns of one way, to yield again after a failure, since
`Ctx_ResumeCoroutine_Fail` ignores that it did. `InOnePlace` says that there are two
ways and no more. The serialisation functions and `OnTimerToWakeUpCorutine`, which
nothing in the repository calls, are left out.

### CtxInbox

Where the order of messages matters to a ctx, its queue is a sequence, in the order in
which they were pushed, and any message of it may be taken next (`Without`). `MQPush`
makes a `ProducerToken` for each message and `MQPop` a `ConsumerToken` for each look
(`ctx_msgqueue.cpp:20-41`), so not even what one network thread pushed keeps its order.
The three clients and the names use it; `CtxServerCalls`, which matches answers by their
numbers, has sets. Where replies are
matched by order, or bytes put behind bytes, a message that passes another has
consequences. The models take them: another's reply, an answer read from the middle
of a packet, a message for an entry that is gone. The properties that such a passing
breaks have it as a condition, `overtaken` or `disturbed`, and what may pass without
harm is not counted, but in the MySQL client, where every passing is. The others hold in any
order: that nobody is forgotten, that lists are cleared by a disconnect, the types, and
every liveness property.

### CtxRedis

One ctx `CCoroutineCtx_CRedis`, its coroutines, its session and the server.

| code | model |
|---|---|
| `m_vtRequest`, `m_vtWaitRequest` | the same names; entries with the connection they were sent on |
| `m_pClient`, `IsTransmit`, the handshake | `conn`, `gen`, `doomed`; `OnConnect`, `OnReceiveVerify`, `OnReceiveVerifyDB`, `Transmit`, `OnDisconnect`, `ConnectFails` |
| commands the server has not answered | `server` |
| messages to the ctx from network callbacks | `inbox`, taken in any order |
| `CCFrameRedisRequest` and the request's coroutine | `Request`, `DispathBussinessMsg`, `SendRequest`, `Finish` |
| chained commands | `Packets`, `left`, `NextSendPacket` |
| `ReceiveRedisReply`, with or without a request | `ReceiveRedisReply`, `ReceiveRedisReplyNoRequest` |
| `ReceiveRedisDisconnect`, its copy `vtDeleteRequest` | `ReceiveRedisDisconnect`, `FailRequest` for each of `snapshot`, `DisconnectEnd` |
| the message of `OnNetVerifySuccess` | `NetVerifySuccess`, `VerifiedResume`, `VerifiedEnd` |
| `OnTimer` | `OnTimerClose`, or `OnTimer`, `OnTimerResume`, `OnTimerEnd` |

A handler that resumes several coroutines is divided at the resumptions, as the code is,
with nothing else of the ctx in between (`handler`); the network threads may act there.
Two variables are auxiliary: `overlap`, a disconnect took requests of a later
connection, the finding `redis_mixup`; and `overtaken`, a reply or a disconnect was
handled before one that was pushed earlier. The news that a connection is verified may
come when it likes. Until one of the two is set `SentInStep` holds while a connection is
up: the list ends in what was sent on it, the queue of the ctx in the replies to the
first of it, and the server has the others. `RequestsInStep` is this, that nobody gets
another's reply, and, always, that no request is in the list when nothing can end it any
more (`NoOrphan`).

Assumptions about the library: what is sent on a session that is no longer up is
lost; the callbacks of a session come in order from one thread; a closed session reports
its end once.
Of the server nothing is assumed but that it answers each command at most once and
in order; it may stay silent. How long a request has waited is left open: the timer
may find any request too old. Not in the model: `ReleaseCtx` of the Redis ctx, and
replies that do not parse.

### CtxMysql

One ctx `CCoroutineCtx_Mysql`. The connection, the waiters and the rules for the
messages of the ctx are those of `CtxRedis`; the difference is the answer.

| code | model |
|---|---|
| `m_vtRequest`, `m_vtWaitRequest` | the same names; entries with the connection they were sent on |
| `m_smRecvData`, and `IsPacketFull` of the parser | a sequence of packets of which the last may be `part` |
| the first byte of a packet, as `ExecReply` and `QueryReply` tell it apart | `PacketKind` |
| where a coroutine is in `ExecReply` or `QueryReply` | `step`, with `NextStep` for what a packet makes of it |
| `DispathBussinessMsg_0_Exec` to `_3_Multi` | `DispathBussinessMsg`; `Chains` and `StatementEnds` for the sequel of `_3_Multi` |
| `OnReceive` in the ctx, with `GetPacketYield` of every coroutine it resumes | `ReceiveData`, `GetPacketYield`, `ReceiveDataEnd` |
| `ReceiveMysqlConnect`, `ReceiveMysqlDisconnect` | `ReceiveMysqlConnect`; `ReceiveMysqlDisconnect`, `FailRequest`, `DisconnectEnd` |
| `OnTimer` | `OnTimerClose`, or `OnTimer`, `OnTimerResume`, `OnTimerEnd` |
| `OnConnect`, `OnReceiveVerify`, `OnReceiveVerifyResult`, `OnDisconnect` on the network side | the actions of the same names, and `Transmit` |

What the server will answer is chosen when the statement is sent, from `Answers`, and
`OnReceive` lets the packets arrive in any portions, the last of them cut. Each packet
carries the statement it answers and `todo`, what is left of the answer from it on;
they say for the verdict in `ret` whose a packet is, and for `Continues` whether a
piece goes on where the buffer ends. A piece that does not, since a message passed
another, or what an old connection left was not thrown away, is read from the middle
of a packet: what it is read as is left open (`Garbage`, `GetGarbageYield`), a
length that is not allowed included, and how many packets it makes is bounded. Three
auxiliary variables say when the list and the stream cannot be in step: `overtaken`, how
often a message was handled before one that was pushed earlier; `overlap`, a
disconnect took requests of a later connection (the finding `redis_mixup` in this
client); and `unfit`, an answer the call was not made for, which
`QueryReply` gives up in the middle, so that the rest of it is left for the next
coroutine. The loops of the code end early when the front of the list is the entry
that was resumed; a new entry is taken to have another address.

### CtxRedisWatch

One ctx `CCoroutineCtx_CRedisWatch`. Its callers do not wait for a reply; what it
keeps is a map.

| code | model |
|---|---|
| `m_mapSub` and `m_mapPSub`, with `m_bInitSuccess` | `m_mapSub`, one entry for a channel or a pattern |
| `DispathBussinessMsg_*` of the four requests | `DispathBussinessMsg`, with `Subscribe`, `Unsubscribe` |
| `ReceiveRedisReply` | by kind of the reply: `ReceiveSubscribe`, `ReceiveUnsubscribe`, `ReceiveMessage`, `ReceiveError` |
| `NetVerifySuccess`, `OnTimer` | the actions of the same names |
| `ReceiveRedisDisconnect`, which is empty | `OnDisconnect` leaves the ctx alone |

`since`, `doubled` and `overtaken` are auxiliary: the connection an entry was made on,
since nothing is known of entries that outlive theirs; a channel that was unsubscribed
while it was being unsubscribed, for then the second reply erases the entry of the next
subscriber, and a message of the channel finds none; and a reply to an unsubscription
that passed something of its channel in the queue. The code uses what `find`
returned without a look at `end()`: that is `crashed`, where the model stops. The
coroutine that hands a message to the ctx that subscribed (`Corutine_Message`) is not
modelled.

### CtxServerCalls and RemoteCall

A coroutine calls a ctx of another server: its link sends a numbered request, a
coroutine of the center sends it on and waits, the other link carries it out, and the
answer goes back. Three processes and the two ends of two connections act at once.

| code | model |
|---|---|
| `m_pClient` and its state | `conn`, `gen`, `doomed` |
| `m_sessionID_Index`, `m_mapRequest` of the link | `index`; `Open`, by `pc` and `num` |
| messages for the link, packets for the center | `inbox`, `toCenter`, taken in any order |
| coroutine of `ReceiveData` at the center | `stage` |
| `m_mapRequest` of `CInterationCenterServerSessionCtx`, `CKernelMapRequestMgr` | `m_mapRequest`, `EndOfCoroutine` |
| `DispathBussinessMsg_*Request` of the link | `Request` |
| `ReceiveDisconnect`, `OnTimerCheckTimeout`, response and transfer packets | `ReceiveDisconnect`, `OnTimerCheckTimeout`, `ReceiveResponse`, `ReceiveTransfer`, `Exec` |
| `CheckConnect`, the callbacks of the session | `CheckConnect`, `OnConnect`, `OnDisconnect`, `ConnectFails` |
| `ReceiveData` at the center: for itself, for an unknown server, for a server | `ReceiveDataLocal`, `ReceiveDataNoServer`, `ReceiveDataTransfer` |
| transfer response, `OnTimer` of the session's ctx | `OnReceiveAnswer`, `Wakeup`; `OnTimer` |
| the gate's part, in short | `GateRegister`, `SessionRelease`, `OnReceiveUnbound` |

A server may end and begin again (`Restart`), with the numbers from the start, while
the ctx of its session lives on at the center. `reused` is auxiliary: a process calls
while something of its predecessor is on its way. The map of the center is then
indexed by numbers of two processes, and an entry can be overwritten. The
properties that depend on numbers say so; `EntriesWait` and the
count of executions do not depend on it.

`RemoteCall` is what a caller may count on: carried out at most once, told of a
success only after there was one, and a failure that leaves open whether it was, or will
be, carried out. `ServesCalls` is the refinement.

Assumptions: a packet that was sent on a connection that is lost may be lost or handled
later; the response on a connection that is lost does not arrive; each call has one
coroutine.

### CtxServerNames

| code | model |
|---|---|
| `m_mapNameToCtx` of the registry, names for all servers | `named` |
| coroutines from `Register` and `UnRegister` to the link | `ops`, `Tell` |
| `m_map`, `m_vtRequest` of the link | the same names |
| `DispathBussinessMsg_*` create, delete, get | `CreateMap`, `DelMap`, `GetMap` |
| the answers to Register, create and delete | `ReceiveRegister` with `SendNames`, `ReceiveError` |
| the reply of `GetCtxIDByName`, `ReceiveDisconnect`, `OnTimerCheckTimeout` | `ReceiveReply`, `ReceiveReplyNoRequest`; the same names |
| `m_mapNameToCtxID` of the gate | `known` |
| `GateRegister`, create, delete and get at the gate | `GateRegister`, `GateRegisterRefused`, `GateCreate`, `GateDelete`, `GateNoRegister` for either before the Register, `GateGetCtxIDByName` |
| names the center gives its own ctxs | `SelfCtxRegister`, `SelfCtxDelete` |

The gate takes the packets of a session, and the link its messages, in any order: each
is a coroutine of its own, pushed with a token of its own. A packet that is read before
the Register is refused, and the link closes the connection over the answer.
`disturbed` is auxiliary: the names of which a deletion was lost (while the link had no
connection, or one the center never read, or read before the Register) or of which news
passed other news (of the same name, from another owner, or from an older connection,
`Superseded`). `NamesInStep` excepts these, and for all others says what the
re-registration is for, in any order. `overtaken` is auxiliary too: a lookup, its reply or a
disconnect was passed by a later one of them, or a disconnect took lookups of a
later connection. Registrations and news of names may pass lookups.

### Ladder and TiaoZhanPaiMing

`TiaoZhanPaiMing` is the table of the ranking: places that hold pointers to cells,
cells that hold a player and the place, and a map from players to cells. Since the
same thing is stored three times, a move has to keep the three in step, and the
code asserts now and then that it did.

| code | model |
|---|---|
| `m_pPaiMing`, the buffer of cells, `m_mapData` | `paiMing`, `cell`, `mapData` |
| the records of `VTDBReadData`, the local `pPaiMing`, the last loop of `ReadFromDBData` | `stored`, `loaded`, `next` |
| what a caller holds between `TiaoZhan` and `AddDataByUseID` | `open` |
| `AddData`: newcomer to a place that is taken, to a free place, player on the table | `AddDataPush`, `AddDataFill`, `AddDataMove`, with `Place` for the `memmove`, the loop and the copy |
| `ReadFromDBData` | `ReadRecord` for each record, `ReadPlace` for each place |
| `DispathBussinessMsg_TiaoZhan`, `_AddDataByUseID` | `TiaoZhan`, `AddDataByUseID`, with `Target` for who is challenged |
| `DispathBussinessMsg_GetMoreThanSelf` | `MingCiBegin`, `MingCiEnd`, `Offer`, `OfferNum` |

`Ladder` is what a user of the ranking sees, the player at each place, and how
that may change: a player is put at a place no further back than its own, and those
between move down by one. `ImplementsLadder` is the refinement.

Assumptions: a caller first asks `TiaoZhan`, then reports the result with the
player or with the place it was given, at most once, and reports nothing when the
fight was lost; the database has one record of a player at most. `GetPaiMing`
answers 0xFFFF for who is not on the table; the model takes `PaiMingCount` for it,
which stands for the same as long as the table has fewer places than 0xFFFF. Left
out: the time stamps in the answers, and the plain reads, which change nothing.

### TiaoZhanRecords

The cache of challenge records. A record has a number; of each player the cache
keeps one record, the one that was read last.

| code | model |
|---|---|
| `m_mapTiaoZhan` of one type and challenge | `m_mapTiaoZhan`; `id` tells an element from the one that was there before |
| the reference `userIter` across `ReadFromDB` | `userIter`, `IsThere` |
| `GetTiaoZhanStoreData` up to the read, and after it | `GetTiaoZhanStoreData`; `ReadSucceeds`, `ReadFails` |
| `Ctx_GetTiaoZhanStoreData`, which copies an element into the struct of its caller or leaves that as it was, and returns true in both cases | `ReturnWith`, `ReturnWithout`; `storeData` is the struct |
| `OnTimer` | `OnTimer`, which takes any elements, since time is left open |

The function that reads is bound by a user of the frame. It gets player, type, challenge
and number in the order of line 58, which only hands them on: the declaration names them in
another order, which changes no value. The model says that what it brings depends on
player and number (`FromDB`), not that it brings the right text. It is given
the ctx to come back to, so the coroutine is taken to leave the ctx and to return, and
then to write the record and hand it on in one handler. The struct of the caller is taken
to be a new one, and the number of a record not to be 0, which a new struct and the
element that was just made have: so a caller can tell by the number whether it got a
record, though not by the result. `crashed` is a write through a reference to an element
that was erased, by the timer or by the failed read of another coroutine. The code does
not prevent it, and the model reaches it and stops there.

### FrameFilter

The filter between the bytes of a session and the packets the ctx is told of.

| code | model |
|---|---|
| `m_data`, `m_nPacketLength` | the same names; a byte is known by its connection, packet and place |
| `OnPreSend` of the other side | `OnPreSend`, `Bytes` |
| `OnPreReceive`, with or without data | `OnPreReceive`, `OnPreReceiveNext`, by the answer of `IsPacketFull`: `HeaderNoEnough`, `HeaderNotAllowed`, `HeaderFind` |
| `ResetHeader` | `ResetHeader`: the bytes of the packet go, the length is 0 |
| `ResetPreSend` | `ResetPreSend`, at the start of the next connection |

`UnSerialize` is the length that was sent, if the four bytes are a head; otherwise
they may be any number. Assumptions about the library: as long as the answer is
`PACK_FILTER_NEXT` it calls again without data, at `PACK_FILTER_FAIL` it ends the
connection, and it calls `ResetPreSend` before the filter is used for the next one;
bytes arrive in order and in any portions. `stale` is auxiliary: a connection began
with the length of another, see the finding `filter_reset`.

### CtxGate

The gate of the center: `CCoroutineCtx_GateInteration` with its base
`CCoroutineCtx_CCFrameServerGate`, the network side of its sessions, and the ctxs
it creates for them. Three parties act at the same time: the network threads, the
handlers of the gate, and what goes on in the ctx of a session. The third is there
because `Ctx_ExeCoroutine` returns (`coroutine_ctx.cpp:197`) before the lines that
would yield back, so what a handler of the gate does after it has called the
session's ctx is done in that ctx.

| code | model |
|---|---|
| a session: its connection, the Register it sends, `m_ctxID` | `net`, `peer` and `asked`, `ctxID` |
| `SkynetPlusRegisterResponse` sent on it | `answers` |
| coroutines on their way to the gate, to the ctx of a session | `gateMsgs`, `ctxMsgs` |
| registry and `m_bRelease` of the ctxs of sessions | `life` |
| `m_mapKeyToCtxID`, `m_mapGlobalKeyToSelfCtxID`, `m_vtQueue` | `byKey`, `global`, `delayQueue` |
| `m_nDelayDeleteTime` is not 0 | `delayed`, chosen in `Init` |
| `OnReceive`, `OnDisconnect` | `ReceiveRegister`, `ReceiveData`, `OnDisconnect` |
| `DispathBussinessMsg_4_ReceiveData`, Register, with `Create` | `RegisterRefused`, `Register`; lines 119-123 are `RegisterTail` |
| `SessionRelease` of both classes | `SessionRelease`; lines 144-151 of the base are `ReleaseTail`, then `EraseEntry` or `EraseTwice` |
| `OnTimer` | `OnTimer` |
| `DispathCtxMsg` in the ctx of a session | `Take` in the tails and `HandleData`; `UnRegister` |

Assumptions: an access to a map of the gate is atomic, although the gate and the
tails access it from different threads without a lock; a server sends Register once
on a connection; handles are not used twice while the model runs; the drain of a
released ctx and its end are one step (`CtxScheduler` has them apart). A key is in
`delayQueue` once, which is the same for `OnTimer` as more often; since
`m_releaseTime` is never set and `IsHaveReleaseTime` asks whether it is 0, the timer
takes every key. `early` is auxiliary: a server came before the gate had done with
its last session. Left out: `Find` and `Forward`, which only read, the names, and
requests that do not parse.

## 4. Runs

| run | instance | what it shows |
|---|---|---|
| `sched` | with a life: 2 ctxs of which one is there at start, 1 handle, 2 workers, 2 clients, 1 message, push and release. Booted: 2 ctxs of the start, one of them stateless and bound to a worker, 2 workers, 1 client, 2 messages, push, release and kick | the types, the single consumer, no lost wake-up, and the inductive invariant of the proofs, with handles reused, ctxs destroyed under a worker and pushes to a dead ctx. Until a handle is reused, and booted always: handlers of a ctx run one at a time, in a registered ctx, and the scheduler implements `CtxMailbox` |
| `frame` | scheduler: 1 ctx, 2 clients that push one of 2 messages each, 2 workers that sleep and wake. Coroutines: 2 of them, which yield 3 times, 2 ctxs, a thread outside. Filter: packets of 0 to 3 bytes of which 1 and 2 are allowed, 2 on each of 2 connections | every accepted message leaves the queue, also when two additions to its counter meet a worker that gives it up, and when an event is lost. A coroutine is in one place, runs in the ctx it asked for, and ends or is lost in a way the code accepts. Packets are delivered as they were sent, none is withheld, unless a length was left behind |
| `sched_reuse` | as the first part of `sched`, with 2 messages | finding: two workers in handlers of one ctx |
| `sched_release` | one ctx, release | finding: a release without effect |
| `clients` | four parts, with 2 connections each. Redis: 2 coroutines, one with two commands, one pinged, handshake with AUTH and SELECT. MySQL: a statement and a ping, 2 messages with data in the queue, one message passes another; and a chain of a query and a statement, a ping, 3 kinds of answers, in order. Watch: 2 subscribers and an unsubscriber of a channel, a message | Redis: lists are cleared by a disconnect and never orphaned, and every request ends, in any order of the messages; in step with the connection as long as none is overtaken. MySQL: the same of list and packets, and every statement ends. Watch: messages find their entry and entries are in step with the server, unless the reply to an unsubscription passes or two of these are under way; waiters are told |
| `links` | calls: 2 servers, 2 calls of one, of which one may be for the center, 2 connections and a restart of the caller's server. Names: a server, a name, 3 changes, 2 connections. Lookups: 2 of one name, 2 connections | calls: own answers only, no dead entries at the center, nobody who waits is lost, the refinement to `RemoteCall`, every call ends. Names, in any order of packets and messages: the center knows them unless they were disturbed. Lookups get their own reply until one is overtaken, and end in any order |
| `redis_mixup` | the Redis part of `clients` | finding: a reply is given to another caller |
| `paiming` | 4 places, 4 players with every choice of stored places, reach 2, 2 fights of 2 players | the table, the cells and the map agree, only the winner of a fight passes anybody, the inductive invariant of the proofs, and the refinement to `Ladder`; on a second table of 12 places with 2 players, reach 5 and no fights, that the offer holds every target that would be accepted and fits the room of the caller; and of 4 coroutines that ask for 3 records of 2 players, that each is left with its own record or with nothing |
| `filter_reset` | the filter of `frame` | finding: a connection begins with the length of a packet of the last one |
| `paiming_twice` | 4 places, 2 players, both fights of one of them | finding: a cell that does not know its place |
| `gate` | 3 sessions, 3 ctxs, a key that is refused and two that are not, 2 names of servers, with and without delay | the map of the gate and the registry stay in step, a Register is answered once, a server that came in good time is found under its key, and the inductive invariant of the proofs |
| `gate_release` | 2 sessions, 2 ctxs, one key that is not refused, otherwise the same | finding: a ctx is released although another session has it |

*Composed runs.* `MCScheduler`, `MCClients`, `MCServerLinks`, `MCFrame` and `MCRanking`
put instances side by side that do not act on each other: `part` is chosen in the
initial state, and a behaviour is one of a single module, while the others stay at their
beginning. A module that is extended (`CtxRedis` in `MCClients`, `CtxServerCalls` in
`MCServerLinks`, `CtxCoroutine` and `FrameFilter` in `MCFrame`, the ranking and its
records in `MCRanking`) has its properties checked as they stand there, and these are
the ones the proofs name; a module that is instantiated has them checked under a
condition on `part`, or with variables of its own. `MCClients` has two parts of
`CtxMysql`, and `MCServerLinks` two of `CtxServerNames`, which is divided into what
nobody looks up and what nobody names: names and lookups share nothing but the
connection. Fairness of a disjunction over the parts is the fairness of each module,
since `part` never changes. `clients` has 0.5 million distinct states, `links` 1.2
million, `sched` 2.9 million.

*Bounds.* Two workers and two clients are what it takes for each race of the protocol:
two pushes on one counter, a push against a pop, a release against both, two workers
with one queue. Two pushes, which `frame` has with one ctx and `sched` has by a push and
a release, and `MaxAddTimes` 2 let a counter move while a worker holds its value. One
handle for two ctxs makes every new ctx reuse the handle of a dead one. `PacketNumber` 1
makes a worker rotate after each message. Two coroutines, each of which yields three
times, are enough for one to wait while the other comes from outside or from a second
ctx, for a failure between two yields, and for a ctx to end with one in its queue and
one in its list. The clients have two connections, which is what it takes for the end of
one to be handled when the next is in use, and for an entry, a packet or a message of
one connection to meet the next. In the Redis client and the watch any number of
messages pass each other. In the MySQL client one does (`MaxOvertaken`), of at most two
with data (`MaxData`), which takes an answer out of order, or past the connect or the
disconnect, and what is then read from the middle of a packet is one packet of any kind
and perhaps a part (`MaxGarbage`): enough for every way a request can be answered
wrongly, fail or wait for more. `StreamInStep` claims nothing from the first passing on,
so for it one is as good as many; and the types, which do claim something, are proved
for any number. The long answers are in the part in which none passes; there a message
with data waiting while another is handled is enough for every division of an answer,
since what was read is joined in the buffer. Two calls of one server meet in both maps;
the second process or connection of that server is what a late answer, a number used
again or a disconnect handled late can be confused with. The other server keeps its
connection number, and may lose that connection. Two lookups are what it takes to mix
them up, three changes of a name to let news pass each other and the last be news that
counts. Four places with four players give the ranking full and partly free tables, a
player who is pushed off while its fight is open, and a target beyond the reach; two
fights are what it takes for a table to change between a challenge and its report, and
more of them only repeat that change. Twelve places and the reach of five, the smallest
that `GetMoreThanSelf` takes and the one for which its room is tightest, put the window
at both ends and in the middle of the table. Two packets on two connections are what it
takes for a packet to arrive with the end or the beginning of another, and for what is
left of one connection to meet the next. Three requests for two records of one player
let two reads meet in one element, an element be made again while a read is under way,
and a record be found that was read for another. Three sessions on one key are one
before, one that overlaps with its end, and one that meets what the two have left; with
two names the overlapping one may also be another server. Two keys that can be
registered give the timer more than one to take, and put a ctx of one key beside that of
another.

*Fairness.* `FrameDelivered` assumes that a thread inside an operation goes on
(workers loop until the process ends; a wait ends after 1000 ms at the latest) and
that the lock-free library serves every element of a queue that is popped again
and again (a consumer of it rotates over the producers). No fairness is assumed
of clients that begin something, nor of the event. `CoroutinesEnd` assumes that a thread
goes on with what it runs, that messages are dispatched, and that timers keep coming by
which the clients resume who waits. `ClientsEnd` assumes that
each ctx handles its messages, that its timer fires again and again, and that a
session that was closed reports its end; the server may never answer.
`CallsEnd` and `LookupsEnd` assume the same of their
ctxs, and nothing of the Redis or MySQL server, of the center or of the other server.
That a ctx handles its messages is what `FrameDelivered` shows of the scheduler. Where
a request may be made again and again, or other messages may come first, the fairness
of a message is strong; the queue serves every message in the end.

*Mutants.* For each property of a passing run the modules define an operator
marked "Mutated", a plausible bug in the code, which the property rejects.

## 5. Proofs

`CtxSchedulerProofs` proves, for every set of ctxs, workers, clients, messages and
handles and every packet number:

* `Invariance`: `Spec => []IInv`;
* `TypeCorrect`, `ConsumerIsSingle`, `NothingStranded`: the type invariant,
  `SingleConsumer` and `NoMessageStranded`.

* `OneThread`: as long as no handle was given to a second ctx, two workers never run
  handlers of one ctx, and a handler runs in a registered ctx only;
* `RefinesMailbox`: as long as that is so, every step is one of `CtxMailbox` or none;
* `BootedIsMailbox`: if all ctxs are there from the start, `Spec => ImplementsMailbox`.

The only assumption is `ConstantsAssumption`, which TLC evaluates in the runs of
the module.

`SingleConsumer` alone is not inductive. That a client that counts from zero may
hand the queue over needs *nobody has a queue whose counter is zero* (`CountInv`);
that a worker may reset the counter needs that it has the queue it works on
(`ControlInv`), and that this queue is the queue of the ctx it was found by needs
the registry (`HandleInv`). For `NoMessageStranded` the point is the
compare-and-swap: `GiveUpInv` says that a message in a queue whose counter is
zero, or equal to the value a worker is about to compare it with, is one whose
sender has still to count it. `IInv` is the conjunction. The proof is one lemma
per action, and under each one step per conjunct the action can disturb.

The condition of the first two of these is `HandlesDiffer`, that no two ctxs have or had one
handle. It is a state predicate and once false stays false (`DifferBefore`), so it may
be used before a step when it holds after it. Without it they are false (`sched_reuse`).
With it, `DispatchInv` says that the ctx a worker has found is the one whose queue it
holds, and that who may unregister it has it drained. For the mailbox one needs
`MessageInv` as well, that a message not yet in a queue is nowhere else: a message is
put in once.

`TiaoZhanPaiMingProofs` proves, for every table, reach and set of players and
fights:

* `Invariance`, `TypeCorrect`, `TableConsistent`: the inductive invariant, the
  types, and `Consistent`;
* `WinnerOvertakes`: the action property `OnlyWinnerOvertakes`;
* `RefinesLadder`: `Spec => LadderOf!Spec`;
* `OffersCover`, `OffersInRoom`: the two properties of the offer.

The run checks these two for the long table, as `LongOffers`.
They assume `OneFight`, that no player has two fights open. The code does not see
to it, and `paiming_twice` shows what happens without it. The argument: `PlaceFacts`
says what one move does to the cells and `AddDataMoves` that each case of `AddData`
is one such move, if the place asked for is not behind the player. That this holds
when a fight is reported is `FightInv`, the part of `IInv` that makes it inductive:
the target of an open fight is never behind its challenger. It survives the fights
of others because of `AheadStays`, that a move keeps the order of everybody but the
winner. While the table is loaded, `LoadInv` says that the places still to be filled
are free. From `TableStep`, that every change of the table is such a move,
`OnlyWinnerOvertakes` and the refinement follow.

`CtxGateProofs` proves, for every set of sessions, keys, names and ctxs and with
and without delayed deletion:

* `Invariance`, `TypeCorrect`: the inductive invariant and the types;
* `MapInStep`: `Spec => []CtxInStep`;
* `OneAnswer`: `Spec => []AnsweredOnce`;
* `ServerFound`: `Spec => []Reachable`.

The only assumption is `GateAssumption`, that `None` is none of the other values.
`CtxInStep` needs `KeysApart`: two keys never have the same ctx, so that the erase
of one entry, or the timer, does not leave a released ctx under another. It needs
`ErasingReleased` as well, since an entry is erased only after its ctx was released.
`AnsweredOnce` follows because the ctx of a key is always found when the coroutine
goes to it, whatever state of its end it is in (`CtxIsFound`, from `CtxInStep`); the
second answer of the failure path is never sent. `Known`, that who has a coroutine
under way has connected, gives the types.

`Reachable` holds until a server comes early, and needs to know who can still disturb an
entry. `OneActive`: of a key at most one session has anything left to be done.
`NothingLeft`: when a session that stays is there, no delayed deletion of its key is
pending and its ctx is not released. `KeyIsOwn` is `Reachable` with the answer still on
its way. Under them lie `BoundOnce`, that a session registers before it can be released,
and `OfItsKey`, that what waits in a ctx is of the key the ctx was made for.

`CtxServerCallsProofs` proves, for every set of servers and calls, and every number of
connections and restarts:

* `Invariance`, `TypeCorrect`: the inductive invariant and the types, to which
  belongs that as many numbers are enough as there are calls;
* `AnswersAreOwn`: `Spec => []OwnAnswer`;
* `MapKept`: `Spec => []MapInStep`;
* `CallsServed`: `Spec => ServesCalls`, the refinement to `RemoteCall`.

The assumption is `ServerCallsAssumption`. The parts of `IInv` follow a call on its way:
what its caller knows (`CallerInv`), that a request reaches the center before its
coroutine begins (`RequestInv`), that a call is about to be carried out in one place and
was not yet (`OnceInv`), and that an answer is to a call that was made, a success to
one that was carried out (`AnswerInv`). These do not depend on numbers, and are enough for
"at most once" and "no false success", also across restarts. That an answer reaches
its own caller does: calls of one process have different numbers (`NumberInv`), a
response has the number of its call (`ResponseInv`), and of two calls with one number at
most one is on its way (`ApartInv`). The last two, and with them `OwnAnswer`, are claimed
only until `reused`, a process gives out a number while a call of its predecessor with
that number is under way; nothing in the code prevents that. `RemoteCall`'s own step has
the same condition. `IndexInv` bounds the counter by the number of calls that were made.

`FrameProofs` is about two modules. Of `CtxCoroutine` it proves, for every set of ctxs and
coroutines and any number of yields:

* `Invariance`, `TypeCorrect`: the inductive invariant and the types;
* `CorutineInOnePlace`: `Spec => []InOnePlace`;
* `RunsInCurrentCtx`: `Spec => []InCurrentCtx`.

`InOnePlace` counts places, which is no help in a step. `PlaceOK` says the same by
pairs: a coroutine in two places is in one, and it is in some exactly if it has
begun and neither ended nor got lost; `PlacesCounted` leads from there to the number. A
coroutine that has put itself into a list is for a moment also in the frame that
resumed it, which is not counted (`Ghost`); `StackInv` says that only the frame on top can
be in that state, and that the list still has it. `CurrentOK` is what makes
`InCurrentCtx` inductive: in a queue a coroutine may be in no ctx's name but one it
is not looked for in, so the name is compared where it runs and where it waits.
`LostInv` says who may be lost.

Of `FrameFilter`, `FrameProofs` proves, for every set of lengths, every limit, and any
number of packets and connections:

* `FilterInvariance`, `FilterTypeCorrect`: the inductive invariant and the types;
* `FramesWhole`: `Spec => []FramedUnlessStale`.

The invariant is that the bytes in the filter, followed by those on their way, are the
packets that were not delivered, one after the other. To say that by concatenating packets
would take induction. `Cut` says instead that there is a function `start` that
gives the place of each packet, each begins where the one before ends, and has its own
bytes; taking a packet off the front, or putting one at the end, changes that function at
one place. The assumption is `FilterAssumption`, that lengths and bounds are numbers.

`CtxRedisProofs` proves, for every set of requests, whatever commands they chain, every
handshake and any number of connections:

* `Invariance`, `TypeCorrect`: the inductive invariant and the types;
* `ClearsOwn`: `Spec => []DisconnectClears`;
* `RepliesInStep`: `Spec => []RequestsInStep`.

Messages are taken in any order in all of them.

The assumption is `RedisAssumption`. `IInv` has two parts. `Base` holds always: the
types, that the coroutines in the lists are different and where the lists say
(`SentInv`), that before a connection is up nothing was sent on it and after its end no
reply of it comes (`NetInv`), `DisconnectClears`, and `NoOrphan`. `Matched` holds until
`overlap` or `overtaken`. Replies carry no number, so what must be shown is which reply
meets which front. `Block` says that what was sent on one connection is together in the
list, that its replies are together in the queue, and that the second begins where the
first does. The queue is that of `CtxInbox`, in the order of the pushes, so when a
message is taken that passes nothing but news of a connection the block stays one.
`FrontOn` says that when a reply of a connection may come up the front of the list was
sent on that connection, unless a disconnect comes up before. It survives a disconnect
because one that takes only its own requests leaves no reply behind it that belongs to
something in the list (`LoopInv`). For the connection that is up, `InStepOn` adds what
the server has still to answer. Sequences are handled by facts about their elements
(`Longer`, `Rest`), with the ends of a block as witnesses, so no induction is needed.

The last part of `CtxRedisProofs` is about the watch, through the instance `Watch` of
`CtxRedisWatch`. It proves, for every set of channels, patterns and requests, and any number
of connections and messages:

* `WatchInvariance`, `WatchTypeCorrect`: the inductive invariant and the types;
* `MessagesFindEntries`: `Spec => []MessageFindsEntry`;
* `EntriesInStep`: `Spec => []SubscribedInStep`.

What it takes of the constants is `WatchConstants`, a hypothesis of each theorem.
Messages are taken in any order. Only the reply to an unsubscription erases an entry.
`LastRequest` and `LastMessage` say that nothing of the channel is pushed behind an
unsubscription, or the reply to it: no request, no reply, no message, and the server no
longer sends any. When that reply is taken and passes nothing of its channel, nothing of
it is left in the queue; whatever else passes, the entry is not erased. So until
`overtaken`, of a channel without entry nothing is on its way (`Nowhere`), and a message
finds its entry. A new entry may be made on any connection while messages of an earlier
one are still in the queue; they do no harm because the new entry is only made when
nothing is there. For the second theorem, `Ready` and `Known` tie the entry to what the
server sends: it is subscribed, or is going to be, or the entry is going to be erased,
or the server refused and the connection is being closed. Both theorems are stated in
`CtxRedisWatch`; the run `clients` checks the same two formulas through the instance in
`MCClients`.

`CtxMysqlProofs` proves, for every set of requests and their statements, all answers that
the protocol allows, and any number of connections and messages:

* `Invariance`, `TypeCorrect`: the inductive invariant and the types;
* `EveryAnswerReachesItsRequest`: `Spec => []StreamInStep`.

The hypothesis is `MysqlConstants`, which TLC evaluates on the constants of `clients`
(`MysqlAssumption` in `MCClients`). It says what an answer is: one that fits its call
takes `NextStep` from the first step of the call to the end with the last packet and
not before (`Reads`), and the answer to a ping is one packet.

What was received, what is in each message of the ctx and what is on the wire are pieces
of one stream. The borders between them are anywhere, also in the middle of a packet, of
which then the front ends one piece and the rest begins the next. `HasCut` says that,
until a message is `overtaken`, a sequence of whole packets is cut into these pieces:
there is a function that gives how many packets are before each piece. A message that
arrives, is appended to the buffer, or a packet that is taken changes that function at
one end or joins two pieces; most of the lemmas say so. `InStep` is what the stream must
be to suit the list: the packets of one answer are together and in order, the answers
are in the order of the entries of that connection, and each entry whose answer has
begun is at the step from which what is left reads to the end. Then the packet that
comes up is of the entry in front (`FrontIsAsked`), and that answer ends exactly when
its last packet is taken (`AnswerGoesOn`, `AnswerEnds`). `StreamInv` says this of each
connection, and needs the rest of `IInv`: the messages come connection after connection
(`MessagesInv`), nobody is in the lists twice (`ListsInv`), and the entries are of
connections that are up or have their disconnect in the queue (`EntriesInv`). Once a
message was overtaken, `IInv` is the types, garbage in the buffer included, and
`LoopInv`, that a disconnect fails those who are in the list. While a disconnect is
handled, `StreamInv` says instead that nothing is on its way that a request could take.
That each entry has a packet in some piece, the first half of `StreamInStep`, takes the
first border behind that packet; `LeastOne`, from the well-foundedness of the natural
numbers, gives it, in place of an induction. The theorem is stated in `CtxMysql`; the
run `clients` checks the same formula through the instance in `MCClients`.

`CtxServerNamesProofs` proves, for every set of servers, names and lookups, and any
number of connections and changes:

* `Invariance`, `TypeCorrect`: the inductive invariant and the types;
* `NamesKnown`: `Spec => []NamesInStep`;
* `LookupsOwn`: `Spec => []LookupInStep`.

The hypothesis of each is `NamesConstants`: center and servers are different, every
lookup has a server and a name. Packets and messages are taken in any order. `IInv` has
three parts. `SessionInv` says that a session registers once, and is new until the gate
has read that, whatever it read before. `NamesInv` is about a name that is not
`disturbed`. Then nobody else has to do with it (`OnlyOwner`), and what the server has
differs from `m_map` of the link by the one coroutine on its way (`LinkHas`). If the
link has the name and all names were sent again on the present connection (`Announced`),
the center knows it or a creation on that connection has no deletion behind it
(`CreateComes`); this survives a creation that is read before a deletion pushed earlier,
or a deletion before a creation, because either disturbs the name. If the link does not
have it, a deletion is on its way if the center knows it, and each creation that has
none behind it is on a connection of which a later one was read (`Superseded`), or has a
deletion on a later one (`DeleteComes`); packets of an old connection may still be read
after those of a new one, which is where this would go wrong but for `disturbed`.
`LookupsInv` holds until `overtaken`. Of one connection the list, the replies in the
queue and the packets the gate has not answered are in the same order (`InOrder`), what
will be answered is listed (`AllListed`), and between the replies of two connections
comes the end of the first (`EndBetween`). So the front of the list is the lookup of the
reply in front (`FrontsMatch`), and `ReceiveReplyNoRequest` cannot happen. The
connection of a reply is auxiliary in the model, for this argument. As with the watch,
both theorems are stated in `CtxServerNames`, and the run `links` checks the same two
formulas through the instance in `MCServerLinks`.

`TiaoZhanPaiMingProofs` ends with `RecordsTypeCorrect` and `AskersGetOwn`, the types of
`TiaoZhanRecords` and `OwnRecord`, for any coroutines, records and elements. The point
is that the number of an element and its record are always written together, by whoever
comes back, so an element that is found by its number has the record of that player and
number even when another coroutine read it (`ElementsFilled`); and that the struct of a
caller is written once, when it returns (`EmptyBefore`). What is behind a write to an
erased element is not claimed.

What stays with TLC:

* Liveness: `FrameDelivered` and `CoroutinesEnd` of `frame`, `ClientsEnd` of `clients`,
  `CallsEnd` and `LookupsEnd` of `links`. The provers have no rule for fairness and `ENABLED`.
* The type invariants of composed runs, `FrameTypeOK`, `LinksTypeOK` and `ClientsTypeOK`.
  Their parts are theorems: `TypeCorrect`, `FilterTypeCorrect`, `WatchTypeCorrect`.
* `LongOffers`, the two properties of the offer on a particular long table; for every
  table they are `OffersCover` and `OffersInRoom`.

## 6. Findings

* `sched_release` - `DispathCtxMsg` tests `m_bRelease` once, before `MQPop`. A
  release between the test and the read of the counter is overlooked, and the
  queue is given up. The ctx stays registered until somebody pushes to it.
* `sched_reuse` - between the last `MQPop` of the drain and `UnRegister` a client
  that holds a reference can push; the queue of the dead ctx is back in the
  manager, its handle is given to a new ctx, and two workers run that one. When
  the dead ctx is destroyed first, a worker reads freed memory.
* `paiming_twice` - `AddData` writes the place it was asked for into the cell of a
  player who is on the table already, although the cell is only moved when that
  place is further up. A player with two open challenges who wins the better one
  first gets a cell that does not know its place; the next challenge then finds
  the cell of somebody else, or moves the wrong cells.
* `gate_release` - the check of `SessionRelease` that the key still belongs to the
  session is made before the call of the ctx, the release after it. When the server
  comes back in between, its new session gets the same ctx, which is then released
  and, with the registration, erased. The server stays connected; its requests are
  dropped with the ctx. A delayed deletion does the same, at the next timer.
* `filter_reset` - `ResetPreSend` empties the buffer and leaves `m_nPacketLength`,
  which belongs to the derived class. When a connection ends in the middle of a
  packet, or at one that is not allowed, the first packet of the next connection is
  cut with that length, or refused. The comment of the function says that it resets
  the state of the filter (`net/ccframedefaultfilter.h:53`).
* `redis_mixup` - `ReceiveRedisDisconnect` fails every request in the list. When
  the timer has reconnected before the message is handled, requests of the new
  connection are failed too, and from then on replies go to later callers. It needs no
  message that passes another: `OwnReply` leaves those behaviours out.

## 7. What is not modelled

See the components of `PROJECT.json`. Generated code, output, the loading of
libraries and lua glue will stay outside, and so do the timer library, the log and the
thread state, which are for display, and the http server, whose requests share nothing
but a map of functions. Of the clients and the link, what is left out is
`ReleaseCtx`, the content and length of packets, the functions that serialise a call,
and Redis replies that do not parse. All modules of the plan are written, and every safety
property the runs check is proved, but for those named at the end of section 5.

Some things met while modelling that no run is about:

* Messages of one network thread may be handled in reverse (`ctx_msgqueue.cpp:22`). Two
  replies of Redis, or two replies of `GetCtxIDByName`, then go to each other's callers, two
  pieces of a MySQL answer are read as packets that nobody sent, and a message of a
  channel that is handled after the reply to its unsubscription is looked up in vain. The
  models take these steps, and the properties say what they break and what not.
* The element of a record may be erased, by the timer or by the failed read of another
  coroutine, while `GetTiaoZhanStoreData` reads it; the record is then written to freed
  memory (`paiming/ctx_tiaozhanpaiming_record.cpp:62`). The model reaches that write.
* A name that is created or deleted on a connection before its Register is read is
  refused, and the link closes the connection over it
  (`net/ctx_netclientsevercommu.cpp:173` and `:183`).
* When a connection ends before its Register is handled, `OnDisconnect` sends no
  release, and the gate then binds a session that is closed: `ASSERT(m_ctxID == 0)`
  (`net/ccframeserver.h:58`) fails when it is destroyed. The model takes the step.
* Two servers with different names can both pass the test of
  `src/dll/interationcenter/ctx_gateinteration.cpp:108`, because the first is
  published only after its `Init`. The model takes the step.
* A packet beyond `m_maxPacketSize` is never taken out of the buffer
  (`net/ctx_mysql.cpp:803`), so the next request of the connection fails on it as well.
  What is left in the buffer when no request waits stays there until
  `ReceiveMysqlConnect`.
* `DispathBussinessMsg_3_Multi` goes on with the next statement after one that was
  answered with an error packet (`net/ctx_mysql.cpp:770`). It asks `IsTransmit` twice,
  with nothing in between; the model asks once.
* The comments at `net/ctx_redis.h:155` and `:157` speak of three parameters where
  `net/ctx_redis.cpp:488` and `:520` take one.
* Two coroutines that `ctx_handle.cpp:70` and `:110` start for one name may pass each
  other on the way to the link, which leaves the center with a name nobody has, or
  without one that somebody has.
* The names of a server stay at the center when it leaves; and `GateDelete`
  (`src/dll/interationcenter/ctx_gateinteration.cpp:161`) erases a name whoever owns it.
* The lookup of the server at the center is a call of the gate, so what follows it in
  the coroutine of the request runs in the gate's ctx, and accesses the map of the
  session's ctx from there. Each access is taken to be atomic.
* `Corutine_Message` of the Redis watch keeps a pointer into `m_mapSub` until it runs and
  across a call of another ctx (`net/ctx_redis.cpp:622`, `:647`, `:656`); the reply to an
  unsubscription may erase the entry meanwhile.
* `ReadFromDB` is declared with the type, the challenge and the player
  (`paiming/ctx_tiaozhanpaiming_record.h:49`) and called with the player, the type and the
  challenge (`paiming/ctx_tiaozhanpaiming_record.cpp:58`); since it only hands them on, what
  the bound function expects decides.
* `Ctx_GetTiaoZhanStoreData` returns true with an untouched `storeData` when the read
  failed (`paiming/ctx_tiaozhanpaiming_record.cpp:70`). `ResetGetTime` is never called, so
  an element goes two hours after it was made, however often it is used.
