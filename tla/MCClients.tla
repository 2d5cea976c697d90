------------------------------ MODULE MCClients ------------------------------
(***************************************************************************)
(* The three ctxs whose coroutines share one connection to a server, for   *)
(* TLC: a behaviour is one of CtxRedis, of CtxMysql or of CtxRedisWatch,   *)
(* and part says which.  Those of CtxMysql have short answers whose pieces *)
(* pass each other ("mysql"), or long ones in order ("queries").  CtxMysql *)
(* and CtxRedisWatch have most of their state in common.                   *)
(* What a part does not have stays as it is: CtxRedis at its beginning, so *)
(* its properties are those of its own behaviours.                         *)
(***************************************************************************)
EXTENDS MCCtxRedis

CONSTANTS m, p, s1, s2, u1, k

MysqlCalls   == (m :> <<"exec">>) @@ (p :> <<"ping">>)
MysqlAnswers == {<<"ok">>}
QueryCalls   == (m :> <<"query", "exec">>) @@ (p :> <<"ping">>)
QueryAnswers == {<<"ok">>, <<"error">>, <<"head", "field", "eof", "row", "eof">>}
WatchOp      == (s1 :> "subscribe") @@ (s2 :> "subscribe") @@ (u1 :> "unsubscribe")
WatchOf      == [r \in DOMAIN WatchOp |-> k]

VARIABLES
  part,
  nConn, nGen, nDoomed, nInbox, nHandler, nWaitRequest, nPc, nRet,
  nOvertaken, nSnapshot, nRequest, nOverlap, nServer,
  wire, m_smRecvData, call, step, unfit,
  subscribed, published, m_mapSub, crashed, since, doubled

both == <<nConn, nGen, nDoomed, nInbox, nHandler, nWaitRequest, nPc, nRet,
          nOvertaken>>
mysqlOnly == <<nSnapshot, nRequest, nOverlap, wire, m_smRecvData, call, step, unfit>>
watchOnly == <<nServer, subscribed, published, m_mapSub, crashed, since, doubled>>
all == <<part, vars, both, mysqlOnly, watchOnly>>

Mysql == INSTANCE CtxMysql WITH
  Req <- {m, p}, Calls <- MysqlCalls, Answers <- MysqlAnswers, MaxConn <- 2,
  MaxData <- 2, MaxOvertaken <- 1, MaxGarbage <- 1,
  conn <- nConn, gen <- nGen, doomed <- nDoomed, inbox <- nInbox, handler <- nHandler,
  m_vtWaitRequest <- nWaitRequest, pc <- nPc, ret <- nRet, overtaken <- nOvertaken,
  snapshot <- nSnapshot, m_vtRequest <- nRequest, overlap <- nOverlap
Queries == INSTANCE CtxMysql WITH
  Req <- {m, p}, Calls <- QueryCalls, Answers <- QueryAnswers, MaxConn <- 2,
  MaxData <- 1, MaxOvertaken <- 0, MaxGarbage <- 1,
  conn <- nConn, gen <- nGen, doomed <- nDoomed, inbox <- nInbox, handler <- nHandler,
  m_vtWaitRequest <- nWaitRequest, pc <- nPc, ret <- nRet, overtaken <- nOvertaken,
  snapshot <- nSnapshot, m_vtRequest <- nRequest, overlap <- nOverlap
Watch == INSTANCE CtxRedisWatch WITH
  Channel <- {k}, Pattern <- {}, Req <- {s1, s2, u1}, Op <- WatchOp, Of <- WatchOf,
  MaxConn <- 2, MaxMessages <- 1,
  conn <- nConn, gen <- nGen, doomed <- nDoomed, inbox <- nInbox, handler <- nHandler,
  m_vtWaitRequest <- nWaitRequest, pc <- nPc, ret <- nRet, overtaken <- nOvertaken,
  server <- nServer

ASSUME MysqlAssumption == Mysql!MysqlConstants /\ Queries!MysqlConstants

RedisHas == part = "redis"
MysqlHas == part = "mysql"
QueryHas == part = "queries"
WatchHas == part = "watch"

NoMysql ==
  /\ nSnapshot = 0 /\ nRequest = 0 /\ nOverlap = 0
  /\ wire = 0 /\ m_smRecvData = 0 /\ call = 0 /\ step = 0 /\ unfit = 0
NoWatch ==
  /\ nServer = 0 /\ subscribed = 0 /\ published = 0 /\ m_mapSub = 0 /\ crashed = 0
  /\ since = 0 /\ doubled = 0
Neither ==
  /\ nConn = 0 /\ nGen = 0 /\ nDoomed = 0 /\ nInbox = 0 /\ nHandler = 0
  /\ nWaitRequest = 0 /\ nPc = 0 /\ nRet = 0 /\ nOvertaken = 0

ClientsInit ==
  /\ Init
  /\ \/ RedisHas /\ Neither /\ NoMysql /\ NoWatch
     \/ MysqlHas /\ Mysql!Init /\ NoWatch
     \/ QueryHas /\ Queries!Init /\ NoWatch
     \/ WatchHas /\ Watch!Init /\ NoMysql

InRedis(A) == RedisHas /\ A /\ UNCHANGED <<part, both, mysqlOnly, watchOnly>>
InMysql(A) == MysqlHas /\ A /\ UNCHANGED <<part, vars, watchOnly>>
InQuery(A) == QueryHas /\ A /\ UNCHANGED <<part, vars, watchOnly>>
InWatch(A) == WatchHas /\ ~crashed /\ A /\ UNCHANGED <<part, vars, mysqlOnly>>

ClientsNext ==
  InRedis(Next) \/ InMysql(Mysql!Next) \/ InQuery(Queries!Next) \/ InWatch(Watch!Next)

(* The fairness of the clients: a behaviour stays in its part, so what is  *)
(* fair for each is fair for any.                                          *)
Messages ==
  \/ InRedis(CtxMessage) \/ InWatch(Watch!CtxMessage)
  \/ InMysql(Mysql!CtxMessage) \/ InQuery(Queries!CtxMessage)
HandlerSteps ==
  \/ InRedis(HandlerStep) \/ InWatch(Watch!HandlerStep)
  \/ InMysql(Mysql!HandlerStep) \/ InQuery(Queries!HandlerStep)
Timers ==
  \/ InRedis(OnTimer) \/ InWatch(Watch!OnTimer)
  \/ InMysql(Mysql!OnTimer) \/ InQuery(Queries!OnTimer)
Closes ==
  InRedis(OnTimerClose) \/ InMysql(Mysql!OnTimerClose) \/ InQuery(Queries!OnTimerClose)
Resumes ==
  \/ InRedis(OnTimerResume) \/ InWatch(Watch!OnTimerResume)
  \/ InMysql(Mysql!OnTimerResume) \/ InQuery(Queries!OnTimerResume)
Starts == InRedis(\E r \in Req : DispathBussinessMsg(r))
ReportsEnd ==
  \/ InRedis(doomed /\ OnDisconnect)
  \/ InMysql(nDoomed /\ Mysql!OnDisconnect) \/ InQuery(nDoomed /\ Queries!OnDisconnect)

ClientsFairness ==
  /\ SF_all(Messages) /\ WF_all(HandlerSteps)
  /\ SF_all(Timers) /\ SF_all(Closes) /\ SF_all(Resumes) /\ SF_all(Starts)
  /\ WF_all(ReportsEnd)

ClientsSpec == ClientsInit /\ [][ClientsNext]_all /\ ClientsFairness

(* The types of the three modules. *)
ClientsTypeOK ==
  /\ TypeOK
  /\ MysqlHas => Mysql!TypeOK
  /\ QueryHas => Queries!TypeOK
  /\ WatchHas => Watch!TypeOK

(* The properties of CtxMysql, for its behaviours: the list of requests    *)
(* and the stream of packets are in step, as long as no message passes an  *)
(* earlier one (net/ctx_mysql.cpp:793).                                    *)
StreamInStep ==
  /\ MysqlHas => Mysql!StreamInStep
  /\ QueryHas => Queries!StreamInStep

(* The properties of CtxRedisWatch, for its behaviours: a message finds    *)
(* the entry of its channel, unless the reply to an unsubscription passed  *)
(* it in the queue (net/ctx_redis.cpp:645).                                *)
MessageFindsEntry == WatchHas => Watch!MessageFindsEntry

(* The entries and what the server sends the messages of are in step, with *)
(* the same exception (net/ctx_redis.cpp:662 and 680).                     *)
SubscribedInStep == WatchHas => Watch!SubscribedInStep

(* Every request of the first two ends, and who waits for a connection to  *)
(* subscribe is told.                                                      *)
ClientsEnd ==
  <>[](/\ RedisHas => NoneUnderWay
       /\ MysqlHas => Mysql!NoneUnderWay
       /\ QueryHas => Queries!NoneUnderWay
       /\ WatchHas => Watch!NoneWaits)

=============================================================================
