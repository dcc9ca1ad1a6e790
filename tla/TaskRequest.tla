----------------------------- MODULE TaskRequest -----------------------------
(***************************************************************************)
(* A request in a worker: BdxRunTask and BdxGetHttpPacket from the bytes   *)
(* read to the reply.  The user's token and the gateway's token are kept   *)
(* in Redis for three hours and else asked of DataHub; answers of the      *)
(* operator's API are kept in Redis for five years under a key made of the *)
(* query.  The gateway's token is copied to g_strDataHubToken, which the   *)
(* update thread uses.  No lock spans two steps.                           *)
(*                                                                         *)
(* The choice and the charge of an order are module OrderQuota's; here an  *)
(* order is found or refused.  The counters are module StatsReport's.      *)
(***************************************************************************)
EXTENDS Integers, FiniteSets

CONSTANTS
    Workers,        \* the worker threads
    Users,          \* AccessKeyId
    Tokens,         \* Signature: tokens of users
    GateTokens,     \* tokens DataHub may issue to the gateway
    Places,         \* accuracy, cst, lat and lng of a query, as one
    Ids,            \* Id of a query of type 2
    Types,          \* the query types requests name (Operator)
    Nil,            \* a missing key, an empty string
    Garbage,        \* what a racing assignment may leave
    RedisFaults,    \* whether Redis commands may fail
    MaxRefused      \* bound on the connections the operator refuses

ASSUME WorkersAssumption == IsFiniteSet(Workers)
ASSUME NilAssumption == Nil \notin Tokens \union GateTokens /\ Garbage \notin GateTokens
ASSUME FaultAssumption == RedisFaults \in BOOLEAN /\ MaxRefused \in Nat

VARIABLES
    valid,          \* DataHub: the token of each user now, or Nil
    revoked,        \* DataHub: the tokens each user had before
    issued,         \* DataHub: the gateway tokens issued
    userToken,      \* Redis <user>#token
    tokenTtl,       \* Redis: that key has a time to live
    gateToken,      \* Redis <gateway>#token
    cache,          \* Redis: answers by key
    gToken,         \* g_strDataHubToken
    pc,             \* where each worker is
    req,            \* the request: user, token, query
    tok,            \* strDataHubToken of each worker
    answer,         \* stResponseInfo.mResValue: Nil or an answer
    local,          \* iNoDataFlag = 0: the answer came from Redis
    sockets,        \* sockets open to the operator
    refused,        \* history: connections the operator refused
    verified,       \* history: user and token that DataHub has accepted
    settled,        \* history: tokens the update thread has sent
    raced,          \* history: two threads used g_strDataHubToken at once
    alive           \* FALSE: the process has ended

hubVars   == <<valid, revoked, issued>>
redisVars == <<userToken, tokenTtl, gateToken, cache>>
workVars  == <<pc, req, tok, answer, local>>
sockVars  == <<sockets, refused>>
gVars     == <<gToken, settled, raced, alive>>
vars == <<hubVars, redisVars, workVars, sockVars, gVars, verified>>

Queries == [type : Types, place : Places, id : Ids]
Requests == [user : Users, token : Tokens, query : Queries]

(* What the operator is asked for: its action and the parameters sent. *)
Asked(q) == CASE q.type = 1 -> <<"here", q.place>>
              [] q.type = 2 -> <<"info", q.id>>
              [] q.type = 3 -> <<"nearby", q.place>>
              [] OTHER      -> <<"">>

(* Faulty variant: the key of a query of type 2 has no Id. *)
ShortMd5Key(q) == IF q.type \in 1 .. 3 THEN <<q.place>> ELSE <<>>

(* strMd5Key, the key an answer is kept under. *)
Md5Key(q) == CASE q.type \in {1, 3} -> <<q.place>>
               [] q.type = 2        -> <<q.place, q.id>>
               [] OTHER             -> <<>>

CacheKeys == {<<>>} \union {<<p>> : p \in Places} \union (Places \X Ids)

(* An answer is to a query; the JSON parser may refuse it. *)
Answers == [to : Queries, parses : BOOLEAN]

Pcs == {"idle", "token", "verify", "puttoken", "gate", "gatefetch", "gateput",
        "gset", "gsetting", "order", "cache", "connect", "write", "read",
        "hive", "parse", "store", "incr", "send", "fail"}

NoRequest == Nil

Init ==
    /\ valid \in [Users -> Tokens \union {Nil}]
    /\ revoked = [u \in Users |-> {}]
    /\ issued = {}
    /\ userToken = [u \in Users |-> Nil]
    /\ tokenTtl = [u \in Users |-> FALSE]
    /\ gateToken = Nil
    /\ cache = [k \in CacheKeys |-> Nil]
    /\ gToken = Nil
    /\ pc = [w \in Workers |-> "idle"]
    /\ req = [w \in Workers |-> NoRequest]
    /\ tok = [w \in Workers |-> Nil]
    /\ answer = [w \in Workers |-> Nil]
    /\ local = [w \in Workers |-> FALSE]
    /\ sockets = 0
    /\ refused = 0
    /\ verified = {}
    /\ settled = {}
    /\ raced = FALSE
    /\ alive = TRUE

At(w, l) == alive /\ pc[w] = l
Goto(w, l) == pc' = [pc EXCEPT ![w] = l]
Set(f, w, v) == f' = [f EXCEPT ![w] = v]

\* UserGet: the value, or false when the key is missing or Redis fails.
Get(value) == IF RedisFaults THEN {value, Nil} ELSE {value}

\* A write whose outcome the caller ignores.
Written(x, new) == x' = new \/ (RedisFaults /\ UNCHANGED x)

-----------------------------------------------------------------------------
(* From the bytes to the user's token                                        *)

(* A request with all its parameters. *)
Receive(w, r) ==
    /\ At(w, "idle")
    /\ Set(req, w, r)
    /\ Set(tok, w, Nil)
    /\ Set(answer, w, Nil)
    /\ Set(local, w, FALSE)
    /\ Goto(w, "token")
    /\ UNCHANGED <<hubVars, redisVars, sockVars, gVars, verified>>

(* Too short, another action, no parameters or one missing: 1100 or 1101. *)
ReceiveBad(w) ==
    /\ At(w, "idle")
    /\ Goto(w, "fail")
    /\ UNCHANGED <<hubVars, redisVars, req, tok, answer, local, sockVars, gVars, verified>>

(* UserGet(<user>#token) and the comparison with the Signature. *)
CheckToken(w) ==
    /\ At(w, "token")
    /\ \E v \in Get(userToken[req[w].user]) :
           Goto(w, IF v = req[w].token THEN "gate" ELSE "verify")
    /\ UNCHANGED <<hubVars, redisVars, req, tok, answer, local, sockVars, gVars, verified>>

(* Faulty variant: every answer of DataHub counts as "OK". *)
TrustingVerify(w) ==
    /\ At(w, "verify")
    /\ Goto(w, "puttoken")
    /\ UNCHANGED <<hubVars, redisVars, req, tok, answer, local, sockVars, gVars, verified>>

(* BdxVerifyDataHubToken: "OK" for the token of the user, else 8001.  A call    *)
(* that fails is no "OK".                                                       *)
VerifyToken(w) ==
    /\ At(w, "verify")
    /\ LET u == req[w].user
           t == req[w].token
       IN \/ /\ valid[u] = t
             /\ verified' = verified \union {<<u, t>>}
             /\ Goto(w, "puttoken")
          \/ /\ Goto(w, "fail")
             /\ UNCHANGED verified
    /\ UNCHANGED <<hubVars, redisVars, req, tok, answer, local, sockVars, gVars>>

(* Faulty variant: the token is kept without a time to live. *)
LastingPutToken(w) ==
    /\ At(w, "puttoken")
    /\ Set(userToken, req[w].user, req[w].token)
    /\ Set(tokenTtl, req[w].user, FALSE)
    /\ Goto(w, "gate")
    /\ UNCHANGED <<hubVars, gateToken, cache, req, tok, answer, local, sockVars, gVars, verified>>

(* UserPutExpire(<user>#token, 3 hours). *)
PutToken(w) ==
    /\ At(w, "puttoken")
    /\ \/ /\ Set(userToken, req[w].user, req[w].token)
          /\ Set(tokenTtl, req[w].user, TRUE)
       \/ RedisFaults /\ UNCHANGED <<userToken, tokenTtl>>
    /\ Goto(w, "gate")
    /\ UNCHANGED <<hubVars, gateToken, cache, req, tok, answer, local, sockVars, gVars, verified>>

-----------------------------------------------------------------------------
(* The gateway's token and the order                                         *)

(* UserGet(<gateway>#token). *)
GetGate(w) ==
    /\ At(w, "gate")
    /\ \E v \in Get(gateToken) :
           /\ Set(tok, w, v)
           /\ Goto(w, IF v = Nil THEN "gatefetch" ELSE "gset")
    /\ UNCHANGED <<hubVars, redisVars, req, answer, local, sockVars, gVars, verified>>

(* Faulty variant: an empty answer is not refused. *)
CarelessFetchGate(w) ==
    /\ At(w, "gatefetch")
    /\ Set(tok, w, Garbage)
    /\ Goto(w, "gateput")
    /\ UNCHANGED <<hubVars, redisVars, req, answer, local, sockVars, gVars, verified>>

(* BdxApiGateWayGetDataHubToken, else 8002. *)
FetchGate(w) ==
    /\ At(w, "gatefetch")
    /\ \/ \E g \in GateTokens :
             /\ issued' = issued \union {g}
             /\ Set(tok, w, g)
             /\ Goto(w, "gateput")
       \/ Goto(w, "fail") /\ UNCHANGED <<issued, tok>>
    /\ UNCHANGED <<valid, revoked, redisVars, req, answer, local, sockVars, gVars, verified>>

(* UserPutExpire(<gateway>#token, 3 hours). *)
PutGate(w) ==
    /\ At(w, "gateput")
    /\ Written(gateToken, tok[w])
    /\ Goto(w, "gset")
    /\ UNCHANGED <<hubVars, userToken, tokenTtl, cache, req, tok, answer, local, sockVars,
                   gVars, verified>>

(* g_strDataHubToken = strDataHubToken, two steps for there is no lock. *)
Assigning == {w \in Workers : pc[w] = "gsetting"}

GSet(w) ==
    /\ At(w, "gset")
    /\ raced' = (raced \/ Assigning # {})
    /\ Goto(w, "gsetting")
    /\ UNCHANGED <<hubVars, redisVars, req, tok, answer, local, sockVars, gToken, settled,
                   alive, verified>>

(* Two assignments at once leave either value or none that makes sense, or end  *)
(* the process.                                                                 *)
GSetEnd(w) ==
    /\ At(w, "gsetting")
    /\ \/ gToken' = tok[w] /\ UNCHANGED alive
       \/ raced /\ gToken' = Garbage /\ alive' \in BOOLEAN
    /\ Goto(w, "order")
    /\ UNCHANGED <<hubVars, redisVars, req, tok, answer, local, sockVars, settled, raced, verified>>

(* An order with quota left is found, else 8003 or 8004. *)
Order(w) ==
    /\ At(w, "order")
    /\ Goto(w, "cache") \/ Goto(w, "fail")
    /\ UNCHANGED <<hubVars, redisVars, req, tok, answer, local, sockVars, gVars, verified>>

-----------------------------------------------------------------------------
(* The answer                                                                *)

(* UserGet(strMd5Key). *)
GetCache(w) ==
    /\ At(w, "cache")
    /\ \E v \in Get(cache[Md5Key(req[w].query)]) :
           /\ Set(answer, w, v)
           /\ Set(local, w, v # Nil)
           /\ Goto(w, IF v = Nil THEN "connect" ELSE "hive")
    /\ UNCHANGED <<hubVars, redisVars, req, tok, sockVars, gVars, verified>>

(* The operator of source 9999: new CTcpSocket and TcpConnect.  When that       *)
(* fails (2001) the socket is neither closed nor deleted.                       *)
Connect(w) ==
    /\ At(w, "connect")
    /\ sockets' = sockets + 1
    /\ \/ Goto(w, "write") /\ UNCHANGED refused
       \/ /\ refused < MaxRefused
          /\ refused' = refused + 1
          /\ Goto(w, "fail")
    /\ UNCHANGED <<hubVars, redisVars, req, tok, answer, local, gVars, verified>>

(* TcpWrite of the query; 2002 when not all of it is sent. *)
WriteQuery(w) ==
    /\ At(w, "write")
    /\ \/ Goto(w, "read") /\ UNCHANGED sockets
       \/ Goto(w, "fail") /\ sockets' = sockets - 1
    /\ UNCHANGED <<hubVars, redisVars, req, tok, answer, local, refused, gVars, verified>>

(* Faulty variant: the socket of an empty answer is not deleted. *)
LeakingReadAnswer(w) ==
    /\ At(w, "read")
    /\ \/ /\ \E a \in Answers :
                /\ a.to = req[w].query
                /\ Set(answer, w, a)
          /\ sockets' = sockets - 1
          /\ Goto(w, "hive")
       \/ Goto(w, "fail") /\ UNCHANGED <<answer, sockets>>
    /\ UNCHANGED <<hubVars, redisVars, req, tok, local, refused, gVars, verified>>

(* TcpRead, once: the text between the outer braces of what has come (the        *)
(* first part of a long answer does not parse); nothing is 2003, no braces 5000. *)
ReadAnswer(w) ==
    /\ At(w, "read")
    /\ sockets' = sockets - 1
    /\ \/ /\ \E a \in Answers :
                /\ a.to = req[w].query
                /\ Set(answer, w, a)
          /\ Goto(w, "hive")
       \/ Goto(w, "fail") /\ UNCHANGED answer
    /\ UNCHANGED <<hubVars, redisVars, req, tok, local, refused, gVars, verified>>

(* The record for the hive log is pushed before the answer is parsed. *)
PushHive(w) ==
    /\ At(w, "hive")
    /\ Goto(w, "parse")
    /\ UNCHANGED <<hubVars, redisVars, req, tok, answer, local, sockVars, gVars, verified>>

(* Json::Reader::parse, else 5000. *)
Parse(w) ==
    /\ At(w, "parse")
    /\ Goto(w, IF ~answer[w].parses THEN "fail" ELSE IF local[w] THEN "incr" ELSE "store")
    /\ UNCHANGED <<hubVars, redisVars, req, tok, answer, local, sockVars, gVars, verified>>

(* UserPutExpire(strMd5Key, 5 years). *)
Store(w) ==
    /\ At(w, "store")
    /\ Written(cache, [cache EXCEPT ![Md5Key(req[w].query)] = answer[w]])
    /\ Goto(w, "incr")
    /\ UNCHANGED <<hubVars, userToken, tokenTtl, gateToken, req, tok, answer, local, sockVars,
                   gVars, verified>>

(* The order is charged (OrderQuota!Incr); SUCCESS. *)
Charge(w) ==
    /\ At(w, "incr")
    /\ Goto(w, "send")
    /\ UNCHANGED <<hubVars, redisVars, req, tok, answer, local, sockVars, gVars, verified>>

(* BdxSendRespones or BdxSendEmpyRespones: sent or not, the request is over. *)
Send(w) ==
    /\ At(w, "send") \/ At(w, "fail")
    /\ Goto(w, "idle")
    /\ Set(req, w, NoRequest)
    /\ Set(tok, w, Nil)
    /\ Set(answer, w, Nil)
    /\ Set(local, w, FALSE)
    /\ UNCHANGED <<hubVars, redisVars, sockVars, gVars, verified>>

-----------------------------------------------------------------------------
(* The update thread, Redis and DataHub                                      *)

(* The update thread reports an order with g_strDataHubToken, after it asked    *)
(* for a token if there was none (the answer may be empty).                     *)
Settle ==
    /\ alive
    /\ raced' = (raced \/ Assigning # {})
    /\ \/ /\ gToken # Nil
          /\ settled' = settled \union {gToken}
          /\ UNCHANGED <<issued, gToken, alive>>
       \/ /\ gToken = Nil
          /\ \E g \in GateTokens :
                /\ issued' = issued \union {g}
                /\ gToken' = g
                /\ settled' = settled \union {g}
          /\ UNCHANGED alive
       \/ /\ gToken = Nil
          /\ settled' = settled \union {Nil}
          /\ UNCHANGED <<issued, gToken, alive>>
       \/ /\ Assigning # {}
          /\ settled' = settled \union {Garbage}
          /\ alive' \in BOOLEAN
          /\ UNCHANGED <<issued, gToken>>
    /\ UNCHANGED <<valid, revoked, redisVars, workVars, sockVars, verified>>

(* A user gets a new token; the old one is worth nothing any more. *)
Renew(u, t) ==
    /\ t \notin revoked[u]
    /\ t # valid[u]
    /\ valid' = [valid EXCEPT ![u] = t]
    /\ revoked' = [revoked EXCEPT ![u] = @ \union ({valid[u]} \ {Nil})]
    /\ UNCHANGED <<issued, redisVars, workVars, sockVars, gVars, verified>>

(* Times to live run out (the five years of an answer too). *)
ExpireToken(u) ==
    /\ tokenTtl[u]
    /\ Set(userToken, u, Nil)
    /\ Set(tokenTtl, u, FALSE)
    /\ UNCHANGED <<hubVars, gateToken, cache, workVars, sockVars, gVars, verified>>

ExpireGate ==
    /\ gateToken # Nil
    /\ gateToken' = Nil
    /\ UNCHANGED <<hubVars, userToken, tokenTtl, cache, workVars, sockVars, gVars, verified>>

ExpireAnswer(k) ==
    /\ cache[k] # Nil
    /\ Set(cache, k, Nil)
    /\ UNCHANGED <<hubVars, userToken, tokenTtl, gateToken, workVars, sockVars, gVars, verified>>

Step(w) ==
    \/ CheckToken(w)
    \/ VerifyToken(w)
    \/ PutToken(w)
    \/ GetGate(w)
    \/ FetchGate(w)
    \/ PutGate(w)
    \/ GSet(w)
    \/ GSetEnd(w)
    \/ Order(w)
    \/ GetCache(w)
    \/ Connect(w)
    \/ WriteQuery(w)
    \/ ReadAnswer(w)
    \/ PushHive(w)
    \/ Parse(w)
    \/ Store(w)
    \/ Charge(w)
    \/ Send(w)

Next ==
    \/ \E w \in Workers : ReceiveBad(w) \/ Step(w) \/ \E r \in Requests : Receive(w, r)
    \/ Settle
    \/ \E u \in Users : ExpireToken(u) \/ \E t \in Tokens : Renew(u, t)
    \/ ExpireGate
    \/ \E k \in CacheKeys : ExpireAnswer(k)

Spec == Init /\ [][Next]_vars

(* The workers run (a DataHub call returns, see HubCall) and Redis drops a key *)
(* whose time has come.                                                        *)
FairSpec ==
    /\ Spec
    /\ \A w \in Workers : WF_vars(Step(w))
    /\ \A u \in Users : WF_vars(ExpireToken(u))

-----------------------------------------------------------------------------
(* Types of all variables. *)
TypeOK ==
    /\ valid \in [Users -> Tokens \union {Nil}]
    /\ revoked \in [Users -> SUBSET Tokens]
    /\ issued \subseteq GateTokens
    /\ userToken \in [Users -> Tokens \union {Nil}]
    /\ tokenTtl \in [Users -> BOOLEAN]
    /\ gateToken \in GateTokens \union {Nil}
    /\ cache \in [CacheKeys -> Answers \union {Nil}]
    /\ gToken \in GateTokens \union {Nil, Garbage}
    /\ pc \in [Workers -> Pcs]
    /\ req \in [Workers -> Requests \union {NoRequest}]
    /\ tok \in [Workers -> GateTokens \union {Nil}]
    /\ answer \in [Workers -> Answers \union {Nil}]
    /\ local \in [Workers -> BOOLEAN]
    /\ sockets \in Nat
    /\ refused \in Nat
    /\ verified \subseteq Users \X Tokens
    /\ settled \subseteq GateTokens \union {Nil, Garbage}
    /\ raced \in BOOLEAN
    /\ alive \in BOOLEAN

Admitted(w) == pc[w] \notin {"idle", "fail", "token", "verify"}

(* Only a user whose token DataHub has accepted gets past the token check,    *)
(* and only such tokens are kept in Redis, whichever workers verify and store *)
(* tokens of the same user at once and whatever fails.                        *)
ServedVerified ==
    /\ \A u \in Users : userToken[u] # Nil => <<u, userToken[u]>> \in verified
    /\ \A w \in Workers : Admitted(w) => <<req[w].user, req[w].token>> \in verified

(* What is kept in Redis parses: a stored answer never turns a later request  *)
(* into 5000.  And a request of the three types that is answered from there   *)
(* gets an answer for its own place, and a request of type 2 what it would    *)
(* have asked the operator for.  (Types 1 and 3 share a key and may get each  *)
(* other's answer: nothing better can be said of them.)                       *)
CacheUsable ==
    /\ \A k \in CacheKeys : cache[k] # Nil => cache[k].parses
    /\ \A w \in Workers :
          local[w] /\ req[w].query.type \in 1 .. 3 =>
              /\ answer[w].to.place = req[w].query.place
              /\ req[w].query.type = 2 => Asked(answer[w].to) = Asked(req[w].query)

(* A socket to the operator is open for a request that waits for its answer,  *)
(* or was lost to a refused connection.                                       *)
SocketsAccounted ==
    sockets = Cardinality({w \in Workers : pc[w] \in {"write", "read"}}) + refused

(* The update thread reports with no token or with one DataHub has issued,    *)
(* and the process lives, unless two threads used g_strDataHubToken at once.  *)
SettledWithIssued == raced \/ (alive /\ settled \subseteq issued \union {Nil})

(* A token the user has replaced is forgotten for good after a while, though  *)
(* a worker that verified it before may still store it afterwards.            *)
RevokedForgotten ==
    \A u \in Users, t \in Tokens :
        t \in revoked[u] ~> (~alive \/ [](userToken[u] # t))

=============================================================================
