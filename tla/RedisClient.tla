----------------------------- MODULE RedisClient -----------------------------
(***************************************************************************)
(* The Redis client of every thread: CDataAdapter over CDataRedis over     *)
(* hiredis.  Each thread has an adapter of its own with one server; a call *)
(* connects when there is no connection (KeepConnect), selects the data    *)
(* base, tests it with PING, sends one command and reads one reply.  Only  *)
(* connecting has a time limit; a call is never repeated.                  *)
(*                                                                         *)
(* The server is "up", "loading" its data after a start (commands may be   *)
(* refused), "down" (its connections are broken, new ones refused) or      *)
(* "silent" (the network is lost: connecting times out, a reply does not   *)
(* come).                                                                  *)
(***************************************************************************)
EXTENDS Naturals

CONSTANTS Clients,   \* the threads that own an adapter
          Idx,       \* idx_, the data base the adapter is for
          MaxCalls   \* bound: UserIncr calls of a client

ASSUME IdxAssumption == Idx \in Nat
ASSUME MaxCallsAssumption == MaxCalls \in Nat

VARIABLES
  server,    \* the state of the Redis server
  lock,      \* lock_[0]: "raw" until pthread_mutex_init, then "ready"
  context,   \* context_: "NULL", "open" or "broken"
  db,        \* the data base selected on the connection
  pc, op,    \* where the client is, and in which call
  reply,     \* what the server made of the command
  counter,   \* the key a client increments, in every data base
  calls,     \* history: UserIncr calls
  acked,     \* history: UserIncr calls that returned true
  failed     \* history: calls failed in a row on a healthy server

client == <<lock, context, db, pc, op, reply, counter, calls, acked>>
vars   == <<server, lock, context, db, pc, op, reply, counter, calls, acked,
            failed>>

Dbs == {0, Idx}
Pcs == {"idle", "connect", "select", "ping", "send", "read", "hung"}
(***************************************************************************)
(* "get": GetValue.  "zrange", "zrem": GetValueSortedSet, RemoveSortedSet. *)
(* "incr": IncrValue.  "other": SetValue, SetValueSortedSet, Sadd,         *)
(* Smembers, Smove, which treat their replies alike.                       *)
(***************************************************************************)
Ops == {"get", "zrange", "zrem", "incr", "other"}

Init ==
  /\ server \in {"up", "down"}
  /\ lock    = [c \in Clients |-> "raw"]
  /\ context = [c \in Clients |-> "NULL"]
  /\ db      = [c \in Clients |-> 0]
  /\ pc      = [c \in Clients |-> "connect"]
  /\ op      = [c \in Clients |-> "Init"]
  /\ reply   = [c \in Clients |-> "none"]
  /\ counter = [c \in Clients |-> [d \in Dbs |-> 0]]
  /\ calls   = [c \in Clients |-> 0]
  /\ acked   = [c \in Clients |-> 0]
  /\ failed  = [c \in Clients |-> 0]

-----------------------------------------------------------------------------
(* The server and the network.                                             *)

Become(s) == server' = s /\ failed' = [c \in Clients |-> 0]

\* The server stops; every connection is reset.
Stops ==
  /\ server # "down"
  /\ Become("down")
  /\ context' = [c \in Clients |-> IF context[c] = "open" THEN "broken"
                                                          ELSE context[c]]
  /\ UNCHANGED <<lock, db, pc, op, reply, counter, calls, acked>>

Starts      == server = "down"    /\ Become("loading") /\ UNCHANGED client
Loaded      == server = "loading" /\ Become("up")      /\ UNCHANGED client
NetworkLost == server = "up"      /\ Become("silent")  /\ UNCHANGED client
NetworkBack == server = "silent"  /\ Become("up")      /\ UNCHANGED client

\* The server closes a connection (its idle time limit, CLIENT KILL).
Closes(c) ==
  /\ server = "up"
  /\ context[c] = "open"
  /\ context' = [context EXCEPT ![c] = "broken"]
  /\ failed' = [failed EXCEPT ![c] = 0]
  /\ UNCHANGED <<server, lock, db, pc, op, reply, counter, calls, acked>>

-----------------------------------------------------------------------------
(* CDataRedis and CDataAdapter.                                            *)

Goto(c, l) == pc' = [pc EXCEPT ![c] = l]

\* DisConnect: redisFree, context_ = NULL.
DisConnect(c) == context' = [context EXCEPT ![c] = "NULL"]

Return(c) == Goto(c, "idle") /\ op' = [op EXCEPT ![c] = "none"]

\* return false because of the connection or the server.
Fails(c) ==
  /\ Return(c)
  /\ failed' = [failed EXCEPT ![c] = IF server = "up" THEN @ + 1 ELSE @]

\* return after a command that the server has carried out.
Succeeds(c) ==
  /\ Return(c)
  /\ failed' = [failed EXCEPT ![c] = 0]

\* A User... call takes the lock and KeepConnect finds context_ as it is.  The
\* lock of an adapter whose Init failed was never initialised: taking it may
\* work or block for ever.
Call(c, o) ==
  /\ pc[c] = "idle"
  /\ o = "incr" => calls[c] < MaxCalls
  /\ op' = [op EXCEPT ![c] = o]
  /\ calls' = [calls EXCEPT ![c] = IF o = "incr" THEN @ + 1 ELSE @]
  /\ \/ Goto(c, IF context[c] = "NULL" THEN "connect" ELSE "send")
     \/ lock[c] = "raw" /\ Goto(c, "hung")
  /\ UNCHANGED <<server, lock, context, db, reply, counter, acked, failed>>

\* KeepConnect: redisConnectWithTimeout.
Connect(c) ==
  /\ pc[c] = "connect"
  /\ \/ /\ server \in {"up", "loading"}
        /\ context' = [context EXCEPT ![c] = "open"]
        /\ db' = [db EXCEPT ![c] = 0]
        /\ Goto(c, IF Idx = 0 THEN "ping" ELSE "select")
        /\ UNCHANGED <<op, failed>>
     \/ /\ server \in {"down", "silent"}
        /\ Fails(c)
        /\ UNCHANGED <<context, db>>
  /\ UNCHANGED <<server, lock, reply, counter, calls, acked>>

\* redisCommand gets an answer, or an error because there is no connection.
Answered(c)   == context[c] = "open" /\ server \in {"up", "loading"}
Refused(c)    == context[c] = "broken" \/ server = "loading"

\* Faulty variant: no DisConnect when the server refuses.
LaxSelectDB(c) ==
  /\ pc[c] = "select"
  /\ \/ /\ Answered(c)
        /\ db' = [db EXCEPT ![c] = Idx]
        /\ Goto(c, "ping")
        /\ UNCHANGED <<op, failed>>
     \/ Refused(c) /\ Fails(c) /\ UNCHANGED db
  /\ UNCHANGED <<server, lock, context, reply, counter, calls, acked>>

\* SelectDB, called by KeepConnect.
SelectDB(c) ==
  /\ pc[c] = "select"
  /\ \/ /\ Answered(c)
        /\ db' = [db EXCEPT ![c] = Idx]
        /\ Goto(c, "ping")
        /\ UNCHANGED <<context, op, failed>>
     \/ /\ Refused(c)
        /\ DisConnect(c)
        /\ Fails(c)
        /\ UNCHANGED db
  /\ UNCHANGED <<server, lock, reply, counter, calls, acked>>

\* Faulty variant: connect again until PING is answered.
PatientPing(c) ==
  /\ pc[c] = "ping"
  /\ \/ /\ Answered(c)
        /\ Goto(c, "send")
        /\ UNCHANGED context
     \/ /\ Refused(c)
        /\ DisConnect(c)
        /\ Goto(c, "connect")
  /\ UNCHANGED <<server, lock, db, op, reply, counter, calls, acked, failed>>

\* KeepConnect: PING.  CDataAdapter::Init then initialises the lock, a call
\* sends its command.
Ping(c) ==
  /\ pc[c] = "ping"
  /\ \/ /\ Answered(c)
        /\ IF op[c] = "Init"
             THEN Succeeds(c) /\ lock' = [lock EXCEPT ![c] = "ready"]
             ELSE Goto(c, "send") /\ UNCHANGED <<op, failed, lock>>
        /\ UNCHANGED context
     \/ /\ Refused(c)
        /\ DisConnect(c)
        /\ Fails(c)
        /\ UNCHANGED lock
  /\ UNCHANGED <<server, db, reply, counter, calls, acked>>

\* redisCommand writes the command; the server carries it out or refuses it.
Send(c) ==
  /\ pc[c] = "send"
  /\ \/ /\ Answered(c)
        /\ reply' = [reply EXCEPT ![c] = "done"]
        /\ counter' = IF op[c] = "incr"
                        THEN [counter EXCEPT ![c][db[c]] = @ + 1] ELSE counter
     \/ /\ Refused(c)
        /\ reply' = [reply EXCEPT ![c] = "error"]
        /\ UNCHANGED counter
  /\ Goto(c, "read")
  /\ UNCHANGED <<server, lock, context, db, op, calls, acked, failed>>

\* The reply arrives.  GetValue takes a missing key for an error.
ReadReply(c) ==
  /\ pc[c] = "read"
  /\ context[c] = "open"
  /\ server # "silent"
  /\ \/ /\ reply[c] = "done"
        /\ Succeeds(c)
        /\ \/ UNCHANGED context
           \/ op[c] = "get" /\ DisConnect(c)
        /\ acked' = [acked EXCEPT ![c] = IF op[c] = "incr" THEN @ + 1 ELSE @]
     \/ /\ reply[c] = "error"
        /\ DisConnect(c)
        /\ Fails(c)
        /\ UNCHANGED acked
  /\ reply' = [reply EXCEPT ![c] = "none"]
  /\ UNCHANGED <<server, lock, db, counter, calls>>

\* Faulty variant: the command is sent again on a new connection.
RetryNullReply(c) ==
  /\ pc[c] = "read"
  /\ context[c] = "broken"
  /\ DisConnect(c)
  /\ Goto(c, "connect")
  /\ UNCHANGED <<server, lock, db, op, reply, counter, calls, acked, failed>>

\* Faulty variant: no DisConnect, as in GetValue before 2015-07-14.
KeepNullReply(c) ==
  /\ pc[c] = "read"
  /\ context[c] = "broken"
  /\ Fails(c)
  /\ reply' = [reply EXCEPT ![c] = "none"]
  /\ UNCHANGED <<server, lock, context, db, counter, calls, acked>>

\* The connection broke: reply is NULL, whatever the server has done.
NullReply(c) ==
  /\ pc[c] = "read"
  /\ context[c] = "broken"
  /\ op[c] \notin {"zrange", "zrem"}
  /\ DisConnect(c)
  /\ Fails(c)
  /\ reply' = [reply EXCEPT ![c] = "none"]
  /\ UNCHANGED <<server, lock, db, counter, calls, acked>>

\* GetValueSortedSet and RemoveSortedSet print reply->type before they test
\* reply: the process dies, and is started again.
Dies(c) ==
  /\ pc[c] = "read"
  /\ context[c] = "broken"
  /\ op[c] \in {"zrange", "zrem"}
  /\ lock'    = [e \in Clients |-> "raw"]
  /\ context' = [e \in Clients |-> "NULL"]
  /\ pc'      = [e \in Clients |-> "connect"]
  /\ op'      = [e \in Clients |-> "Init"]
  /\ reply'   = [e \in Clients |-> "none"]
  /\ UNCHANGED <<server, db, counter, calls, acked, failed>>

-----------------------------------------------------------------------------
ClientStep(c) ==
  \/ Connect(c) \/ SelectDB(c) \/ Ping(c) \/ Send(c)
  \/ ReadReply(c) \/ NullReply(c) \/ Dies(c)

ServerStep ==
  \/ Stops \/ Starts \/ Loaded \/ NetworkLost \/ NetworkBack
  \/ \E c \in Clients : Closes(c)

Next ==
  \/ ServerStep
  \/ \E c \in Clients : ClientStep(c) \/ \E o \in Ops : Call(c, o)

Spec == Init /\ [][Next]_vars

\* A call that can go on does.  Nobody promises to call, or that the server
\* or the network comes back.
FairSpec == Spec /\ \A c \in Clients : WF_vars(ClientStep(c))

-----------------------------------------------------------------------------
\* Every variable holds a value of its type.
TypeOK ==
  /\ server \in {"up", "loading", "down", "silent"}
  /\ lock \in [Clients -> {"raw", "ready"}]
  /\ context \in [Clients -> {"NULL", "open", "broken"}]
  /\ db \in [Clients -> Dbs]
  /\ pc \in [Clients -> Pcs]
  /\ op \in [Clients -> Ops \cup {"Init", "none"}]
  /\ reply \in [Clients -> {"none", "done", "error"}]
  /\ counter \in [Clients -> [Dbs -> Nat]]
  /\ calls \in [Clients -> Nat]
  /\ acked \in [Clients -> Nat]
  /\ failed \in [Clients -> Nat]

\* A command is only ever sent on a connection on which data base idx_ is
\* selected: KeepConnect never returns false and leaves a connection behind
\* that the next call would take for a good one.
DbSelected ==
  \A c \in Clients : pc[c] \in {"send", "read"} =>
                       context[c] # "NULL" /\ db[c] = Idx

\* A UserIncr that returned true was counted, none was counted twice, and
\* nothing was counted in another data base, whenever the connection broke
\* and whoever died.
CountExact ==
  \A c \in Clients :
    /\ acked[c] <= counter[c][Idx] /\ counter[c][Idx] <= calls[c]
    /\ \A d \in Dbs \ {Idx} : counter[c][d] = 0

\* A client that lost its connection notices with the first call that fails
\* and connects again with the next: no client fails twice in a row while the
\* server is up.
OneFailure == \A c \in Clients : failed[c] <= 1

\* A User... call is going on in client c.
Calling(c) == op[c] \in Ops /\ pc[c] # "hung"

\* No call waits for ever unless the network is lost, the server being down
\* or still loading included: it returns, or the process dies of another.
CallReturns ==
  \A c \in Clients : <>[](server # "silent") => (Calling(c) ~> ~Calling(c))
=============================================================================
