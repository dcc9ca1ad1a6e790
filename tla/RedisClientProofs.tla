-------------------------- MODULE RedisClientProofs --------------------------
(***************************************************************************)
(* Proofs about RedisClient for any number of clients, any data base and   *)
(* any number of calls.                                                    *)
(***************************************************************************)
EXTENDS RedisClient, TLAPS

\* The connection of a client, wherever the client is: past SELECT it is on
\* data base idx_, and so is one that an earlier call left open; where one
\* is made there is none yet.
Linked ==
  \A c \in Clients :
    /\ pc[c] = "connect" => context[c] = "NULL"
    /\ pc[c] \in {"select", "ping", "send", "read"} => context[c] # "NULL"
    /\ pc[c] \in {"ping", "send", "read"} => db[c] = Idx
    /\ pc[c] = "idle" /\ context[c] # "NULL" => db[c] = Idx

\* An increment is ahead of its acknowledgement while its reply is read, and
\* behind its call until it is sent.
Unread(c) ==
  IF op[c] = "incr" /\ pc[c] = "read" /\ reply[c] = "done" THEN 1 ELSE 0
Unsent(c) ==
  IF op[c] = "incr" /\ pc[c] \in {"connect", "select", "ping", "send"}
    THEN 1 ELSE 0
Counting ==
  \A c \in Clients :
    /\ acked[c] + Unread(c) <= counter[c][Idx]
    /\ counter[c][Idx] + Unsent(c) <= calls[c]
    /\ \A d \in Dbs \ {Idx} : counter[c][d] = 0

\* After one failure on a healthy server nothing is left to fail on.
Recovered ==
  \A c \in Clients :
    /\ failed[c] <= 1
    /\ failed[c] # 0 => /\ server = "up"
                        /\ context[c] # "broken"
                        /\ pc[c] = "read" => reply[c] = "done"

ClientInv == TypeOK /\ Linked /\ Counting /\ Recovered

-----------------------------------------------------------------------------
\* The data base 0 of a new connection and idx_ are the two that matter.
LEMMA DbsFacts == 0 \in Dbs /\ Idx \in Dbs
  BY DEF Dbs

\* Types hold initially.
LEMMA TypeInit == Init => TypeOK
  BY DbsFacts DEF Init, TypeOK, Pcs, Ops

\* The places a client goes to, and the calls it is in.
LEMMA PcFacts ==
  /\ "idle" \in Pcs /\ "connect" \in Pcs /\ "select" \in Pcs
  /\ "ping" \in Pcs /\ "send" \in Pcs /\ "read" \in Pcs /\ "hung" \in Pcs
  BY DEF Pcs

\* Types of what a return changes.
LEMMA FailsType ==
  ASSUME TypeOK, NEW c \in Clients, Fails(c)
  PROVE  /\ pc' \in [Clients -> Pcs]
         /\ op' \in [Clients -> Ops \cup {"Init", "none"}]
         /\ failed' \in [Clients -> Nat]
<1>1. pc' \in [Clients -> Pcs]
  BY PcFacts DEF TypeOK, Fails, Return, Goto
<1>2. op' \in [Clients -> Ops \cup {"Init", "none"}]
  BY DEF TypeOK, Fails, Return
<1>3. failed' \in [Clients -> Nat]
  BY DEF TypeOK, Fails
<1> QED
  BY <1>1, <1>2, <1>3

\* Types of what a return after a command changes.
LEMMA SucceedsType ==
  ASSUME TypeOK, NEW c \in Clients, Succeeds(c)
  PROVE  /\ pc' \in [Clients -> Pcs]
         /\ op' \in [Clients -> Ops \cup {"Init", "none"}]
         /\ failed' \in [Clients -> Nat]
<1>1. pc' \in [Clients -> Pcs]
  BY PcFacts DEF TypeOK, Succeeds, Return, Goto
<1>2. op' \in [Clients -> Ops \cup {"Init", "none"}]
  BY DEF TypeOK, Succeeds, Return
<1>3. failed' \in [Clients -> Nat]
  BY DEF TypeOK, Succeeds
<1> QED
  BY <1>1, <1>2, <1>3

\* Types are kept by every step.
LEMMA TypeNext == TypeOK /\ [Next]_vars => TypeOK'
<1> SUFFICES ASSUME TypeOK, [Next]_vars PROVE TypeOK'
  OBVIOUS
<1> USE DbsFacts, PcFacts DEF TypeOK
<1>1. CASE UNCHANGED vars
  BY <1>1 DEF vars
<1>2. CASE ServerStep
  <2>1. CASE Stops
    BY <2>1 DEF Stops, Become
  <2>2. ASSUME NEW c \in Clients, Closes(c) PROVE TypeOK'
    BY <2>2 DEF Closes
  <2>3. CASE Starts \/ Loaded \/ NetworkLost \/ NetworkBack
    BY <2>3 DEF Starts, Loaded, NetworkLost, NetworkBack, Become, client
  <2> QED
    BY <1>2, <2>1, <2>2, <2>3 DEF ServerStep
<1>3. ASSUME NEW c \in Clients, NEW o \in Ops, Call(c, o) PROVE TypeOK'
  <2>1. pc' \in [Clients -> Pcs]
    BY <1>3 DEF Call, Goto
  <2>2. calls' \in [Clients -> Nat]
    BY <1>3 DEF Call
  <2>3. op' \in [Clients -> Ops \cup {"Init", "none"}]
    BY <1>3 DEF Call
  <2> QED
    BY <1>3, <2>1, <2>2, <2>3 DEF Call
<1>4. ASSUME NEW c \in Clients, Connect(c) PROVE TypeOK'
  <2>1. CASE Fails(c) /\ UNCHANGED <<context, db>>
    BY <1>4, <2>1, FailsType DEF Connect
  <2>2. CASE /\ context' = [context EXCEPT ![c] = "open"]
             /\ db' = [db EXCEPT ![c] = 0]
             /\ Goto(c, IF Idx = 0 THEN "ping" ELSE "select")
             /\ UNCHANGED <<op, failed>>
    BY <1>4, <2>2 DEF Connect, Goto
  <2> QED
    BY <1>4, <2>1, <2>2 DEF Connect
<1>5. ASSUME NEW c \in Clients, SelectDB(c) PROVE TypeOK'
  <2>1. CASE DisConnect(c) /\ Fails(c) /\ UNCHANGED db
    BY <1>5, <2>1, FailsType DEF SelectDB, DisConnect
  <2>2. CASE /\ db' = [db EXCEPT ![c] = Idx]
             /\ Goto(c, "ping")
             /\ UNCHANGED <<context, op, failed>>
    BY <1>5, <2>2 DEF SelectDB, Goto
  <2> QED
    BY <1>5, <2>1, <2>2 DEF SelectDB
<1>6. ASSUME NEW c \in Clients, Ping(c) PROVE TypeOK'
  <2>1. CASE DisConnect(c) /\ Fails(c) /\ UNCHANGED lock
    BY <1>6, <2>1, FailsType DEF Ping, DisConnect
  <2>2. CASE /\ Succeeds(c) /\ lock' = [lock EXCEPT ![c] = "ready"]
             /\ UNCHANGED context
    BY <1>6, <2>2, SucceedsType DEF Ping
  <2>3. CASE Goto(c, "send") /\ UNCHANGED <<op, failed, lock, context>>
    BY <1>6, <2>3 DEF Ping, Goto
  <2> QED
    BY <1>6, <2>1, <2>2, <2>3 DEF Ping
<1>7. ASSUME NEW c \in Clients, Send(c) PROVE TypeOK'
  <2>1. [counter EXCEPT ![c][db[c]] = @ + 1] \in [Clients -> [Dbs -> Nat]]
    OBVIOUS
  <2> QED
    BY <1>7, <2>1 DEF Send, Goto
<1>8. ASSUME NEW c \in Clients, ReadReply(c) PROVE TypeOK'
  <2>1. reply' \in [Clients -> {"none", "done", "error"}]
    BY <1>8 DEF ReadReply
  <2>2. context' \in [Clients -> {"NULL", "open", "broken"}]
    BY <1>8 DEF ReadReply, DisConnect
  <2>3. acked' \in [Clients -> Nat]
    BY <1>8 DEF ReadReply
  <2>4. Fails(c) \/ Succeeds(c)
    BY <1>8 DEF ReadReply
  <2> QED
    BY <1>8, <2>1, <2>2, <2>3, <2>4, FailsType, SucceedsType DEF ReadReply
<1>9. ASSUME NEW c \in Clients, NullReply(c) PROVE TypeOK'
  BY <1>9, FailsType DEF NullReply, DisConnect
<1>10. ASSUME NEW c \in Clients, Dies(c) PROVE TypeOK'
  BY <1>10 DEF Dies
<1> QED
  BY <1>1, <1>2, <1>3, <1>4, <1>5, <1>6, <1>7, <1>8, <1>9, <1>10
  DEF Next, ClientStep

\* Every variable of the client holds a value of its type in every behaviour.
THEOREM ClientTypes == Spec => []TypeOK
<1>1. Init => TypeOK
  BY TypeInit
<1>2. TypeOK /\ [Next]_vars => TypeOK'
  BY TypeNext
<1> QED
  BY <1>1, <1>2, PTL DEF Spec

-----------------------------------------------------------------------------
\* Every step keeps connections on their data base.
LEMMA LinkedNext == TypeOK /\ Linked /\ [Next]_vars => Linked'
<1> SUFFICES ASSUME TypeOK, Linked, [Next]_vars PROVE Linked'
  OBVIOUS
<1> USE DEF TypeOK, Linked
<1>1. CASE UNCHANGED vars
  BY <1>1 DEF vars
<1>2. CASE ServerStep
  BY <1>2 DEF ServerStep, Stops, Starts, Loaded, NetworkLost, NetworkBack,
              Closes, Become, client
<1>3. ASSUME NEW c \in Clients, NEW o \in Ops, Call(c, o) PROVE Linked'
  BY <1>3 DEF Call, Goto
<1>4. ASSUME NEW c \in Clients, Connect(c) PROVE Linked'
  <2>1. CASE server \in {"up", "loading"}
    BY <1>4, <2>1 DEF Connect, Goto
  <2>2. CASE server \in {"down", "silent"}
    BY <1>4, <2>2 DEF Connect, Fails, Return, Goto
  <2> QED
    BY <1>4, <2>1, <2>2 DEF Connect
<1>5. ASSUME NEW c \in Clients, SelectDB(c) PROVE Linked'
  BY <1>5 DEF SelectDB, Fails, Return, Goto, DisConnect
<1>6. ASSUME NEW c \in Clients, Ping(c) PROVE Linked'
  BY <1>6 DEF Ping, Fails, Succeeds, Return, Goto, DisConnect
<1>7. ASSUME NEW c \in Clients, Send(c) PROVE Linked'
  BY <1>7 DEF Send, Goto
<1>8. ASSUME NEW c \in Clients, ReadReply(c) PROVE Linked'
  BY <1>8 DEF ReadReply, Fails, Succeeds, Return, Goto, DisConnect
<1>9. ASSUME NEW c \in Clients, NullReply(c) PROVE Linked'
  BY <1>9 DEF NullReply, Fails, Return, Goto, DisConnect
<1>10. ASSUME NEW c \in Clients, Dies(c) PROVE Linked'
  BY <1>10 DEF Dies
<1> QED
  BY <1>1, <1>2, <1>3, <1>4, <1>5, <1>6, <1>7, <1>8, <1>9, <1>10
  DEF Next, ClientStep

\* Every step keeps the two bounds on a client's counter.
LEMMA CountingNext ==
  TypeOK /\ Linked /\ Counting /\ [Next]_vars => Counting'
<1> SUFFICES ASSUME TypeOK, Linked, Counting, [Next]_vars PROVE Counting'
  OBVIOUS
<1> USE DEF TypeOK, Counting, Unread, Unsent
<1>1. CASE UNCHANGED vars
  BY <1>1 DEF vars
<1>2. CASE ServerStep
  BY <1>2 DEF ServerStep, Stops, Starts, Loaded, NetworkLost, NetworkBack,
              Closes, Become, client
<1>3. ASSUME NEW c \in Clients, NEW o \in Ops, Call(c, o) PROVE Counting'
  BY <1>3, DbsFacts DEF Call, Goto
<1>4. ASSUME NEW c \in Clients, Connect(c) PROVE Counting'
  BY <1>4, DbsFacts DEF Connect, Fails, Return, Goto
<1>5. ASSUME NEW c \in Clients, SelectDB(c) PROVE Counting'
  BY <1>5, DbsFacts DEF SelectDB, Fails, Return, Goto, DisConnect
<1>6. ASSUME NEW c \in Clients, Ping(c) PROVE Counting'
  <2>1. CASE Return(c)
    BY <1>6, <2>1, DbsFacts DEF Ping, Return, Goto
  <2>2. CASE Goto(c, "send") /\ UNCHANGED op
    BY <1>6, <2>2, DbsFacts DEF Ping, Goto
  <2> QED
    BY <1>6, <2>1, <2>2 DEF Ping, Fails, Succeeds
<1>7. ASSUME NEW c \in Clients, Send(c) PROVE Counting'
  <2>1. db[c] = Idx
    BY <1>7 DEF Linked, Send
  <2>2. CASE counter' = counter
    BY <1>7, <2>2, DbsFacts DEF Send, Goto, Refused
  <2>3. CASE op[c] = "incr" /\ counter' = [counter EXCEPT ![c][db[c]] = @ + 1]
    BY <1>7, <2>1, <2>3, DbsFacts DEF Send, Goto
  <2> QED
    BY <1>7, <2>2, <2>3 DEF Send
<1>8. ASSUME NEW c \in Clients, ReadReply(c) PROVE Counting'
  BY <1>8, DbsFacts DEF ReadReply, Fails, Succeeds, Return, Goto, DisConnect
<1>9. ASSUME NEW c \in Clients, NullReply(c) PROVE Counting'
  BY <1>9, DbsFacts DEF NullReply, Fails, Return, Goto, DisConnect
<1>10. ASSUME NEW c \in Clients, Dies(c) PROVE Counting'
  <2> SUFFICES ASSUME NEW e \in Clients
               PROVE  /\ acked[e] + Unread(e)' <= counter[e][Idx]
                      /\ counter[e][Idx] + Unsent(e)' <= calls[e]
    BY <1>10 DEF Dies
  <2>1. Unread(e)' = 0 /\ Unsent(e)' = 0
    BY <1>10 DEF Dies
  <2>2. Unread(e) \in Nat /\ Unsent(e) \in Nat
    OBVIOUS
  <2> HIDE DEF Unread, Unsent
  <2> QED
    BY <2>1, <2>2, DbsFacts
<1> QED
  BY <1>1, <1>2, <1>3, <1>4, <1>5, <1>6, <1>7, <1>8, <1>9, <1>10
  DEF Next, ClientStep

\* Every step keeps a client from failing again.
LEMMA RecoveredNext ==
  TypeOK /\ Recovered /\ [Next]_vars => Recovered'
<1> SUFFICES ASSUME TypeOK, Recovered, [Next]_vars PROVE Recovered'
  OBVIOUS
<1> USE DEF TypeOK, Recovered
<1>1. CASE UNCHANGED vars
  BY <1>1 DEF vars
<1>2. CASE ServerStep
  BY <1>2 DEF ServerStep, Stops, Starts, Loaded, NetworkLost, NetworkBack,
              Closes, Become, client
<1>3. ASSUME NEW c \in Clients, NEW o \in Ops, Call(c, o) PROVE Recovered'
  BY <1>3 DEF Call, Goto
<1>4. ASSUME NEW c \in Clients, Connect(c) PROVE Recovered'
  BY <1>4 DEF Connect, Fails, Return, Goto
<1>5. ASSUME NEW c \in Clients, SelectDB(c) PROVE Recovered'
  BY <1>5 DEF SelectDB, Fails, Return, Goto, DisConnect, Refused
<1>6. ASSUME NEW c \in Clients, Ping(c) PROVE Recovered'
  <2>1. CASE Refused(c) /\ DisConnect(c) /\ Fails(c)
    BY <1>6, <2>1 DEF Ping, Fails, Return, Goto, DisConnect, Refused
  <2>2. CASE Succeeds(c) /\ UNCHANGED context
    BY <1>6, <2>2 DEF Ping, Succeeds, Return, Goto
  <2>3. CASE Goto(c, "send") /\ UNCHANGED <<failed, context>>
    BY <1>6, <2>3 DEF Ping, Goto
  <2> QED
    BY <1>6, <2>1, <2>2, <2>3 DEF Ping
<1>7. ASSUME NEW c \in Clients, Send(c) PROVE Recovered'
  BY <1>7 DEF Send, Goto, Refused
<1>8. ASSUME NEW c \in Clients, ReadReply(c) PROVE Recovered'
  BY <1>8 DEF ReadReply, Fails, Succeeds, Return, Goto, DisConnect
<1>9. ASSUME NEW c \in Clients, NullReply(c) PROVE Recovered'
  BY <1>9 DEF NullReply, Fails, Return, Goto, DisConnect
<1>10. ASSUME NEW c \in Clients, Dies(c) PROVE Recovered'
  BY <1>10 DEF Dies
<1> QED
  BY <1>1, <1>2, <1>3, <1>4, <1>5, <1>6, <1>7, <1>8, <1>9, <1>10
  DEF Next, ClientStep

\* The inductive invariant holds in every behaviour.
LEMMA ClientInvariant == Spec => []ClientInv
<1>1. Init => ClientInv
  <2> SUFFICES ASSUME Init PROVE ClientInv
    OBVIOUS
  <2>1. TypeOK
    BY TypeInit
  <2>2. Linked /\ Recovered
    BY DEF Init, Linked, Recovered
  <2>3. Counting
    <3>1. \A c \in Clients : Unread(c) = 0 /\ Unsent(c) = 0
      BY DEF Init, Unread, Unsent
    <3>2. \A c \in Clients : acked[c] = 0 /\ calls[c] = 0
      BY DEF Init
    <3>3. \A c \in Clients, d \in Dbs : counter[c][d] = 0
      BY DEF Init
    <3>4. \A c \in Clients : counter[c][Idx] = 0
      BY <3>3, DbsFacts
    <3>5. 0 + 0 <= 0
      OBVIOUS
    <3>6. \A c \in Clients : /\ acked[c] + Unread(c) <= counter[c][Idx]
                             /\ counter[c][Idx] + Unsent(c) <= calls[c]
      BY <3>1, <3>2, <3>4, <3>5
    <3> QED
      BY <3>3, <3>6 DEF Counting
  <2> QED
    BY <2>1, <2>2, <2>3 DEF ClientInv
<1>2. ClientInv /\ [Next]_vars => ClientInv'
  BY TypeNext, LinkedNext, CountingNext, RecoveredNext DEF ClientInv
<1> QED
  BY <1>1, <1>2, PTL DEF Spec

\* A command is only sent on a connection to data base idx_.
THEOREM RightDb == Spec => []DbSelected
<1>1. ClientInv => DbSelected
  BY DEF ClientInv, Linked, DbSelected
<1> QED
  BY <1>1, ClientInvariant, PTL

\* An acknowledged UserIncr was counted once, no other more than once.
THEOREM Counted == Spec => []CountExact
<1>1. ASSUME ClientInv, NEW c \in Clients
      PROVE  acked[c] <= counter[c][Idx] /\ counter[c][Idx] <= calls[c]
  <2>1. /\ acked[c] \in Nat /\ calls[c] \in Nat /\ counter[c][Idx] \in Nat
        /\ Unread(c) \in Nat /\ Unsent(c) \in Nat
    BY <1>1, DbsFacts DEF ClientInv, TypeOK, Unread, Unsent
  <2>2. /\ acked[c] + Unread(c) <= counter[c][Idx]
        /\ counter[c][Idx] + Unsent(c) <= calls[c]
    BY <1>1 DEF ClientInv, Counting
  <2> QED
    BY <2>1, <2>2
<1>2. ClientInv => CountExact
  BY <1>1 DEF ClientInv, Counting, CountExact
<1> QED
  BY <1>2, ClientInvariant, PTL

\* No client fails twice in a row while the server is up.
THEOREM FailsOnce == Spec => []OneFailure
<1>1. ClientInv => OneFailure
  BY DEF ClientInv, Recovered, OneFailure
<1> QED
  BY <1>1, ClientInvariant, PTL
=============================================================================
