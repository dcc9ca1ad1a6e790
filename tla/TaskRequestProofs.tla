-------------------------- MODULE TaskRequestProofs --------------------------
(***************************************************************************)
(* TaskRequest for every set of workers, users, tokens and queries: types, *)
(* who is served, what the update thread sends, the sockets, and what is   *)
(* answered from Redis.                                                    *)
(*                                                                         *)
(* The steps of a request are not atomic, so each part needs what a worker *)
(* carries from one step to a later one: its request (RequestInv), the     *)
(* gateway's token between the fetch and the assignment (GateInv), the     *)
(* answer between the read and the store (AnswerInv).                      *)
(***************************************************************************)
EXTENDS TaskRequest, Sequences, FiniteSetTheorems, TLAPS

(* A worker past "idle" that has not failed has a request. *)
RequestInv == \A w \in Workers : pc[w] \notin {"idle", "fail"} => req[w] \in Requests

(* The gateway's token a worker holds or Redis keeps was issued, and so are *)
(* the ones the update thread sees while no two threads met.                *)
GateInv ==
    /\ gateToken # Nil => gateToken \in issued
    /\ \A w \in Workers : pc[w] \in {"gateput", "gset", "gsetting"} => tok[w] \in issued
    /\ ~raced => gToken \in issued \union {Nil}
    /\ SettledWithIssued

(* An answer is kept under the key of its query; the answer a worker carries *)
(* is the operator's to its own request, or one kept under the same key.     *)
AnswerInv ==
    /\ \A k \in CacheKeys : cache[k] # Nil => cache[k].parses /\ Md5Key(cache[k].to) = k
    /\ \A w \in Workers :
          /\ pc[w] \in {"connect", "write", "read"} => ~local[w]
          /\ pc[w] \in {"hive", "parse", "store"} => answer[w] \in Answers
          /\ pc[w] \in {"hive", "parse", "store"} /\ ~local[w] => answer[w].to = req[w].query
          /\ pc[w] = "store" => ~local[w] /\ answer[w].parses
          /\ local[w] => /\ req[w] \in Requests
                         /\ answer[w] \in Answers
                         /\ Md5Key(answer[w].to) = Md5Key(req[w].query)

Waiting == {w \in Workers : pc[w] \in {"write", "read"}}

-----------------------------------------------------------------------------
(* The requests that wait for the operator                                 *)

\* They are finitely many.
LEMMA WaitingFinite == IsFiniteSet(Waiting) /\ Cardinality(Waiting) \in Nat
  <1>1. Waiting \subseteq Workers
    BY DEF Waiting
  <1>2. QED
    BY <1>1, WorkersAssumption, FS_Subset, FS_CardinalityType

\* A connection made adds its worker.
LEMMA WaitBegins ==
  ASSUME NEW w \in Workers, TypeOK, pc[w] = "connect", pc' = [pc EXCEPT ![w] = "write"]
  PROVE  Cardinality(Waiting') = Cardinality(Waiting) + 1
  <1>1. Waiting' = Waiting \cup {w} /\ w \notin Waiting
    BY DEF Waiting, TypeOK
  <1>2. QED
    BY <1>1, WaitingFinite, FS_AddElement

\* A request answered or given up takes its worker away.
LEMMA WaitEnds ==
  ASSUME NEW w \in Workers, NEW l \in {"hive", "fail"}, TypeOK,
         pc[w] \in {"write", "read"}, pc' = [pc EXCEPT ![w] = l]
  PROVE  /\ Cardinality(Waiting') = Cardinality(Waiting) - 1
         /\ Cardinality(Waiting') \in Nat
  <1>1. Waiting' = Waiting \ {w} /\ w \in Waiting
    BY DEF Waiting, TypeOK
  <1>2. Cardinality(Waiting \ {w}) = Cardinality(Waiting) - 1
    BY <1>1, WaitingFinite, FS_RemoveElement
  <1>3. IsFiniteSet(Waiting \ {w})
    BY <1>1, WaitingFinite, FS_Subset
  <1>4. QED
    BY <1>1, <1>2, <1>3, FS_CardinalityType

\* Every step counts the sockets right, and closes one only when one is open.
LEMMA SocketsNext ==
  ASSUME TypeOK, SocketsAccounted, [Next]_vars
  PROVE  SocketsAccounted' /\ sockets' \in Nat
  <1> USE DEF At, Goto
  <1>1. sockets = Cardinality(Waiting) + refused
    BY DEF SocketsAccounted, Waiting
  <1> DEFINE Counted == sockets' = Cardinality(Waiting') + refused' /\ sockets' \in Nat
  <1> DEFINE Same == Waiting' = Waiting /\ UNCHANGED <<sockets, refused>>
  <1>2. SUFFICES Counted
    BY DEF SocketsAccounted, Waiting
  <1>3. ASSUME Same PROVE Counted
    BY <1>1, <1>3 DEF TypeOK
  <1>4. ASSUME NEW w \in Workers, Connect(w) PROVE Counted
    <2>1. sockets' = sockets + 1 /\ sockets' \in Nat
      BY <1>4 DEF Connect, TypeOK
    <2>2. CASE pc' = [pc EXCEPT ![w] = "write"] /\ refused' = refused
      <3>1. Cardinality(Waiting') = Cardinality(Waiting) + 1
        BY <1>4, <2>2, WaitBegins DEF Connect
      <3>2. QED
        BY <1>1, <2>1, <2>2, <3>1, WaitingFinite DEF TypeOK
    <2>3. CASE pc' = [pc EXCEPT ![w] = "fail"] /\ refused' = refused + 1
      <3>1. Waiting' = Waiting
        BY <1>4, <2>3 DEF Connect, Waiting, TypeOK
      <3>2. QED
        BY <1>1, <2>1, <2>3, <3>1, WaitingFinite DEF TypeOK
    <2>4. QED
      BY <1>4, <2>2, <2>3 DEF Connect
  <1>5. ASSUME NEW w \in Workers, WriteQuery(w) PROVE Counted
    <2>1. pc[w] = "write" /\ refused' = refused
      BY <1>5 DEF WriteQuery
    <2>2. CASE pc' = [pc EXCEPT ![w] = "read"] /\ sockets' = sockets
      <3>1. Waiting' = Waiting
        BY <2>1, <2>2 DEF Waiting, TypeOK
      <3>2. QED
        BY <1>1, <2>1, <2>2, <3>1 DEF TypeOK
    <2>3. CASE pc' = [pc EXCEPT ![w] = "fail"] /\ sockets' = sockets - 1
      <3>1. Cardinality(Waiting') = Cardinality(Waiting) - 1 /\ Cardinality(Waiting') \in Nat
        BY <2>1, <2>3, WaitEnds
      <3>2. QED
        BY <1>1, <2>1, <2>3, <3>1, WaitingFinite DEF TypeOK
    <2>4. QED
      BY <1>5, <2>2, <2>3 DEF WriteQuery
  <1>6. ASSUME NEW w \in Workers, ReadAnswer(w) PROVE Counted
    <2>1. pc[w] = "read" /\ refused' = refused /\ sockets' = sockets - 1
      BY <1>6 DEF ReadAnswer
    <2>2. \E l \in {"hive", "fail"} : pc' = [pc EXCEPT ![w] = l]
      BY <1>6 DEF ReadAnswer
    <2>3. Cardinality(Waiting') = Cardinality(Waiting) - 1 /\ Cardinality(Waiting') \in Nat
      BY <2>1, <2>2, WaitEnds
    <2>4. QED
      BY <1>1, <2>1, <2>3, WaitingFinite DEF TypeOK
  <1>7. ASSUME NEW w \in Workers, CheckToken(w) PROVE Same
    BY <1>7 DEF CheckToken, Waiting, TypeOK, sockVars
  <1>8. ASSUME NEW w \in Workers, VerifyToken(w) PROVE Same
    BY <1>8 DEF VerifyToken, Waiting, TypeOK, sockVars
  <1>9. ASSUME NEW w \in Workers, PutToken(w) PROVE Same
    BY <1>9 DEF PutToken, Waiting, TypeOK, sockVars
  <1>10. ASSUME NEW w \in Workers, GetGate(w) PROVE Same
    BY <1>10 DEF GetGate, Waiting, TypeOK, sockVars
  <1>11. ASSUME NEW w \in Workers, FetchGate(w) PROVE Same
    BY <1>11 DEF FetchGate, Waiting, TypeOK, sockVars
  <1>12. ASSUME NEW w \in Workers, PutGate(w) PROVE Same
    BY <1>12 DEF PutGate, Waiting, TypeOK, sockVars
  <1>13. ASSUME NEW w \in Workers, GSet(w) PROVE Same
    BY <1>13 DEF GSet, Waiting, TypeOK, sockVars
  <1>14. ASSUME NEW w \in Workers, GSetEnd(w) PROVE Same
    BY <1>14 DEF GSetEnd, Waiting, TypeOK, sockVars
  <1>15. ASSUME NEW w \in Workers, Order(w) PROVE Same
    BY <1>15 DEF Order, Waiting, TypeOK, sockVars
  <1>16. ASSUME NEW w \in Workers, GetCache(w) PROVE Same
    BY <1>16 DEF GetCache, Waiting, TypeOK, sockVars
  <1>17. ASSUME NEW w \in Workers, PushHive(w) PROVE Same
    BY <1>17 DEF PushHive, Waiting, TypeOK, sockVars
  <1>18. ASSUME NEW w \in Workers, Parse(w) PROVE Same
    BY <1>18 DEF Parse, Waiting, TypeOK, sockVars
  <1>19. ASSUME NEW w \in Workers, Store(w) PROVE Same
    BY <1>19 DEF Store, Waiting, TypeOK, sockVars
  <1>20. ASSUME NEW w \in Workers, Charge(w) PROVE Same
    BY <1>20 DEF Charge, Waiting, TypeOK, sockVars
  <1>21. ASSUME NEW w \in Workers, Send(w) PROVE Same
    BY <1>21 DEF Send, Waiting, TypeOK, sockVars
  <1>22. ASSUME NEW w \in Workers, ReceiveBad(w) PROVE Same
    BY <1>22 DEF ReceiveBad, Waiting, TypeOK, sockVars
  <1>23. ASSUME NEW w \in Workers, NEW r \in Requests, Receive(w, r) PROVE Same
    BY <1>23 DEF Receive, Waiting, TypeOK, sockVars
  <1>24. ASSUME Settle PROVE Same
    BY <1>24 DEF Settle, workVars, Waiting, TypeOK, sockVars
  <1>25. ASSUME NEW u \in Users, ExpireToken(u) PROVE Same
    BY <1>25 DEF ExpireToken, workVars, Waiting, TypeOK, sockVars
  <1>26. ASSUME NEW u \in Users, NEW t \in Tokens, Renew(u, t) PROVE Same
    BY <1>26 DEF Renew, workVars, Waiting, TypeOK, sockVars
  <1>27. ASSUME ExpireGate PROVE Same
    BY <1>27 DEF ExpireGate, workVars, Waiting, TypeOK, sockVars
  <1>28. ASSUME NEW k \in CacheKeys, ExpireAnswer(k) PROVE Same
    BY <1>28 DEF ExpireAnswer, workVars, Waiting, TypeOK, sockVars
  <1>29. ASSUME UNCHANGED vars PROVE Same
    BY <1>29 DEF vars, workVars, sockVars, Waiting
  <1>30. QED
    BY <1>3, <1>4, <1>5, <1>6, <1>7, <1>8, <1>9, <1>10, <1>11, <1>12, <1>13, <1>14, <1>15,
       <1>16, <1>17, <1>18, <1>19, <1>20, <1>21, <1>22, <1>23, <1>24, <1>25, <1>26, <1>27,
       <1>28, <1>29 DEF Next, Step





-----------------------------------------------------------------------------
(* The key an answer is kept under                                         *)

\* Every query has its key in Redis.
LEMMA KeyOfQuery == \A q \in Queries : Md5Key(q) \in CacheKeys
  BY DEF Queries, Md5Key, CacheKeys

\* Two queries with one key, the second of type 1, 2 or 3, are about one place;
\* the operator is asked the same of them when the second is of type 2.
LEMMA SameKey ==
  ASSUME NEW q \in Queries, NEW r \in Queries, Md5Key(q) = Md5Key(r), r.type \in 1 .. 3
  PROVE  q.place = r.place /\ (r.type = 2 => Asked(q) = Asked(r))
  <1>1. r.type \in {1, 2, 3}
    OBVIOUS
  <1>2. CASE r.type = 2
    <2>1. Md5Key(r) = <<r.place, r.id>>
      BY <1>2 DEF Md5Key
    <2>2. q.type = 2
      <3>1. Len(Md5Key(q)) = 2
        BY <2>1
      <3>2. QED
        BY <3>1 DEF Md5Key
    <2>3. Md5Key(q) = <<q.place, q.id>>
      BY <2>2 DEF Md5Key
    <2>4. q.place = r.place /\ q.id = r.id
      BY <2>1, <2>3
    <2>5. QED
      BY <1>2, <2>2, <2>4 DEF Asked
  <1>3. CASE r.type \in {1, 3}
    <2>1. Md5Key(r) = <<r.place>>
      BY <1>3 DEF Md5Key
    <2>2. CASE q.type = 2
      BY <2>1, <2>2 DEF Md5Key
    <2>3. CASE q.type \in {1, 3}
      BY <2>1, <2>3 DEF Md5Key
    <2>4. CASE q.type \notin {1, 2, 3}
      BY <2>1, <2>4 DEF Md5Key
    <2>5. QED
      BY <1>3, <2>2, <2>3, <2>4
  <1>4. QED
    BY <1>1, <1>2, <1>3

-----------------------------------------------------------------------------
(* Types and requests                                                      *)

\* Every step keeps the types, given those of the sockets.
LEMMA TypeNext ==
  ASSUME TypeOK, RequestInv, [Next]_vars, sockets' \in Nat
  PROVE  TypeOK'
  <1> USE NilAssumption DEF At, Goto, Set, Get, Written, hubVars, redisVars, workVars, sockVars, gVars,
          TypeOK, RequestInv, Requests, Pcs
  <1>1. ASSUME NEW w \in Workers, CheckToken(w) PROVE TypeOK'
    BY <1>1 DEF CheckToken
  <1>2. ASSUME NEW w \in Workers, VerifyToken(w) PROVE TypeOK'
    BY <1>2 DEF VerifyToken
  <1>3. ASSUME NEW w \in Workers, PutToken(w) PROVE TypeOK'
    BY <1>3 DEF PutToken
  <1>4. ASSUME NEW w \in Workers, GetGate(w) PROVE TypeOK'
    BY <1>4 DEF GetGate
  <1>5. ASSUME NEW w \in Workers, FetchGate(w) PROVE TypeOK'
    BY <1>5 DEF FetchGate
  <1>6. ASSUME NEW w \in Workers, PutGate(w) PROVE TypeOK'
    BY <1>6 DEF PutGate
  <1>7. ASSUME NEW w \in Workers, GSet(w) PROVE TypeOK'
    BY <1>7 DEF GSet
  <1>8. ASSUME NEW w \in Workers, GSetEnd(w) PROVE TypeOK'
    BY <1>8 DEF GSetEnd
  <1>9. ASSUME NEW w \in Workers, Order(w) PROVE TypeOK'
    BY <1>9 DEF Order
  <1>10. ASSUME NEW w \in Workers, GetCache(w) PROVE TypeOK'
    <2>1. req[w].query \in Queries
      BY <1>10 DEF GetCache
    <2>2. Md5Key(req[w].query) \in CacheKeys
      BY <2>1, KeyOfQuery
    <2>3. cache[Md5Key(req[w].query)] \in Answers \cup {Nil}
      BY <2>2
    <2>4. QED
      BY <1>10, <2>3 DEF GetCache
  <1>11. ASSUME NEW w \in Workers, Connect(w) PROVE TypeOK'
    BY <1>11 DEF Connect
  <1>12. ASSUME NEW w \in Workers, WriteQuery(w) PROVE TypeOK'
    BY <1>12 DEF WriteQuery
  <1>13. ASSUME NEW w \in Workers, ReadAnswer(w) PROVE TypeOK'
    BY <1>13 DEF ReadAnswer
  <1>14. ASSUME NEW w \in Workers, PushHive(w) PROVE TypeOK'
    BY <1>14 DEF PushHive
  <1>15. ASSUME NEW w \in Workers, Parse(w) PROVE TypeOK'
    BY <1>15 DEF Parse
  <1>16. ASSUME NEW w \in Workers, Store(w) PROVE TypeOK'
    BY <1>16 DEF Store
  <1>17. ASSUME NEW w \in Workers, Charge(w) PROVE TypeOK'
    BY <1>17 DEF Charge
  <1>18. ASSUME NEW w \in Workers, Send(w) PROVE TypeOK'
    BY <1>18 DEF Send
  <1>19. ASSUME NEW w \in Workers, ReceiveBad(w) PROVE TypeOK'
    BY <1>19 DEF ReceiveBad
  <1>20. ASSUME NEW w \in Workers, NEW r \in Requests, Receive(w, r) PROVE TypeOK'
    BY <1>20 DEF Receive
  <1>21. ASSUME Settle PROVE TypeOK'
    BY <1>21 DEF Settle
  <1>22. ASSUME NEW u \in Users, ExpireToken(u) PROVE TypeOK'
    BY <1>22 DEF ExpireToken
  <1>23. ASSUME NEW u \in Users, NEW t \in Tokens, Renew(u, t) PROVE TypeOK'
    BY <1>23 DEF Renew
  <1>24. ASSUME ExpireGate PROVE TypeOK'
    BY <1>24 DEF ExpireGate
  <1>25. ASSUME NEW k \in CacheKeys, ExpireAnswer(k) PROVE TypeOK'
    BY <1>25 DEF ExpireAnswer
  <1>26. ASSUME UNCHANGED vars PROVE TypeOK'
    BY <1>26 DEF vars
  <1>27. QED
        BY <1>1, <1>2, <1>3, <1>4, <1>5, <1>6, <1>7, <1>8, <1>9, <1>10, <1>11, <1>12, <1>13,
       <1>14, <1>15, <1>16, <1>17, <1>18, <1>19, <1>20, <1>21, <1>22, <1>23, <1>24, <1>25,
       <1>26 DEF Next, Step

\* A worker keeps its request until it sends a reply.
LEMMA RequestNext ==
  ASSUME TypeOK, RequestInv, [Next]_vars
  PROVE  RequestInv'
  <1> USE DEF At, Goto, Set, Get, Written, hubVars, redisVars, workVars, sockVars, gVars,
          TypeOK, RequestInv
  <1>1. ASSUME NEW w \in Workers, CheckToken(w) PROVE RequestInv'
    BY <1>1 DEF CheckToken
  <1>2. ASSUME NEW w \in Workers, VerifyToken(w) PROVE RequestInv'
    BY <1>2 DEF VerifyToken
  <1>3. ASSUME NEW w \in Workers, PutToken(w) PROVE RequestInv'
    BY <1>3 DEF PutToken
  <1>4. ASSUME NEW w \in Workers, GetGate(w) PROVE RequestInv'
    BY <1>4 DEF GetGate
  <1>5. ASSUME NEW w \in Workers, FetchGate(w) PROVE RequestInv'
    BY <1>5 DEF FetchGate
  <1>6. ASSUME NEW w \in Workers, PutGate(w) PROVE RequestInv'
    BY <1>6 DEF PutGate
  <1>7. ASSUME NEW w \in Workers, GSet(w) PROVE RequestInv'
    BY <1>7 DEF GSet
  <1>8. ASSUME NEW w \in Workers, GSetEnd(w) PROVE RequestInv'
    BY <1>8 DEF GSetEnd
  <1>9. ASSUME NEW w \in Workers, Order(w) PROVE RequestInv'
    BY <1>9 DEF Order
  <1>10. ASSUME NEW w \in Workers, GetCache(w) PROVE RequestInv'
    BY <1>10 DEF GetCache
  <1>11. ASSUME NEW w \in Workers, Connect(w) PROVE RequestInv'
    BY <1>11 DEF Connect
  <1>12. ASSUME NEW w \in Workers, WriteQuery(w) PROVE RequestInv'
    BY <1>12 DEF WriteQuery
  <1>13. ASSUME NEW w \in Workers, ReadAnswer(w) PROVE RequestInv'
    BY <1>13 DEF ReadAnswer
  <1>14. ASSUME NEW w \in Workers, PushHive(w) PROVE RequestInv'
    BY <1>14 DEF PushHive
  <1>15. ASSUME NEW w \in Workers, Parse(w) PROVE RequestInv'
    BY <1>15 DEF Parse
  <1>16. ASSUME NEW w \in Workers, Store(w) PROVE RequestInv'
    BY <1>16 DEF Store
  <1>17. ASSUME NEW w \in Workers, Charge(w) PROVE RequestInv'
    BY <1>17 DEF Charge
  <1>18. ASSUME NEW w \in Workers, Send(w) PROVE RequestInv'
    BY <1>18 DEF Send
  <1>19. ASSUME NEW w \in Workers, ReceiveBad(w) PROVE RequestInv'
    BY <1>19 DEF ReceiveBad
  <1>20. ASSUME NEW w \in Workers, NEW r \in Requests, Receive(w, r) PROVE RequestInv'
    BY <1>20 DEF Receive
  <1>21. ASSUME Settle PROVE RequestInv'
    BY <1>21 DEF Settle
  <1>22. ASSUME NEW u \in Users, ExpireToken(u) PROVE RequestInv'
    BY <1>22 DEF ExpireToken
  <1>23. ASSUME NEW u \in Users, NEW t \in Tokens, Renew(u, t) PROVE RequestInv'
    BY <1>23 DEF Renew
  <1>24. ASSUME ExpireGate PROVE RequestInv'
    BY <1>24 DEF ExpireGate
  <1>25. ASSUME NEW k \in CacheKeys, ExpireAnswer(k) PROVE RequestInv'
    BY <1>25 DEF ExpireAnswer
  <1>26. ASSUME UNCHANGED vars PROVE RequestInv'
    BY <1>26 DEF vars
  <1>27. QED
        BY <1>1, <1>2, <1>3, <1>4, <1>5, <1>6, <1>7, <1>8, <1>9, <1>10, <1>11, <1>12, <1>13,
       <1>14, <1>15, <1>16, <1>17, <1>18, <1>19, <1>20, <1>21, <1>22, <1>23, <1>24, <1>25,
       <1>26 DEF Next, Step

BaseInv == TypeOK /\ SocketsAccounted /\ RequestInv

\* At the start no worker has a request and no socket is open.
LEMMA BaseInit == Init => BaseInv
  <1> SUFFICES ASSUME Init PROVE BaseInv
    OBVIOUS
  <1>1. TypeOK
    BY DEF Init, TypeOK, Pcs
  <1>2. SocketsAccounted
    <2>1. Waiting = {}
      BY DEF Init, Waiting
    <2>2. Cardinality(Waiting) = 0
      BY <2>1, FS_EmptySet, Zenon
    <2>3. QED
      BY <2>2 DEF Init, SocketsAccounted, Waiting
  <1>3. RequestInv
    BY DEF Init, RequestInv
  <1>4. QED
    BY <1>1, <1>2, <1>3 DEF BaseInv

\* Every step keeps the three.
LEMMA BaseNext == BaseInv /\ [Next]_vars => BaseInv'
  BY TypeNext, SocketsNext, RequestNext DEF BaseInv

\* So they hold in every reachable state.
LEMMA BaseAlways == Spec => []BaseInv
  BY BaseInit, BaseNext, PTL DEF Spec

\* Every variable keeps its type; the number of sockets never falls below zero.
THEOREM TypeCorrect == Spec => []TypeOK
  BY BaseAlways, PTL DEF BaseInv

\* Every socket to the operator is open for a request that waits for its answer, or was lost
\* when BdxGetHttpPacket returned 2001 without a close.
THEOREM SocketsNeverLeak == Spec => []SocketsAccounted
  BY BaseAlways, PTL DEF BaseInv

-----------------------------------------------------------------------------
(* Who is served                                                           *)

\* Every step keeps the tokens in Redis and the requests admitted verified.
LEMMA VerifiedNext ==
  ASSUME TypeOK, RequestInv, ServedVerified, [Next]_vars
  PROVE  ServedVerified'
  <1> USE NilAssumption DEF At, Goto, Set, Get, Written, hubVars, redisVars, workVars, sockVars, gVars,
          TypeOK, RequestInv, Requests, ServedVerified, Admitted
  <1>1. ASSUME NEW w \in Workers, CheckToken(w) PROVE ServedVerified'
    BY <1>1 DEF CheckToken
  <1>2. ASSUME NEW w \in Workers, VerifyToken(w) PROVE ServedVerified'
    BY <1>2 DEF VerifyToken
  <1>3. ASSUME NEW w \in Workers, PutToken(w) PROVE ServedVerified'
    BY <1>3 DEF PutToken
  <1>4. ASSUME NEW w \in Workers, GetGate(w) PROVE ServedVerified'
    BY <1>4 DEF GetGate
  <1>5. ASSUME NEW w \in Workers, FetchGate(w) PROVE ServedVerified'
    BY <1>5 DEF FetchGate
  <1>6. ASSUME NEW w \in Workers, PutGate(w) PROVE ServedVerified'
    BY <1>6 DEF PutGate
  <1>7. ASSUME NEW w \in Workers, GSet(w) PROVE ServedVerified'
    BY <1>7 DEF GSet
  <1>8. ASSUME NEW w \in Workers, GSetEnd(w) PROVE ServedVerified'
    BY <1>8 DEF GSetEnd
  <1>9. ASSUME NEW w \in Workers, Order(w) PROVE ServedVerified'
    BY <1>9 DEF Order
  <1>10. ASSUME NEW w \in Workers, GetCache(w) PROVE ServedVerified'
    BY <1>10 DEF GetCache
  <1>11. ASSUME NEW w \in Workers, Connect(w) PROVE ServedVerified'
    BY <1>11 DEF Connect
  <1>12. ASSUME NEW w \in Workers, WriteQuery(w) PROVE ServedVerified'
    BY <1>12 DEF WriteQuery
  <1>13. ASSUME NEW w \in Workers, ReadAnswer(w) PROVE ServedVerified'
    BY <1>13 DEF ReadAnswer
  <1>14. ASSUME NEW w \in Workers, PushHive(w) PROVE ServedVerified'
    BY <1>14 DEF PushHive
  <1>15. ASSUME NEW w \in Workers, Parse(w) PROVE ServedVerified'
    BY <1>15 DEF Parse
  <1>16. ASSUME NEW w \in Workers, Store(w) PROVE ServedVerified'
    BY <1>16 DEF Store
  <1>17. ASSUME NEW w \in Workers, Charge(w) PROVE ServedVerified'
    BY <1>17 DEF Charge
  <1>18. ASSUME NEW w \in Workers, Send(w) PROVE ServedVerified'
    BY <1>18 DEF Send
  <1>19. ASSUME NEW w \in Workers, ReceiveBad(w) PROVE ServedVerified'
    BY <1>19 DEF ReceiveBad
  <1>20. ASSUME NEW w \in Workers, NEW r \in Requests, Receive(w, r) PROVE ServedVerified'
    BY <1>20 DEF Receive
  <1>21. ASSUME Settle PROVE ServedVerified'
    BY <1>21 DEF Settle
  <1>22. ASSUME NEW u \in Users, ExpireToken(u) PROVE ServedVerified'
    BY <1>22 DEF ExpireToken
  <1>23. ASSUME NEW u \in Users, NEW t \in Tokens, Renew(u, t) PROVE ServedVerified'
    BY <1>23 DEF Renew
  <1>24. ASSUME ExpireGate PROVE ServedVerified'
    BY <1>24 DEF ExpireGate
  <1>25. ASSUME NEW k \in CacheKeys, ExpireAnswer(k) PROVE ServedVerified'
    BY <1>25 DEF ExpireAnswer
  <1>26. ASSUME UNCHANGED vars PROVE ServedVerified'
    BY <1>26 DEF vars
  <1>27. QED
        BY <1>1, <1>2, <1>3, <1>4, <1>5, <1>6, <1>7, <1>8, <1>9, <1>10, <1>11, <1>12, <1>13,
       <1>14, <1>15, <1>16, <1>17, <1>18, <1>19, <1>20, <1>21, <1>22, <1>23, <1>24, <1>25,
       <1>26 DEF Next, Step

\* Only a user whose token DataHub accepted is admitted past the token check.
THEOREM OnlyVerifiedServed == Spec => []ServedVerified
  <1>1. Init => ServedVerified
    BY DEF Init, ServedVerified, Admitted
  <1>2. BaseInv /\ ServedVerified /\ [Next]_vars => ServedVerified'
    BY VerifiedNext DEF BaseInv
  <1>3. QED
    BY <1>1, <1>2, BaseAlways, PTL DEF Spec

-----------------------------------------------------------------------------
(* The gateway's token                                                     *)

\* Every step keeps the gateway's tokens issued.
LEMMA GateNext ==
  ASSUME TypeOK, GateInv, [Next]_vars
  PROVE  GateInv'
  <1> USE NilAssumption DEF At, Goto, Set, Get, Written, hubVars, redisVars, workVars, sockVars, gVars,
          TypeOK, GateInv, SettledWithIssued, Assigning
  <1>1. ASSUME NEW w \in Workers, CheckToken(w) PROVE GateInv'
    BY <1>1 DEF CheckToken
  <1>2. ASSUME NEW w \in Workers, VerifyToken(w) PROVE GateInv'
    BY <1>2 DEF VerifyToken
  <1>3. ASSUME NEW w \in Workers, PutToken(w) PROVE GateInv'
    BY <1>3 DEF PutToken
  <1>4. ASSUME NEW w \in Workers, GetGate(w) PROVE GateInv'
    BY <1>4 DEF GetGate
  <1>5. ASSUME NEW w \in Workers, FetchGate(w) PROVE GateInv'
    BY <1>5 DEF FetchGate
  <1>6. ASSUME NEW w \in Workers, PutGate(w) PROVE GateInv'
    BY <1>6 DEF PutGate
  <1>7. ASSUME NEW w \in Workers, GSet(w) PROVE GateInv'
    BY <1>7 DEF GSet
  <1>8. ASSUME NEW w \in Workers, GSetEnd(w) PROVE GateInv'
    BY <1>8 DEF GSetEnd
  <1>9. ASSUME NEW w \in Workers, Order(w) PROVE GateInv'
    BY <1>9 DEF Order
  <1>10. ASSUME NEW w \in Workers, GetCache(w) PROVE GateInv'
    BY <1>10 DEF GetCache
  <1>11. ASSUME NEW w \in Workers, Connect(w) PROVE GateInv'
    BY <1>11 DEF Connect
  <1>12. ASSUME NEW w \in Workers, WriteQuery(w) PROVE GateInv'
    BY <1>12 DEF WriteQuery
  <1>13. ASSUME NEW w \in Workers, ReadAnswer(w) PROVE GateInv'
    BY <1>13 DEF ReadAnswer
  <1>14. ASSUME NEW w \in Workers, PushHive(w) PROVE GateInv'
    BY <1>14 DEF PushHive
  <1>15. ASSUME NEW w \in Workers, Parse(w) PROVE GateInv'
    BY <1>15 DEF Parse
  <1>16. ASSUME NEW w \in Workers, Store(w) PROVE GateInv'
    BY <1>16 DEF Store
  <1>17. ASSUME NEW w \in Workers, Charge(w) PROVE GateInv'
    BY <1>17 DEF Charge
  <1>18. ASSUME NEW w \in Workers, Send(w) PROVE GateInv'
    BY <1>18 DEF Send
  <1>19. ASSUME NEW w \in Workers, ReceiveBad(w) PROVE GateInv'
    BY <1>19 DEF ReceiveBad
  <1>20. ASSUME NEW w \in Workers, NEW r \in Requests, Receive(w, r) PROVE GateInv'
    BY <1>20 DEF Receive
  <1>21. ASSUME Settle PROVE GateInv'
    BY <1>21 DEF Settle
  <1>22. ASSUME NEW u \in Users, ExpireToken(u) PROVE GateInv'
    BY <1>22 DEF ExpireToken
  <1>23. ASSUME NEW u \in Users, NEW t \in Tokens, Renew(u, t) PROVE GateInv'
    BY <1>23 DEF Renew
  <1>24. ASSUME ExpireGate PROVE GateInv'
    BY <1>24 DEF ExpireGate
  <1>25. ASSUME NEW k \in CacheKeys, ExpireAnswer(k) PROVE GateInv'
    BY <1>25 DEF ExpireAnswer
  <1>26. ASSUME UNCHANGED vars PROVE GateInv'
    BY <1>26 DEF vars
  <1>27. QED
        BY <1>1, <1>2, <1>3, <1>4, <1>5, <1>6, <1>7, <1>8, <1>9, <1>10, <1>11, <1>12, <1>13,
       <1>14, <1>15, <1>16, <1>17, <1>18, <1>19, <1>20, <1>21, <1>22, <1>23, <1>24, <1>25,
       <1>26 DEF Next, Step

\* Without two threads at g_strDataHubToken at once, the process lives and the update thread
\* sends a token DataHub issued or none.
THEOREM OnlyIssuedSettled == Spec => []SettledWithIssued
  <1>1. Init => GateInv
    BY DEF Init, GateInv, SettledWithIssued
  <1>2. BaseInv /\ GateInv /\ [Next]_vars => GateInv'
    BY GateNext DEF BaseInv
  <1>3. GateInv => SettledWithIssued
    BY DEF GateInv
  <1>4. QED
    BY <1>1, <1>2, <1>3, BaseAlways, PTL DEF Spec

-----------------------------------------------------------------------------
(* What is answered from Redis                                             *)

\* Every step keeps each answer with a query of its key.
LEMMA AnswerNext ==
  ASSUME TypeOK, RequestInv, AnswerInv, [Next]_vars
  PROVE  AnswerInv'
  <1> USE NilAssumption DEF At, Goto, Set, Get, Written, hubVars, redisVars, workVars, sockVars, gVars,
          TypeOK, RequestInv, Requests, Answers, AnswerInv
  <1>1. ASSUME NEW w \in Workers, CheckToken(w) PROVE AnswerInv'
    BY <1>1 DEF CheckToken
  <1>2. ASSUME NEW w \in Workers, VerifyToken(w) PROVE AnswerInv'
    BY <1>2 DEF VerifyToken
  <1>3. ASSUME NEW w \in Workers, PutToken(w) PROVE AnswerInv'
    BY <1>3 DEF PutToken
  <1>4. ASSUME NEW w \in Workers, GetGate(w) PROVE AnswerInv'
    BY <1>4 DEF GetGate
  <1>5. ASSUME NEW w \in Workers, FetchGate(w) PROVE AnswerInv'
    BY <1>5 DEF FetchGate
  <1>6. ASSUME NEW w \in Workers, PutGate(w) PROVE AnswerInv'
    BY <1>6 DEF PutGate
  <1>7. ASSUME NEW w \in Workers, GSet(w) PROVE AnswerInv'
    BY <1>7 DEF GSet
  <1>8. ASSUME NEW w \in Workers, GSetEnd(w) PROVE AnswerInv'
    BY <1>8 DEF GSetEnd
  <1>9. ASSUME NEW w \in Workers, Order(w) PROVE AnswerInv'
    BY <1>9 DEF Order
  <1>10. ASSUME NEW w \in Workers, GetCache(w) PROVE AnswerInv'
    <2>1. req[w].query \in Queries /\ req[w] \in Requests
      BY <1>10 DEF GetCache
    <2>2. Md5Key(req[w].query) \in CacheKeys
      BY <2>1, KeyOfQuery
    <2>3. PICK v \in Answers \cup {Nil} :
             /\ v # Nil => v = cache[Md5Key(req[w].query)]
             /\ answer' = [answer EXCEPT ![w] = v]
             /\ local' = [local EXCEPT ![w] = v # Nil]
             /\ pc' = [pc EXCEPT ![w] = IF v = Nil THEN "connect" ELSE "hive"]
      <3>1. cache[Md5Key(req[w].query)] \in Answers \cup {Nil}
        BY <2>2
      <3>2. QED
        BY <1>10, <3>1 DEF GetCache
    <2>4. UNCHANGED <<cache, req>>
      BY <1>10 DEF GetCache
    <2>5. v # Nil => v \in Answers /\ Md5Key(v.to) = Md5Key(req[w].query)
      BY <2>2, <2>3
    <2>6. CASE v = Nil
      <3>1. ~local'[w] /\ pc'[w] = "connect"
        BY <2>3, <2>6
      <3>2. \A x \in Workers \ {w} : /\ local'[x] = local[x] /\ pc'[x] = pc[x]
                                     /\ answer'[x] = answer[x]
        BY <2>3
      <3>3. QED
        BY <2>4, <3>1, <3>2
    <2>7. CASE v # Nil
      BY <2>1, <2>3, <2>4, <2>5, <2>7
    <2>8. QED
      BY <2>6, <2>7
  <1>11. ASSUME NEW w \in Workers, Connect(w) PROVE AnswerInv'
    BY <1>11 DEF Connect
  <1>12. ASSUME NEW w \in Workers, WriteQuery(w) PROVE AnswerInv'
    BY <1>12 DEF WriteQuery
  <1>13. ASSUME NEW w \in Workers, ReadAnswer(w) PROVE AnswerInv'
    BY <1>13 DEF ReadAnswer
  <1>14. ASSUME NEW w \in Workers, PushHive(w) PROVE AnswerInv'
    BY <1>14 DEF PushHive
  <1>15. ASSUME NEW w \in Workers, Parse(w) PROVE AnswerInv'
    BY <1>15 DEF Parse
  <1>16. ASSUME NEW w \in Workers, Store(w) PROVE AnswerInv'
    <2>1. /\ answer[w] \in Answers
          /\ answer[w].parses
          /\ Md5Key(answer[w].to) = Md5Key(req[w].query)
      BY <1>16 DEF Store
    <2>2. QED
      BY <1>16, <2>1 DEF Store
  <1>17. ASSUME NEW w \in Workers, Charge(w) PROVE AnswerInv'
    BY <1>17 DEF Charge
  <1>18. ASSUME NEW w \in Workers, Send(w) PROVE AnswerInv'
    BY <1>18 DEF Send
  <1>19. ASSUME NEW w \in Workers, ReceiveBad(w) PROVE AnswerInv'
    BY <1>19 DEF ReceiveBad
  <1>20. ASSUME NEW w \in Workers, NEW r \in Requests, Receive(w, r) PROVE AnswerInv'
    BY <1>20 DEF Receive
  <1>21. ASSUME Settle PROVE AnswerInv'
    BY <1>21 DEF Settle
  <1>22. ASSUME NEW u \in Users, ExpireToken(u) PROVE AnswerInv'
    BY <1>22 DEF ExpireToken
  <1>23. ASSUME NEW u \in Users, NEW t \in Tokens, Renew(u, t) PROVE AnswerInv'
    BY <1>23 DEF Renew
  <1>24. ASSUME ExpireGate PROVE AnswerInv'
    BY <1>24 DEF ExpireGate
  <1>25. ASSUME NEW k \in CacheKeys, ExpireAnswer(k) PROVE AnswerInv'
    BY <1>25 DEF ExpireAnswer
  <1>26. ASSUME UNCHANGED vars PROVE AnswerInv'
    BY <1>26 DEF vars
  <1>27. QED
        BY <1>1, <1>2, <1>3, <1>4, <1>5, <1>6, <1>7, <1>8, <1>9, <1>10, <1>11, <1>12, <1>13,
       <1>14, <1>15, <1>16, <1>17, <1>18, <1>19, <1>20, <1>21, <1>22, <1>23, <1>24, <1>25,
       <1>26 DEF Next, Step

\* What a request is answered from Redis parses and is about its own place and, for type 2,
\* what it would have asked the operator for.
THEOREM CachedAnswersFit == Spec => []CacheUsable
  <1>1. Init => AnswerInv
    BY DEF Init, AnswerInv
  <1>2. BaseInv /\ AnswerInv /\ [Next]_vars => AnswerInv'
    BY AnswerNext DEF BaseInv
  <1>3. AnswerInv => CacheUsable
    <2> SUFFICES ASSUME AnswerInv PROVE CacheUsable
      OBVIOUS
    <2>1. \A k \in CacheKeys : cache[k] # Nil => cache[k].parses
      BY DEF AnswerInv
    <2>2. ASSUME NEW w \in Workers, local[w], req[w].query.type \in 1 .. 3
          PROVE  /\ answer[w].to.place = req[w].query.place
                 /\ req[w].query.type = 2 => Asked(answer[w].to) = Asked(req[w].query)
      <3>1. answer[w].to \in Queries /\ req[w].query \in Queries
        BY <2>2 DEF AnswerInv, Answers, Requests
      <3>2. Md5Key(answer[w].to) = Md5Key(req[w].query)
        BY <2>2 DEF AnswerInv
      <3>3. QED
        BY <2>2, <3>1, <3>2, SameKey
    <2>3. QED
      BY <2>1, <2>2 DEF CacheUsable
  <1>4. QED
    BY <1>1, <1>2, <1>3, BaseAlways, PTL DEF Spec

=============================================================================
