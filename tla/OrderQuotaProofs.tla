-------------------------- MODULE OrderQuotaProofs --------------------------
(***************************************************************************)
(* Proofs about OrderQuota, for any number of workers, orders and items.   *)
(***************************************************************************)
EXTENDS OrderQuota, FiniteSetTheorems, WellFoundedInduction, TLAPS

-----------------------------------------------------------------------------
(* The parts of the inductive invariant.                                   *)

Loading == {"sadd", "putcount", "putexpire", "putlimit", "putstatus",
            "retrieve", "skip"}
PastCheck == {"limit", "expire", "serve", "incr"}
Judging == {"limit", "expire", "serve", "incr", "remove", "status", "hub",
            "smove", "settle"}
UpdJudging == {"limit", "expire", "settle", "smove", "remove", "hub"}

\* A worker that is storing orders has one in hand, of the item it was asked
\* for, and so are the orders it has still to store.
LoadsOrder ==
  \A w \in Workers :
    /\ pc[w] \in Loading => sub[w] \in Orders /\ ItemOf[sub[w]] = item[w]
    /\ pc[w] \in Loading \cup {"load"} =>
         \A o \in list[w] : ItemOf[o] = item[w]

\* The update thread past the status of a member has that member in hand.
MemberRead == upc \in {"count"} \cup UpdJudging => member \in Keys

\* A count or a limit is kept only for an order and its own item, and the
\* limit is the order's.
KeysOfOrders ==
  \A k \in Keys :
    /\ orderCount[k] # Nil => k[2] \in Orders /\ k[1] = ItemOf[k[2]]
    /\ orderLimit[k] # Nil => k[2] \in Orders /\ orderLimit[k] = Units[k[2]]

\* A thread that has read a count holds no more than was served, and the
\* count is there.
ReadBehind ==
  /\ \A w \in Workers : pc[w] \in Judging =>
       orderCount[Key(w)] # Nil /\ count[w] <= served[Key(w)]
  /\ upc \in UpdJudging =>
       orderCount[member] # Nil /\ ucount <= served[member]

\* The counts themselves never run ahead of what was served.
CountBehind == \A k \in Keys : orderCount[k] # Nil => orderCount[k] <= served[k]

\* A worker on its way to a reply read a count below the limit.
BelowLimit ==
  \A w \in Workers : pc[w] \in {"expire", "serve", "incr"} =>
                       count[w] < Units[sub[w]]

\* The workers that read a count of k below the limit and may still add to it.
Past(k) ==
  {w \in Workers : pc[w] \in PastCheck /\ Key(w) = k /\ count[w] < Units[k[2]]}

\* The count, with the increments that are on the way, is within the limit
\* and the overshoot.
Bounded ==
  \A k \in Keys : orderCount[k] # Nil =>
    orderCount[k] + Cardinality(Past(k)) <= Units[k[2]] + Overshoot

\* What of the order in its hand a loading worker has stored so far.
StoredSoFar ==
  ~RedisFaults =>
    \A w \in Workers :
      /\ pc[w] \in {"putcount", "putexpire", "putlimit", "putstatus", "retrieve"}
           => Key(w) \in needUpdate \cup alreadyUpdate
      /\ pc[w] \in {"putexpire", "putlimit", "putstatus", "retrieve"}
           => orderCount[Key(w)] # Nil
      /\ pc[w] \in {"putstatus", "retrieve"} => orderLimit[Key(w)] # Nil
      /\ pc[w] = "retrieve" => orderStatus[Key(w)] # Nil

-----------------------------------------------------------------------------
(* Types.                                                                  *)

\* The lowest order of a set of orders is one of them, or none.
LEMMA LowestType ==
  ASSUME NEW s \in SUBSET Orders
  PROVE  Lowest(s) \in Orders \cup {NoOrder}
<1>1. CASE s = {}
  BY <1>1 DEF Lowest
<1>2. CASE s # {}
  <2> DEFINE R == OpToRel(<, Nat)
  <2>1. IsWellFoundedOn(R, Nat)
    BY NatLessThanWellFounded
  <2>2. s \subseteq Nat
    BY OrdersAssumption
  <2>3. \A x, y \in Nat : <<y, x>> \in R <=> y < x
    BY DEF OpToRel
  <2> HIDE DEF R
  <2>4. \E x \in s : \A y \in s : ~ (<<y, x>> \in R)
    BY <1>2, <2>1, <2>2, WFMin
  <2>5. \E o \in s : \A p \in s : o <= p
    <3>1. PICK x \in s : \A y \in s : ~ (<<y, x>> \in R)
      BY <2>4
    <3>2. ASSUME NEW y \in s PROVE x <= y
      <4>1. x \in Nat /\ y \in Nat
        BY <2>2
      <4>2. ~ (y < x)
        BY <2>3, <3>1, <4>1
      <4>3. QED
        BY <4>1, <4>2
    <3>3. QED
      BY <3>2
  <2>6. QED
    BY <1>2, <2>5 DEF Lowest
<1>3. QED
  BY <1>1, <1>2

\* Reading, removing and writing keep the sorted set a set of orders.
LEMMA RemoveType ==
  ASSUME orderid \subseteq Orders, RemoveLowest
  PROVE  orderid' \subseteq Orders
BY DEF RemoveLowest, Write

\* SMOVE keeps the types of the two sets it works on.
LEMMA SmoveType ==
  ASSUME needUpdate \subseteq Keys, alreadyUpdate \subseteq Keys,
         NEW k, Smove(k)
  PROVE  needUpdate' \subseteq Keys /\ alreadyUpdate' \subseteq Keys
BY DEF Smove

\* Everything starts with a value of its type.
LEMMA TypeInit == Init => TypeOK
BY DEF Init, TypeOK, WorkPcs, UpdatePcs, Phases

\* A worker's loading of orders keeps the types.
LEMMA TypeLoad ==
  ASSUME TypeOK, LoadsOrder, NEW w \in Workers, Load(w)
  PROVE  TypeOK'
<1> USE DEF Goto, Sub, Key, redis, hub, work, update
<1>1. CASE ZRange(w)
  <2>1. Lowest(orderid) \in Orders \cup {NoOrder}
    BY LowestType DEF TypeOK
  <2>2. QED
    BY <1>1, <2>1 DEF TypeOK, ZRange, WorkPcs
<1>2. CASE Fetch(w)
  BY <1>2 DEF TypeOK, Fetch, WorkPcs
<1>3. CASE ZAdd(w)
  BY <1>3 DEF TypeOK, ZAdd, Write, WorkPcs
<1>4. CASE SAdd(w)
  BY <1>4 DEF TypeOK, SAdd, Write, WorkPcs, Keys
<1>5. CASE PutCount(w)
  <2>1. orderCount' \in [Keys -> Nat \cup {Nil}]
    BY <1>5 DEF TypeOK, PutCount, Write
  <2>2. QED
    BY <1>5, <2>1 DEF TypeOK, PutCount, WorkPcs
<1>6. CASE PutExpire(w)
  BY <1>6 DEF TypeOK, PutExpire, Write, WorkPcs, Keys
<1>7. CASE PutLimit(w)
  <2>1. Units[sub[w]] \in Nat
    BY <1>7, UnitsAssumption DEF LoadsOrder, Loading, PutLimit
  <2>2. orderLimit' \in [Keys -> Nat \cup {Nil}]
    BY <1>7, <2>1 DEF TypeOK, PutLimit, Write
  <2>3. QED
    BY <1>7, <2>2 DEF TypeOK, PutLimit, WorkPcs
<1>8. CASE PutStatus(w)
  BY <1>8 DEF TypeOK, PutStatus, Write, WorkPcs
<1>9. CASE SetRetrieved(w)
  BY <1>9 DEF TypeOK, SetRetrieved, WorkPcs, Phases
<1>10. CASE Skip(w)
  BY <1>10, RemoveType DEF TypeOK, Skip, WorkPcs
<1>11. CASE ZRangeAgain(w)
  <2>1. Lowest(orderid) \in Orders \cup {NoOrder}
    BY LowestType DEF TypeOK
  <2>2. QED
    BY <1>11, <2>1 DEF TypeOK, ZRangeAgain, WorkPcs
<1>12. QED
  BY <1>1, <1>2, <1>3, <1>4, <1>5, <1>6, <1>7, <1>8, <1>9, <1>10, <1>11
     DEF Load

\* A value read from Redis is the key's or a failure.
LEMMA GetType ==
  ASSUME NEW S, NEW x \in S, Nil \in S
  PROVE  \A v \in Get(x) : v \in S
BY DEF Get

\* A worker's check of the order and the reply keep the types.
LEMMA TypeCheck ==
  ASSUME TypeOK, NEW w \in Workers, Check(w)
  PROVE  TypeOK'
<1> USE DEF Goto, Sub, Return, redis, hub, work, update
<1>0. Key(w) \in Keys
  BY DEF TypeOK, Key, Keys
<1>1. CASE GetCount(w)
  <2>1. \A v \in Get(orderCount[Key(w)]) : v \in Nat \cup {Nil}
    BY <1>0, GetType DEF TypeOK
  <2>2. QED
    BY <1>1, <2>1 DEF TypeOK, GetCount, WorkPcs
<1>2. CASE GetLimit(w)
  BY <1>2 DEF TypeOK, GetLimit, WorkPcs
<1>3. CASE GetExpire(w)
  BY <1>3 DEF TypeOK, GetExpire, WorkPcs
<1>4. CASE Serve(w)
  BY <1>4 DEF TypeOK, Serve, WorkPcs
<1>5. CASE Incr(w)
  <2>1. orderCount' \in [Keys -> Nat \cup {Nil}]
    BY <1>0, <1>5 DEF TypeOK, Incr, Write
  <2>2. served' \in [Keys -> Nat]
    BY <1>0, <1>5 DEF TypeOK, Incr
  <2>3. QED
    BY <1>5, <2>1, <2>2 DEF TypeOK, Incr, WorkPcs
<1>6. QED
  BY <1>1, <1>2, <1>3, <1>4, <1>5 DEF Check

\* A worker's closing of an order keeps the types.
LEMMA TypeClose ==
  ASSUME TypeOK, NEW w \in Workers, CloseOrder(w)
  PROVE  TypeOK'
<1> USE DEF Goto, Sub, Return, redis, hub, work, update
<1>1. CASE Remove(w)
  BY <1>1, RemoveType DEF TypeOK, Remove, WorkPcs
<1>2. CASE GetStatus(w)
  BY <1>2 DEF TypeOK, GetStatus, WorkPcs
<1>3. CASE TellHub(w)
  BY <1>3 DEF TypeOK, TellHub, SetPlanUsed, WorkPcs
<1>4. CASE MoveToAlready(w)
  BY <1>4, SmoveType DEF TypeOK, MoveToAlready, WorkPcs
<1>5. CASE Settle(w)
  BY <1>5 DEF TypeOK, Settle, Write, WorkPcs
<1>6. QED
  BY <1>1, <1>2, <1>3, <1>4, <1>5 DEF CloseOrder

\* The update thread keeps the types.
LEMMA TypeUpdate ==
  ASSUME TypeOK, MemberRead, UpdateStep
  PROVE  TypeOK'
<1> USE DEF UpdReturn, redis, hub, work, update
<1>1. CASE NewDay
  BY <1>1 DEF TypeOK, NewDay, UpdatePcs
<1>2. CASE DayDone
  BY <1>2 DEF TypeOK, DayDone, UpdatePcs
<1>3. CASE NextMember
  BY <1>3 DEF TypeOK, NextMember, UpdatePcs
<1>4. CASE UpdGetCount
  <2>1. member \in Keys
    BY <1>4 DEF MemberRead, UpdGetCount
  <2>2. \A v \in Get(orderCount[member]) : v \in Nat \cup {Nil}
    BY <2>1, GetType DEF TypeOK
  <2>3. QED
    BY <1>4, <2>2 DEF TypeOK, UpdGetCount, UpdatePcs
<1>5. CASE UpdGetLimit
  BY <1>5 DEF TypeOK, UpdGetLimit, UpdatePcs
<1>6. CASE UpdGetExpire
  BY <1>6 DEF TypeOK, UpdGetExpire, UpdatePcs
<1>7. CASE UpdSettle
  BY <1>7 DEF TypeOK, UpdSettle, Write, UpdatePcs
<1>8. CASE UpdMove
  BY <1>8, SmoveType DEF TypeOK, UpdMove, UpdatePcs
<1>9. CASE UpdRemove
  BY <1>9, RemoveType DEF TypeOK, UpdRemove, UpdatePcs
<1>10. CASE UpdTellHub
  BY <1>10 DEF TypeOK, UpdTellHub, SetPlanUsed, UpdatePcs
<1>11. QED
  BY <1>1, <1>2, <1>3, <1>4, <1>5, <1>6, <1>7, <1>8, <1>9, <1>10
     DEF UpdateStep

\* Every step keeps the types.
LEMMA TypeNext ==
  ASSUME TypeOK, LoadsOrder, MemberRead, [Next]_vars
  PROVE  TypeOK'
<1> USE DEF redis, hub, work, update
<1>1. ASSUME NEW w \in Workers, NEW i \in Items, Request(w, i)
      PROVE  TypeOK'
  BY <1>1 DEF TypeOK, Request, Goto, WorkPcs
<1>2. CASE Crash
  BY <1>2 DEF TypeOK, Crash, WorkPcs, UpdatePcs
<1>3. ASSUME NEW o \in Orders, Buy(o)
      PROVE  TypeOK'
  BY <1>3 DEF TypeOK, Buy, Phases
<1>4. ASSUME NEW k \in Keys, Expires(k)
      PROVE  TypeOK'
  BY <1>4 DEF TypeOK, Expires
<1>5. CASE UNCHANGED vars
  BY <1>5 DEF TypeOK, vars
<1>6. QED
  BY <1>1, <1>2, <1>3, <1>4, <1>5, TypeLoad, TypeCheck, TypeClose, TypeUpdate
     DEF Next, WorkerStep
-----------------------------------------------------------------------------
(* What the threads hold.                                                  *)

\* Loading keeps what a worker holds; it takes over only orders of its item.
LEMMA LoadsLoad ==
  ASSUME TypeOK, LoadsOrder, NEW w \in Workers, Load(w)
  PROVE  LoadsOrder'
<1> USE DEF TypeOK, LoadsOrder, Loading, Goto, Sub
<1>1. CASE ZRange(w)
  BY <1>1 DEF ZRange
<1>2. CASE Fetch(w)
  BY <1>2 DEF Fetch
<1>3. CASE ZAdd(w)
  BY <1>3 DEF ZAdd
<1>4. CASE SAdd(w)
  BY <1>4 DEF SAdd
<1>5. CASE PutCount(w)
  BY <1>5 DEF PutCount
<1>6. CASE PutExpire(w)
  BY <1>6 DEF PutExpire
<1>7. CASE PutLimit(w)
  BY <1>7 DEF PutLimit
<1>8. CASE PutStatus(w)
  BY <1>8 DEF PutStatus
<1>9. CASE SetRetrieved(w)
  BY <1>9 DEF SetRetrieved
<1>10. CASE Skip(w)
  BY <1>10 DEF Skip
<1>11. CASE ZRangeAgain(w)
  BY <1>11 DEF ZRangeAgain
<1>12. QED
  BY <1>1, <1>2, <1>3, <1>4, <1>5, <1>6, <1>7, <1>8, <1>9, <1>10, <1>11 DEF Load

\* So does every other step: it leaves the loading workers alone.
LEMMA LoadsNext ==
  ASSUME TypeOK, LoadsOrder, [Next]_vars
  PROVE  LoadsOrder'
<1> USE DEF TypeOK, LoadsOrder, Loading, work
<1>1. ASSUME NEW w \in Workers, Check(w)
      PROVE  LoadsOrder'
  BY <1>1 DEF Check, GetCount, GetLimit, GetExpire, Serve, Incr, Goto, Sub,
              Return
<1>2. ASSUME NEW w \in Workers, CloseOrder(w)
      PROVE  LoadsOrder'
  BY <1>2 DEF CloseOrder, Remove, GetStatus, TellHub, MoveToAlready, Settle,
              Goto, Sub, Return
<1>3. ASSUME NEW w \in Workers, NEW i \in Items, Request(w, i)
      PROVE  LoadsOrder'
  BY <1>3 DEF Request, Goto
<1>4. CASE UpdateStep
  BY <1>4 DEF UpdateStep, NewDay, DayDone, NextMember, UpdGetCount,
              UpdGetLimit, UpdGetExpire, UpdSettle, UpdMove, UpdRemove,
              UpdTellHub
<1>5. CASE Crash
  BY <1>5 DEF Crash
<1>6. ASSUME NEW o \in Orders, Buy(o)
      PROVE  LoadsOrder'
  BY <1>6 DEF Buy
<1>7. ASSUME NEW k \in Keys, Expires(k)
      PROVE  LoadsOrder'
  BY <1>7 DEF Expires
<1>8. CASE UNCHANGED vars
  BY <1>8 DEF vars
<1> HIDE DEF LoadsOrder
<1>9. QED
  BY <1>1, <1>2, <1>3, <1>4, <1>5, <1>6, <1>7, <1>8, LoadsLoad
     DEF Next, WorkerStep

\* The update thread changes its member only between two of them.
LEMMA MemberNext ==
  ASSUME TypeOK, MemberRead, [Next]_vars
  PROVE  MemberRead'
<1> USE DEF TypeOK, MemberRead, UpdJudging
<1>1. CASE UpdateStep
  BY <1>1 DEF UpdateStep, NewDay, DayDone, NextMember, UpdGetCount,
              UpdGetLimit, UpdGetExpire, UpdSettle, UpdMove, UpdRemove,
              UpdTellHub, UpdReturn
<1>2. CASE Crash
  BY <1>2 DEF Crash
<1>3. ASSUME UNCHANGED update
      PROVE  MemberRead'
  BY <1>3 DEF update
<1>4. ASSUME NEW w \in Workers, WorkerStep(w)
      PROVE  UNCHANGED update
  BY <1>4 DEF WorkerStep, Request, Load, ZRange, Fetch, ZAdd, SAdd, PutCount,
              PutExpire, PutLimit, PutStatus, SetRetrieved, Skip,
              ZRangeAgain, Check, GetCount, GetLimit, GetExpire, Serve, Incr,
              CloseOrder, Remove, GetStatus, TellHub, MoveToAlready, Settle
<1>5. QED
  BY <1>1, <1>2, <1>3, <1>4 DEF Next, Buy, Expires, vars, update
-----------------------------------------------------------------------------
(* Counts, limits and what was served.                                     *)

\* Who writes the counts, the limits and the history of what was served.
LEMMA CountWriters ==
  ASSUME [Next]_vars
  PROVE  \/ \E w \in Workers : PutCount(w) \/ PutLimit(w) \/ Incr(w)
         \/ UNCHANGED <<orderCount, orderLimit, served>>
<1>1. ASSUME NEW w \in Workers, WorkerStep(w)
      PROVE  \/ PutCount(w) \/ PutLimit(w) \/ Incr(w)
             \/ UNCHANGED <<orderCount, orderLimit, served>>
  BY <1>1 DEF redis, WorkerStep, Request, Load, ZRange, Fetch, ZAdd, SAdd,
              PutExpire, PutStatus, SetRetrieved, Skip, ZRangeAgain, Check,
              GetCount, GetLimit, GetExpire, Serve, CloseOrder, Remove,
              GetStatus, TellHub, MoveToAlready, Settle
<1>2. CASE UpdateStep
  BY <1>2 DEF redis, UpdateStep, NewDay, DayDone, NextMember, UpdGetCount,
              UpdGetLimit, UpdGetExpire, UpdSettle, UpdMove, UpdRemove,
              UpdTellHub
<1>3. QED
  BY <1>1, <1>2 DEF Next, Crash, Buy, Expires, vars, redis

\* Counts and limits appear only for an order that is being loaded, and
\* an increment only where a count is.
LEMMA KeysNext ==
  ASSUME TypeOK, LoadsOrder, KeysOfOrders, ReadBehind, [Next]_vars
  PROVE  KeysOfOrders'
<1>1. ASSUME NEW w \in Workers
      PROVE  Key(w) \in Keys
  BY DEF TypeOK, Key, Keys
<1>2. ASSUME NEW w \in Workers, PutCount(w)
      PROVE  KeysOfOrders'
  BY <1>1, <1>2 DEF TypeOK, LoadsOrder, Loading, KeysOfOrders, PutCount,
                    Write, Key
<1>3. ASSUME NEW w \in Workers, PutLimit(w)
      PROVE  KeysOfOrders'
  BY <1>1, <1>3 DEF TypeOK, LoadsOrder, Loading, KeysOfOrders, PutLimit,
                    Write, Key
<1>4. ASSUME NEW w \in Workers, Incr(w)
      PROVE  KeysOfOrders'
  <2>1. orderCount[Key(w)] # Nil
    BY <1>4 DEF ReadBehind, Judging, Incr
  <2>2. QED
    BY <1>1, <1>4, <2>1 DEF TypeOK, KeysOfOrders, Incr, Write
<1>5. ASSUME UNCHANGED <<orderCount, orderLimit, served>>
      PROVE  KeysOfOrders'
  BY <1>5 DEF KeysOfOrders
<1>6. QED
  BY <1>2, <1>3, <1>4, <1>5, CountWriters

\* An increment counts one more and one more was served; nothing else raises
\* a count, and nothing takes a count away or lowers what was served.
LEMMA CountMoves ==
  ASSUME TypeOK, [Next]_vars, NEW k \in Keys
  PROVE  /\ served'[k] \in Nat /\ served[k] <= served'[k]
         /\ orderCount[k] # Nil => orderCount'[k] # Nil
         /\ orderCount'[k] # Nil =>
              \/ orderCount'[k] = orderCount[k]
              \/ orderCount'[k] = 0
              \/ /\ \E w \in Workers : Incr(w) /\ Key(w) = k
                 /\ orderCount'[k] = IF orderCount[k] = Nil THEN 1
                                     ELSE orderCount[k] + 1
                 /\ served'[k] = served[k] + 1
<1>1. ASSUME NEW w \in Workers
      PROVE  Key(w) \in Keys
  BY DEF TypeOK, Key, Keys
<1>2. CASE \E w \in Workers : PutCount(w)
  BY <1>1, <1>2, NilAssumption DEF TypeOK, PutCount, Write
<1>3. CASE \E w \in Workers : PutLimit(w)
  BY <1>1, <1>3 DEF TypeOK, PutLimit
<1>4. ASSUME NEW w \in Workers, Incr(w)
      PROVE  /\ served'[k] \in Nat /\ served[k] <= served'[k]
             /\ orderCount[k] # Nil => orderCount'[k] # Nil
             /\ \/ orderCount'[k] = orderCount[k]
                \/ /\ Key(w) = k
                   /\ orderCount'[k] = IF orderCount[k] = Nil THEN 1
                                       ELSE orderCount[k] + 1
                   /\ served'[k] = served[k] + 1
  BY <1>1, <1>4, NilAssumption DEF TypeOK, Incr, Write
<1>5. CASE UNCHANGED <<orderCount, orderLimit, served>>
  BY <1>5 DEF TypeOK
<1>6. QED
  BY <1>2, <1>3, <1>4, <1>5, CountWriters

\* The counts stay behind what was served.
LEMMA CountBehindNext ==
  ASSUME TypeOK, CountBehind, [Next]_vars
  PROVE  CountBehind'
<1> SUFFICES ASSUME NEW k \in Keys, orderCount'[k] # Nil
             PROVE  orderCount'[k] <= served'[k]
  BY DEF CountBehind
<1>1. /\ orderCount[k] \in Nat \cup {Nil} /\ served[k] \in Nat
      /\ orderCount[k] # Nil => orderCount[k] <= served[k]
  BY DEF TypeOK, CountBehind
<1>2. QED
  BY <1>1, CountMoves, NilAssumption

\* A worker past UserGet(strCountOrderId) was there before, with the same
\* order and count, or has just read the count.
LEMMA JudgingMoves ==
  ASSUME TypeOK, [Next]_vars, NEW v \in Workers, pc'[v] \in Judging
  PROVE  /\ item'[v] = item[v] /\ sub'[v] = sub[v]
         /\ \/ /\ pc[v] \in Judging
               /\ pc'[v] \in PastCheck => pc[v] \in PastCheck
               /\ count'[v] = count[v]
            \/ /\ pc[v] = "count" /\ pc'[v] = "limit"
               /\ orderCount[Key(v)] # Nil
               /\ count'[v] = orderCount[Key(v)]
               /\ UNCHANGED <<orderCount, served>>
<1> USE DEF TypeOK, Judging, PastCheck
<1>1. ASSUME NEW w \in Workers, Load(w)
      PROVE  /\ item'[v] = item[v] /\ sub'[v] = sub[v]
             /\ pc[v] \in Judging /\ count'[v] = count[v]
             /\ pc'[v] \in PastCheck => pc[v] \in PastCheck
  BY <1>1 DEF Load, ZRange, Fetch, ZAdd, SAdd, PutCount, PutExpire, PutLimit,
              PutStatus, SetRetrieved, Skip, ZRangeAgain, Goto, Sub
<1>2. ASSUME NEW w \in Workers, GetCount(w)
      PROVE  /\ item'[v] = item[v] /\ sub'[v] = sub[v]
             /\ \/ /\ pc[v] \in Judging /\ count'[v] = count[v]
                   /\ pc'[v] \in PastCheck => pc[v] \in PastCheck
                \/ /\ pc[v] = "count" /\ pc'[v] = "limit"
                   /\ orderCount[Key(v)] # Nil
                   /\ count'[v] = orderCount[Key(v)]
                   /\ UNCHANGED <<orderCount, served>>
  BY <1>2 DEF GetCount, Get, Return, Goto, Sub, redis
<1>3. ASSUME NEW w \in Workers, GetLimit(w) \/ GetExpire(w) \/ Serve(w) \/ Incr(w)
      PROVE  /\ item'[v] = item[v] /\ sub'[v] = sub[v]
             /\ pc[v] \in Judging /\ count'[v] = count[v]
             /\ pc'[v] \in PastCheck => pc[v] \in PastCheck
  BY <1>3 DEF GetLimit, GetExpire, Serve, Incr, Goto, Sub, Return
<1>4. ASSUME NEW w \in Workers, CloseOrder(w)
      PROVE  /\ item'[v] = item[v] /\ sub'[v] = sub[v]
             /\ pc[v] \in Judging /\ count'[v] = count[v]
             /\ pc'[v] \in PastCheck => pc[v] \in PastCheck
  BY <1>4 DEF CloseOrder, Remove, GetStatus, TellHub, MoveToAlready, Settle,
              Goto, Sub, Return
<1>5. ASSUME NEW w \in Workers, NEW i \in Items, Request(w, i)
      PROVE  /\ item'[v] = item[v] /\ sub'[v] = sub[v]
             /\ pc[v] \in Judging /\ count'[v] = count[v]
             /\ pc'[v] \in PastCheck => pc[v] \in PastCheck
  BY <1>5 DEF Request, Goto
<1>6. CASE UpdateStep
  BY <1>6 DEF work, UpdateStep, NewDay, DayDone, NextMember, UpdGetCount,
              UpdGetLimit, UpdGetExpire, UpdSettle, UpdMove, UpdRemove,
              UpdTellHub
<1>7. CASE Crash
  BY <1>7 DEF Crash
<1> HIDE DEF TypeOK, Judging, PastCheck
<1>8. CASE UNCHANGED work
  BY <1>8 DEF work
<1>9. QED
  BY <1>1, <1>2, <1>3, <1>4, <1>5, <1>6, <1>7, <1>8
     DEF Next, WorkerStep, Check, Buy, Expires, vars, work

\* The same for the update thread.
LEMMA UpdJudgingMoves ==
  ASSUME TypeOK, [Next]_vars, upc' \in UpdJudging
  PROVE  /\ member' = member
         /\ \/ upc \in UpdJudging /\ ucount' = ucount
            \/ /\ upc = "count"
               /\ orderCount[member] # Nil
               /\ ucount' = orderCount[member]
               /\ UNCHANGED <<orderCount, served>>
<1>1. CASE UpdateStep
  BY <1>1 DEF redis, UpdJudging, UpdateStep, NewDay, DayDone, NextMember,
              UpdGetCount, UpdGetLimit, UpdGetExpire, UpdSettle, UpdMove,
              UpdRemove, UpdTellHub, UpdReturn, Get
<1>2. CASE Crash
  BY <1>2 DEF Crash, UpdJudging
<1>3. ASSUME NEW w \in Workers, WorkerStep(w)
      PROVE  UNCHANGED update
  BY <1>3 DEF WorkerStep, Request, Load, ZRange, Fetch, ZAdd, SAdd, PutCount,
              PutExpire, PutLimit, PutStatus, SetRetrieved, Skip,
              ZRangeAgain, Check, GetCount, GetLimit, GetExpire, Serve, Incr,
              CloseOrder, Remove, GetStatus, TellHub, MoveToAlready, Settle
<1>4. QED
  BY <1>1, <1>2, <1>3 DEF Next, Buy, Expires, vars, update

\* A count that a thread has read stays behind what was served.
LEMMA ReadBehindNext ==
  ASSUME TypeOK, MemberRead, CountBehind, ReadBehind, [Next]_vars
  PROVE  ReadBehind'
<1>1. ASSUME NEW v \in Workers, pc'[v] \in Judging
      PROVE  orderCount'[Key(v)'] # Nil /\ count'[v] <= served'[Key(v)']
  <2>1. Key(v) \in Keys /\ Key(v)' = Key(v)
    BY <1>1, JudgingMoves DEF TypeOK, Key, Keys
  <2> DEFINE k == Key(v)
  <2>2. /\ served[k] \in Nat /\ served'[k] \in Nat /\ served[k] <= served'[k]
        /\ orderCount[k] # Nil => orderCount'[k] # Nil
    BY <2>1, CountMoves DEF TypeOK
  <2>3. CASE pc[v] \in Judging /\ count'[v] = count[v]
    <3>1. orderCount[k] # Nil /\ count[v] <= served[k] /\ count[v] \in Nat
      BY <2>3 DEF ReadBehind, TypeOK
    <3>2. QED
      BY <2>1, <2>2, <2>3, <3>1
  <2>4. CASE /\ orderCount[k] # Nil /\ count'[v] = orderCount[k]
             /\ UNCHANGED <<orderCount, served>>
    BY <2>1, <2>4 DEF CountBehind
  <2>5. QED
    BY <1>1, <2>3, <2>4, JudgingMoves
<1>2. ASSUME upc' \in UpdJudging
      PROVE  orderCount'[member'] # Nil /\ ucount' <= served'[member']
  <2>1. member \in Keys /\ member' = member
    BY <1>2, UpdJudgingMoves DEF MemberRead
  <2>2. /\ served[member] \in Nat /\ served'[member] \in Nat
        /\ served[member] <= served'[member]
        /\ orderCount[member] # Nil => orderCount'[member] # Nil
    BY <2>1, CountMoves DEF TypeOK
  <2>3. CASE upc \in UpdJudging /\ ucount' = ucount
    <3>1. orderCount[member] # Nil /\ ucount <= served[member] /\ ucount \in Nat
      BY <2>3 DEF ReadBehind, TypeOK
    <3>2. QED
      BY <2>1, <2>2, <2>3, <3>1
  <2>4. CASE /\ orderCount[member] # Nil /\ ucount' = orderCount[member]
             /\ UNCHANGED <<orderCount, served>>
    BY <2>1, <2>4 DEF CountBehind
  <2>5. QED
    BY <1>2, <2>3, <2>4, UpdJudgingMoves
<1>3. QED
  BY <1>1, <1>2 DEF ReadBehind

\* DataHub is told only of counts a thread has read.
LEMMA BilledNext ==
  ASSUME TypeOK, KeysOfOrders, MemberRead, ReadBehind, NeverOverbilled,
         [Next]_vars
  PROVE  NeverOverbilled'
<1> SUFFICES ASSUME NEW o \in Orders
             PROVE  used'[o] <= served'[OrderKey(o)]
  BY DEF NeverOverbilled, OrderKey
<1>1. OrderKey(o) \in Keys
  BY ItemAssumption DEF OrderKey, Keys
<1>2. /\ served[OrderKey(o)] \in Nat /\ served'[OrderKey(o)] \in Nat
      /\ served[OrderKey(o)] <= served'[OrderKey(o)]
      /\ used[o] \in Nat /\ used[o] <= served[OrderKey(o)]
  BY <1>1, CountMoves DEF TypeOK, NeverOverbilled
<1>3. ASSUME NEW w \in Workers, TellHub(w)
      PROVE  used'[o] <= served'[OrderKey(o)]
  <2>1. /\ Key(w) \in Keys /\ orderCount[Key(w)] # Nil
        /\ count[w] <= served[Key(w)] /\ count[w] \in Nat
    BY <1>3 DEF TypeOK, ReadBehind, Judging, TellHub, Key, Keys
  <2>2. Key(w) = OrderKey(sub[w])
    BY <2>1 DEF KeysOfOrders, Key, OrderKey
  <2>3. QED
    BY <1>2, <1>3, <2>1, <2>2 DEF TypeOK, TellHub, SetPlanUsed
<1>4. ASSUME UpdTellHub
      PROVE  used'[o] <= served'[OrderKey(o)]
  <2>1. /\ member \in Keys /\ orderCount[member] # Nil
        /\ ucount <= served[member] /\ ucount \in Nat
    BY <1>4 DEF TypeOK, ReadBehind, MemberRead, UpdJudging, UpdTellHub
  <2>2. member[2] \in Orders /\ member = OrderKey(member[2])
    BY <2>1 DEF KeysOfOrders, OrderKey, Keys
  <2>3. QED
    BY <1>2, <1>4, <2>1, <2>2 DEF TypeOK, UpdTellHub, SetPlanUsed
<1>5. ASSUME UNCHANGED used
      PROVE  used'[o] <= served'[OrderKey(o)]
  BY <1>2, <1>5
<1>6. ASSUME NEW w \in Workers, WorkerStep(w)
      PROVE  TellHub(w) \/ UNCHANGED used
  BY <1>6 DEF hub, WorkerStep, Request, Load, ZRange, Fetch, ZAdd, SAdd,
              PutCount, PutExpire, PutLimit, PutStatus, SetRetrieved, Skip,
              ZRangeAgain, Check, GetCount, GetLimit, GetExpire, Serve, Incr,
              CloseOrder, Remove, GetStatus, MoveToAlready, Settle
<1>7. CASE UpdateStep
  BY <1>4, <1>5, <1>7 DEF hub, UpdateStep, NewDay, DayDone, NextMember,
              UpdGetCount, UpdGetLimit, UpdGetExpire, UpdSettle, UpdMove,
              UpdRemove
<1>8. QED
  BY <1>3, <1>5, <1>6, <1>7 DEF Next, Crash, Buy, Expires, vars, hub

-----------------------------------------------------------------------------
(* The first results.                                                      *)

\* What the threads hold and what they have read, together.
Ledger ==
  /\ TypeOK /\ LoadsOrder /\ MemberRead
  /\ KeysOfOrders /\ CountBehind /\ ReadBehind /\ NeverOverbilled

\* It holds at the start and every step keeps it.
LEMMA LedgerInit == Init => Ledger
<1> SUFFICES ASSUME Init PROVE Ledger
  OBVIOUS
<1>1. TypeOK
  BY TypeInit
<1>2. ASSUME NEW o \in Orders PROVE OrderKey(o) \in Keys
  BY ItemAssumption DEF OrderKey, Keys
<1>3. NeverOverbilled
  BY <1>2 DEF Init, NeverOverbilled
<1>4. LoadsOrder /\ MemberRead /\ KeysOfOrders /\ CountBehind /\ ReadBehind
  BY DEF Init, LoadsOrder, Loading, MemberRead, UpdJudging, KeysOfOrders,
         CountBehind, ReadBehind, Judging
<1>5. QED
  BY <1>1, <1>3, <1>4 DEF Ledger

\* Every step keeps it.
LEMMA LedgerNext == Ledger /\ [Next]_vars => Ledger'
BY TypeNext, LoadsNext, MemberNext, KeysNext, CountBehindNext, ReadBehindNext,
   BilledNext DEF Ledger

\* The ledger holds in every state.
LEMMA LedgerHolds == Spec => []Ledger
BY LedgerInit, LedgerNext, PTL DEF Spec

\* Types: every variable of the order handling keeps its type.
THEOREM OrderTypes == Spec => []TypeOK
<1>1. Ledger => TypeOK
  BY DEF Ledger
<1>2. QED
  BY <1>1, LedgerHolds, PTL

\* DataHub is never told of more use than was served: no thread reports a
\* count that was not reached by UserIncr.
THEOREM BillingSound == Spec => []NeverOverbilled
<1>1. Ledger => NeverOverbilled
  BY DEF Ledger
<1>2. QED
  BY <1>1, LedgerHolds, PTL

\* A request is only served on an order for the item it names.
THEOREM ItemsSeparate == Spec => []ChargedToItem
<1>1. ASSUME Ledger, NEW w \in Workers, pc[w] \in {"serve", "incr"}
      PROVE  sub[w] \in Orders /\ ItemOf[sub[w]] = item[w]
  <2>1. Key(w) \in Keys /\ orderCount[Key(w)] # Nil
    BY <1>1 DEF Ledger, TypeOK, ReadBehind, Judging, Key, Keys
  <2>2. QED
    BY <1>1, <2>1 DEF Ledger, KeysOfOrders, Key
<1>2. Ledger => ChargedToItem
  BY <1>1 DEF ChargedToItem
<1>3. QED
  BY <1>2, LedgerHolds, PTL

-----------------------------------------------------------------------------
(* The overshoot.                                                          *)

\* A worker goes on towards a reply only with a count below the limit.
LEMMA BelowNext ==
  ASSUME Ledger, BelowLimit, [Next]_vars
  PROVE  BelowLimit'
<1> SUFFICES ASSUME NEW v \in Workers, pc'[v] \in {"expire", "serve", "incr"}
             PROVE  count'[v] < Units[sub'[v]]
  BY DEF BelowLimit
<1>1. /\ sub'[v] = sub[v] /\ pc[v] \in PastCheck /\ count'[v] = count[v]
  BY JudgingMoves DEF Ledger, Judging, PastCheck
<1>2. CASE pc[v] = "limit"
  <2>1. GetLimit(v)
    <3>1. ASSUME NEW w \in Workers, WorkerStep(w)
          PROVE  GetLimit(v) \/ pc'[v] = pc[v] \/ pc[v] # "limit"
      BY <3>1 DEF Ledger, TypeOK, WorkerStep, Request, Load, ZRange, Fetch,
              ZAdd, SAdd, PutCount, PutExpire, PutLimit, PutStatus,
              SetRetrieved, Skip, ZRangeAgain, Check, GetCount, GetLimit,
              GetExpire, Serve, Incr, CloseOrder, Remove, GetStatus, TellHub,
              MoveToAlready, Settle, Goto, Return
    <3>2. CASE UpdateStep
      BY <3>2, <1>2 DEF work, UpdateStep, NewDay, DayDone, NextMember,
              UpdGetCount, UpdGetLimit, UpdGetExpire, UpdSettle, UpdMove,
              UpdRemove, UpdTellHub
    <3>3. QED
      BY <1>2, <3>1, <3>2 DEF Next, Crash, Buy, Expires, vars, work
  <2>2. Key(v) \in Keys /\ count[v] \in Nat
    BY DEF Ledger, TypeOK, Key, Keys
  <2>3. /\ orderLimit[Key(v)] # Nil
        /\ count[v] < orderLimit[Key(v)] \/ ~(count[v] >= orderLimit[Key(v)])
    BY <2>1, <2>2 DEF GetLimit, Get, Return, Goto, Ledger, TypeOK
  <2>4. orderLimit[Key(v)] = Units[sub[v]] /\ Units[sub[v]] \in Nat
    BY <2>2, <2>3, UnitsAssumption DEF Ledger, KeysOfOrders, Key
  <2>5. QED
    BY <1>1, <2>2, <2>3, <2>4
<1>3. CASE pc[v] # "limit"
  BY <1>1, <1>3 DEF BelowLimit, PastCheck
<1>4. QED
  BY <1>2, <1>3

\* How a step can change the count of a key and the workers past its check.
LEMMA PastMoves ==
  ASSUME Ledger, BelowLimit, [Next]_vars, NEW k \in Keys,
         orderCount'[k] # Nil
  PROVE  \/ /\ orderCount[k] # Nil /\ orderCount'[k] = orderCount[k]
            /\ Past(k)' \subseteq Past(k)
         \/ orderCount'[k] < Units[k[2]]
         \/ orderCount'[k] = 0 /\ Past(k)' = {}
         \/ \E w \in Past(k) :
              /\ Past(k)' \subseteq Past(k) \ {w}
              /\ orderCount[k] # Nil /\ orderCount'[k] = orderCount[k] + 1
<1>1. KeysOfOrders' /\ TypeOK'
  BY LedgerNext DEF Ledger
<1>2. k[2] \in Orders /\ Units[k[2]] \in Nat
  BY <1>1, UnitsAssumption DEF KeysOfOrders
<1>3. /\ orderCount[k] \in Nat \cup {Nil} /\ orderCount'[k] \in Nat
  BY <1>1 DEF Ledger, TypeOK
<1>4. ASSUME NEW v \in Past(k)', v \notin Past(k)
      PROVE  orderCount'[k] < Units[k[2]]
  <2>1. v \in Workers /\ pc'[v] \in PastCheck /\ Key(v)' = k
        /\ count'[v] < Units[k[2]]
    BY <1>4 DEF Past
  <2>2. Key(v) = k
    BY <2>1, JudgingMoves DEF Ledger, Judging, PastCheck, Key
  <2>3. orderCount'[k] = count'[v]
    BY <1>4, <2>1, <2>2, JudgingMoves DEF Ledger, Judging, PastCheck, Past
  <2>4. QED
    BY <2>1, <2>3
<1>5. CASE ~(Past(k)' \subseteq Past(k))
  BY <1>4, <1>5
<1>6. CASE Past(k)' \subseteq Past(k)
  <2>1. CASE orderCount'[k] = orderCount[k]
    BY <1>6, <2>1
  <2>2. CASE orderCount'[k] = 0
    <3>1. CASE Units[k[2]] = 0
      <4>1. Past(k)' = {}
        BY <1>1, <3>1 DEF Past, TypeOK
      <4>2. QED
        BY <2>2, <4>1
    <3>2. CASE Units[k[2]] # 0
      BY <1>2, <2>2, <3>2
    <3>3. QED
      BY <3>1, <3>2
  <2>3. ASSUME NEW w \in Workers, Incr(w), Key(w) = k,
               orderCount'[k] = IF orderCount[k] = Nil THEN 1
                                ELSE orderCount[k] + 1
        PROVE  \E x \in Past(k) :
                 /\ Past(k)' \subseteq Past(k) \ {x}
                 /\ orderCount[k] # Nil /\ orderCount'[k] = orderCount[k] + 1
    <3>1. orderCount[k] # Nil /\ pc[w] = "incr" /\ pc'[w] = "idle"
      BY <2>3 DEF Ledger, TypeOK, ReadBehind, Judging, Incr, Return, Goto
    <3>2. w \in Past(k)
      BY <2>3, <3>1 DEF BelowLimit, Past, PastCheck, Key
    <3>3. w \notin Past(k)'
      BY <3>1 DEF Past, PastCheck
    <3>4. QED
      BY <1>6, <2>3, <3>1, <3>2, <3>3
  <2>4. QED
    BY <2>1, <2>2, <2>3, CountMoves DEF Ledger
<1>7. QED
  BY <1>5, <1>6

\* The workers past the check are no more than there are workers.
LEMMA PastFinite ==
  ASSUME NEW S \in SUBSET Workers
  PROVE  /\ IsFiniteSet(S) /\ Cardinality(S) \in Nat
         /\ Cardinality(Workers) \in Nat
         /\ Cardinality(S) <= Overshoot + 1
<1>1. IsFiniteSet(S) /\ Cardinality(S) <= Cardinality(Workers)
  BY FS_Subset, WorkersAssumption
<1>2. Cardinality(S) \in Nat /\ Cardinality(Workers) \in Nat
  BY <1>1, FS_CardinalityType, WorkersAssumption
<1>3. QED
  BY <1>1, <1>2 DEF Overshoot

\* There is at least one worker.
LEMMA OvershootNat == Overshoot \in Nat
<1>1. Cardinality(Workers) \in Nat /\ Cardinality(Workers) # 0
  BY FS_CardinalityType, FS_EmptySet, WorkersAssumption
<1>2. QED
  BY <1>1 DEF Overshoot

\* Every step keeps the bound.
LEMMA BoundedNext ==
  ASSUME Ledger, BelowLimit, Bounded, [Next]_vars
  PROVE  Bounded'
<1> SUFFICES ASSUME NEW k \in Keys, orderCount'[k] # Nil
             PROVE  orderCount'[k] + Cardinality(Past(k)')
                      <= Units[k[2]] + Overshoot
  BY DEF Bounded, Past, Overshoot
<1>1. KeysOfOrders' /\ TypeOK'
  BY LedgerNext DEF Ledger
<1>2. Units[k[2]] \in Nat /\ orderCount'[k] \in Nat /\ Overshoot \in Nat
  BY <1>1, UnitsAssumption, OvershootNat DEF KeysOfOrders, TypeOK
<1>3. Past(k) \subseteq Workers /\ Past(k)' \subseteq Workers
  BY DEF Past
<1>4. /\ Cardinality(Past(k)) \in Nat /\ Cardinality(Past(k)') \in Nat
      /\ IsFiniteSet(Past(k)) /\ IsFiniteSet(Past(k)')
      /\ Cardinality(Past(k)') <= Overshoot + 1
  BY <1>3, PastFinite
<1>5. orderCount[k] # Nil => /\ orderCount[k] \in Nat
                             /\ orderCount[k] + Cardinality(Past(k))
                                  <= Units[k[2]] + Overshoot
  BY DEF Bounded, Ledger, TypeOK
<1>6. CASE /\ orderCount[k] # Nil /\ orderCount'[k] = orderCount[k]
           /\ Past(k)' \subseteq Past(k)
  <2>1. Cardinality(Past(k)') <= Cardinality(Past(k))
    BY <1>4, <1>6, FS_Subset
  <2>2. QED
    BY <1>2, <1>4, <1>5, <1>6, <2>1
<1>7. CASE orderCount'[k] < Units[k[2]]
  BY <1>2, <1>4, <1>7
<1>8. CASE orderCount'[k] = 0 /\ Past(k)' = {}
  BY <1>2, <1>8, FS_EmptySet
<1>9. ASSUME NEW w \in Past(k), Past(k)' \subseteq Past(k) \ {w},
             orderCount[k] # Nil, orderCount'[k] = orderCount[k] + 1
      PROVE  orderCount'[k] + Cardinality(Past(k)') <= Units[k[2]] + Overshoot
  <2>1. /\ IsFiniteSet(Past(k) \ {w})
        /\ Cardinality(Past(k) \ {w}) = Cardinality(Past(k)) - 1
    BY <1>4, FS_RemoveElement
  <2>2. Cardinality(Past(k)') <= Cardinality(Past(k)) - 1
    BY <1>9, <2>1, FS_Subset
  <2>3. QED
    BY <1>2, <1>4, <1>5, <1>9, <2>2
<1>10. QED
  BY <1>6, <1>7, <1>8, <1>9, PastMoves

\* However many workers there are, an order's count never passes its limit
\* by more than the number of the other workers.
THEOREM OvershootBounded == Spec => []QuotaOvershoot
<1> DEFINE Inv == Ledger /\ BelowLimit /\ Bounded
<1>1. Init => Inv
  BY LedgerInit DEF Init, BelowLimit, Bounded
<1>2. Inv /\ [Next]_vars => Inv'
  BY LedgerNext, BelowNext, BoundedNext
<1>3. Inv => QuotaOvershoot
  <2> SUFFICES ASSUME Inv, NEW o \in Orders, orderCount[OrderKey(o)] # Nil
               PROVE  orderCount[OrderKey(o)] <= Units[o] + Overshoot
    BY DEF QuotaOvershoot
  <2>1. OrderKey(o) \in Keys /\ OrderKey(o)[2] = o
    BY ItemAssumption DEF OrderKey, Keys
  <2>2. orderCount[OrderKey(o)] + Cardinality(Past(OrderKey(o)))
          <= Units[o] + Overshoot
    BY <2>1 DEF Bounded
  <2>3. Cardinality(Past(OrderKey(o))) \in Nat
    BY PastFinite DEF Past
  <2>4. orderCount[OrderKey(o)] \in Nat /\ Units[o] \in Nat
    BY <2>1, UnitsAssumption DEF Ledger, TypeOK
  <2>5. QED
    BY <2>2, <2>3, <2>4, OvershootNat
<1>4. QED
  BY <1>1, <1>2, <1>3, PTL DEF Spec

\* Only a reply raises what was served, on the key of its worker.
LEMMA ServedMoves ==
  ASSUME Ledger, [Next]_vars, NEW k \in Keys, served'[k] # served[k]
  PROVE  \E w \in Workers : Incr(w) /\ Key(w) = k
<1>1. ASSUME NEW w \in Workers, WorkerStep(w)
      PROVE  Incr(w) \/ served' = served
  BY <1>1 DEF WorkerStep, Request, Load, ZRange, Fetch, ZAdd, SAdd, PutCount,
          PutExpire, PutLimit, PutStatus, SetRetrieved, Skip, ZRangeAgain,
          Check, GetCount, GetLimit, GetExpire, Serve, CloseOrder, Remove,
          GetStatus, TellHub, MoveToAlready, Settle
<1>2. UpdateStep => served' = served
  BY DEF UpdateStep, NewDay, DayDone, NextMember, UpdGetCount, UpdGetLimit,
         UpdGetExpire, UpdSettle, UpdMove, UpdRemove, UpdTellHub
<1>3. PICK w \in Workers : Incr(w)
  BY <1>1, <1>2 DEF Next, Crash, Buy, Expires, vars
<1>4. Key(w) = k
  BY <1>3 DEF Ledger, TypeOK, Incr
<1>5. QED
  BY <1>3, <1>4

\* A reply is given only on an order whose count is there and below the bound:
\* beyond it an order serves only because its count was set back by a second
\* load, or a UserIncr failed.
THEOREM RepliesWhileOpen == Spec => ServedWhileOpen
<1> DEFINE Inv == Ledger /\ BelowLimit /\ Bounded
<1>1. Init => Inv
  BY LedgerInit DEF Init, BelowLimit, Bounded
<1>2. Inv /\ [Next]_vars => Inv'
  BY LedgerNext, BelowNext, BoundedNext
<1>3. ASSUME Inv, [Next]_vars, NEW o \in Orders,
             served'[OrderKey(o)] > served[OrderKey(o)]
      PROVE  /\ orderCount[OrderKey(o)] # Nil
             /\ orderCount[OrderKey(o)] < Units[o] + Overshoot
  <2>1. PICK k \in Keys : k = OrderKey(o) /\ k[2] = o
    <3>1. OrderKey(o) \in Keys /\ OrderKey(o)[2] = o
      BY ItemAssumption DEF OrderKey, Keys
    <3>2. QED
      BY <3>1
  <2>2. served[k] \in Nat /\ served'[k] # served[k]
    BY <1>3, <2>1 DEF Ledger, TypeOK
  <2>3. PICK w \in Workers : Incr(w) /\ Key(w) = k
    BY <1>3, <2>2, ServedMoves
  <2>4. orderCount[k] # Nil /\ w \in Past(k)
    BY <1>3, <2>3 DEF Ledger, ReadBehind, Judging, Incr, BelowLimit, Past,
            PastCheck, Key
  <2>5. IsFiniteSet(Past(k)) /\ Cardinality(Past(k)) \in Nat
    BY PastFinite DEF Past
  <2>6. Cardinality(Past(k)) # 0
    BY <2>4, <2>5, FS_EmptySet
  <2>7. orderCount[k] + Cardinality(Past(k)) <= Units[o] + Overshoot
    BY <1>3, <2>1, <2>4 DEF Bounded
  <2>8. orderCount[k] \in Nat /\ Units[o] \in Nat
    BY <1>3, <2>4, UnitsAssumption DEF Ledger, TypeOK
  <2>9. QED
    BY <2>1, <2>4, <2>5, <2>6, <2>7, <2>8, OvershootNat
<1> DEFINE Open == \A o \in Orders :
             served'[OrderKey(o)] > served[OrderKey(o)] =>
               /\ orderCount[OrderKey(o)] # Nil
               /\ orderCount[OrderKey(o)] < Units[o] + Overshoot
<1>4. Inv /\ [Next]_vars => [Open]_vars
  BY <1>3
<1> HIDE DEF Inv, Open
<1>5. Spec => [][Open]_vars
  BY <1>1, <1>2, <1>4, PTL DEF Spec
<1>6. QED
  BY <1>5 DEF ServedWhileOpen, Open

\* What was served on an order is counted.
AllCounted ==
  \A k \in Keys : served[k] <= IF orderCount[k] = Nil THEN 0 ELSE orderCount[k]

LEMMA AllCountedNext ==
  ASSUME ~RedisFaults, Ledger, AllCounted, [Next]_vars, [NotReloaded]_vars
  PROVE  AllCounted'
<1> SUFFICES ASSUME NEW k \in Keys
             PROVE  served'[k] <= IF orderCount'[k] = Nil THEN 0 ELSE orderCount'[k]
  BY DEF AllCounted
<1>1. /\ orderCount[k] \in Nat \cup {Nil} /\ orderCount'[k] \in Nat \cup {Nil}
      /\ served[k] \in Nat /\ served'[k] \in Nat
      /\ served[k] <= IF orderCount[k] = Nil THEN 0 ELSE orderCount[k]
  BY LedgerNext DEF Ledger, TypeOK, AllCounted
<1>2. orderCount[k] # Nil => orderCount'[k] # Nil /\ orderCount'[k] >= orderCount[k]
  BY <1>1, NilAssumption DEF NotReloaded, vars
<1>3. CASE served'[k] = served[k]
  BY <1>1, <1>2, <1>3
<1>4. CASE served'[k] # served[k]
  <2>1. PICK w \in Workers : Incr(w) /\ Key(w) = k
    BY <1>4, ServedMoves
  <2>2. orderCount[k] # Nil
    BY <2>1 DEF Ledger, ReadBehind, Judging, Incr
  <2>3. orderCount'[k] = orderCount[k] + 1 /\ served'[k] = served[k] + 1
    BY <2>1, <2>2 DEF Incr, Write, Ledger, TypeOK
  <2>4. QED
    BY <1>1, <2>2, <2>3, NilAssumption
<1>5. QED
  BY <1>3, <1>4

\* A second load is the only way past the limit: with a Redis that does not
\* fail, and as long as no count is set back, an order serves no more than its
\* units and one reply for each of the other workers.
THEOREM QuotaKeptWithoutReload ==
  ~RedisFaults => (Spec /\ [][NotReloaded]_vars => []WithinQuota)
<1> SUFFICES ASSUME ~RedisFaults
             PROVE  Spec /\ [][NotReloaded]_vars => []WithinQuota
  OBVIOUS
<1>1. Init => AllCounted
  BY DEF Init, AllCounted
<1>2. Ledger /\ AllCounted /\ [Next]_vars /\ [NotReloaded]_vars => AllCounted'
  BY AllCountedNext
<1>3. ASSUME AllCounted, QuotaOvershoot, Ledger PROVE WithinQuota
  <2> SUFFICES ASSUME NEW o \in Orders
               PROVE  served[OrderKey(o)] <= Units[o] + Overshoot
    BY DEF WithinQuota
  <2>1. PICK k \in Keys : k = OrderKey(o)
    BY ItemAssumption DEF OrderKey, Keys
  <2>2. /\ served[k] \in Nat /\ Units[o] \in Nat /\ Overshoot \in Nat
        /\ orderCount[k] \in Nat \cup {Nil}
        /\ served[k] <= IF orderCount[k] = Nil THEN 0 ELSE orderCount[k]
    BY <1>3, UnitsAssumption, OvershootNat DEF Ledger, TypeOK, AllCounted
  <2>3. orderCount[k] # Nil => orderCount[k] <= Units[o] + Overshoot
    BY <1>3, <2>1 DEF QuotaOvershoot
  <2>4. QED
    BY <2>1, <2>2, <2>3
<1>4. QED
  BY <1>1, <1>2, <1>3, LedgerHolds, OvershootBounded, PTL DEF Spec

-----------------------------------------------------------------------------
(* Deleting an order.                                                      *)

SingleOrder == \A o, p \in Orders : o = p

\* A user with one order: a worker that finds it over the limit or expired
\* deletes that order and no other.  UserRemoveSortedSet takes the order of
\* lowest rank, so with two orders the wrong one can go (run order_delete).
THEOREM DeletesTheOnlyOrder == SingleOrder => (Spec => DeletesItsOrder)
<1> SUFFICES ASSUME SingleOrder PROVE Spec => DeletesItsOrder
  OBVIOUS
<1> DEFINE Own == \A w \in Workers : Remove(w) => orderid \ orderid' \subseteq {sub[w]}
<1>1. ASSUME Ledger, NEW w \in Workers, Remove(w)
      PROVE  orderid \ orderid' \subseteq {sub[w]}
  <2>1. Key(w) \in Keys /\ orderCount[Key(w)] # Nil
    BY <1>1 DEF Ledger, TypeOK, ReadBehind, Judging, Remove, Key, Keys
  <2>2. sub[w] \in Orders /\ orderid \subseteq Orders
    BY <1>1, <2>1 DEF Ledger, TypeOK, KeysOfOrders, Key
  <2>3. QED
    BY <2>2 DEF SingleOrder
<1>2. Ledger /\ [Next]_vars => [Own]_vars
  BY <1>1
<1> HIDE DEF Own
<1>3. Spec => [][Own]_vars
  BY <1>2, LedgerHolds, PTL DEF Spec
<1>4. QED
  BY <1>3 DEF DeletesItsOrder, Own

-----------------------------------------------------------------------------
(* Loading an order.                                                       *)

\* A count, a limit or a status that is stored is never taken away, and a
\* member of one of the two sets stays in one of them.
LEMMA StoredStays ==
  ASSUME TypeOK, LoadsOrder, [Next]_vars
  PROVE  /\ needUpdate \cup alreadyUpdate
              \subseteq needUpdate' \cup alreadyUpdate'
         /\ \A k \in Keys :
              /\ orderCount[k] # Nil => orderCount'[k] # Nil
              /\ orderLimit[k] # Nil => orderLimit'[k] # Nil
              /\ orderStatus[k] # Nil => orderStatus'[k] # Nil
<1>1. ASSUME NEW k \in Keys, orderLimit[k] # Nil
      PROVE  orderLimit'[k] # Nil
  <2>1. ASSUME NEW w \in Workers, PutLimit(w)
        PROVE  orderLimit'[k] # Nil
    <3>1. Units[sub[w]] # Nil
      BY <2>1, UnitsAssumption, NilAssumption DEF LoadsOrder, Loading, PutLimit
    <3>2. QED
      BY <1>1, <2>1, <3>1 DEF TypeOK, PutLimit, Write
  <2>2. QED
    BY <1>1, <2>1, CountWriters DEF PutCount, Incr
<1>2. /\ needUpdate \cup alreadyUpdate \subseteq needUpdate' \cup alreadyUpdate'
      /\ \A k \in Keys : orderStatus[k] # Nil => orderStatus'[k] # Nil
  <2> DEFINE Kept ==
        /\ needUpdate \cup alreadyUpdate \subseteq needUpdate' \cup alreadyUpdate'
        /\ \A k \in Keys : orderStatus[k] # Nil => orderStatus'[k] # Nil
  <2>1. ASSUME UNCHANGED <<needUpdate, alreadyUpdate, orderStatus>>
        PROVE  Kept
    BY <2>1
  <2>2. ASSUME NEW w \in Workers, Load(w)
        PROVE  Kept
    <3>1. CASE SAdd(w)
      BY <3>1 DEF SAdd, Write
    <3>2. CASE PutStatus(w)
      BY <3>2, NilAssumption DEF TypeOK, PutStatus, Write
    <3>3. QED
      BY <2>1, <2>2, <3>1, <3>2 DEF redis, Load, ZRange, Fetch, ZAdd,
         PutCount, PutExpire, PutLimit, SetRetrieved, Skip, ZRangeAgain
  <2>3. ASSUME NEW w \in Workers, CloseOrder(w)
        PROVE  Kept
    <3>1. CASE MoveToAlready(w)
      BY <3>1 DEF MoveToAlready, Smove
    <3>2. CASE Settle(w)
      BY <3>2, NilAssumption DEF TypeOK, Settle, Write
    <3>3. QED
      BY <2>1, <2>3, <3>1, <3>2 DEF redis, CloseOrder, Remove, GetStatus,
         TellHub
  <2>4. ASSUME UpdateStep
        PROVE  Kept
    <3>1. CASE UpdMove
      BY <3>1 DEF UpdMove, Smove
    <3>2. CASE UpdSettle
      BY <3>2, NilAssumption DEF TypeOK, UpdSettle, Write
    <3>3. QED
      BY <2>1, <2>4, <3>1, <3>2 DEF redis, UpdateStep, NewDay, DayDone,
         NextMember, UpdGetCount, UpdGetLimit, UpdGetExpire, UpdRemove,
         UpdTellHub
  <2> HIDE DEF Kept
  <2>5. ASSUME NEW w \in Workers, Check(w)
        PROVE  Kept
    BY <2>1, <2>5 DEF redis, Check, GetCount, GetLimit, GetExpire, Serve, Incr
  <2>6. Kept
    BY <2>1, <2>2, <2>3, <2>4, <2>5
       DEF redis, Next, WorkerStep, Request, Crash, Buy, Expires, vars
  <2>7. QED
    BY <2>6 DEF Kept
<1>3. QED
  BY <1>1, <1>2, CountMoves

\* A worker between SAdd and SetRetrieved has its order in hand, and gets on
\* from one write to the next.
LEMMA LoadMoves ==
  ASSUME TypeOK, [Next]_vars, NEW v \in Workers,
         pc'[v] \in {"putcount", "putexpire", "putlimit", "putstatus",
                     "retrieve"}
  PROVE  /\ Key(v)' = Key(v)
         /\ \/ pc'[v] = pc[v]
            \/ SAdd(v) /\ pc'[v] = "putcount"
            \/ PutCount(v) /\ pc[v] = "putcount" /\ pc'[v] = "putexpire"
            \/ pc[v] = "putexpire" /\ pc'[v] = "putlimit"
            \/ PutLimit(v) /\ pc[v] = "putlimit" /\ pc'[v] = "putstatus"
            \/ PutStatus(v) /\ pc[v] = "putstatus" /\ pc'[v] = "retrieve"
<1> DEFINE Goal ==
      /\ Key(v)' = Key(v)
      /\ \/ pc'[v] = pc[v]
         \/ SAdd(v) /\ pc'[v] = "putcount"
         \/ PutCount(v) /\ pc[v] = "putcount" /\ pc'[v] = "putexpire"
         \/ pc[v] = "putexpire" /\ pc'[v] = "putlimit"
         \/ PutLimit(v) /\ pc[v] = "putlimit" /\ pc'[v] = "putstatus"
         \/ PutStatus(v) /\ pc[v] = "putstatus" /\ pc'[v] = "retrieve"
<1> USE DEF TypeOK, Key
<1>1. ASSUME NEW w \in Workers, Load(w)
      PROVE  Goal
  BY <1>1 DEF Load, ZRange, Fetch, ZAdd, SAdd, PutCount, PutExpire, PutLimit,
              PutStatus, SetRetrieved, Skip, ZRangeAgain, Goto, Sub
<1>2. ASSUME NEW w \in Workers, Check(w)
      PROVE  Goal
  BY <1>2 DEF Check, GetCount, GetLimit, GetExpire, Serve, Incr, Goto, Sub,
              Return
<1>3. ASSUME NEW w \in Workers, CloseOrder(w)
      PROVE  Goal
  BY <1>3 DEF CloseOrder, Remove, GetStatus, TellHub, MoveToAlready, Settle,
              Goto, Sub, Return
<1>4. ASSUME NEW w \in Workers, NEW i \in Items, Request(w, i)
      PROVE  Goal
  BY <1>4 DEF Request, Goto
<1>5. CASE Crash
  BY <1>5 DEF Crash
<1>6. CASE UNCHANGED work
  BY <1>6 DEF work
<1> HIDE DEF Goal, TypeOK
<1>7. UpdateStep => UNCHANGED work
  BY DEF UpdateStep, NewDay, DayDone, NextMember, UpdGetCount, UpdGetLimit,
         UpdGetExpire, UpdSettle, UpdMove, UpdRemove, UpdTellHub
<1>8. Goal
  BY <1>1, <1>2, <1>3, <1>4, <1>5, <1>6, <1>7
     DEF Goal, Next, WorkerStep, Buy, Expires, vars, work
<1>9. QED
  BY <1>8 DEF Goal

\* Each write adds its part, and no step takes a part away.
LEMMA StoredNext ==
  ASSUME Ledger, StoredSoFar, [Next]_vars
  PROVE  StoredSoFar'
<1> SUFFICES
      ASSUME ~RedisFaults, NEW v \in Workers,
             pc'[v] \in {"putcount", "putexpire", "putlimit", "putstatus",
                         "retrieve"}
      PROVE  /\ Key(v)' \in needUpdate' \cup alreadyUpdate'
             /\ pc'[v] # "putcount" => orderCount'[Key(v)'] # Nil
             /\ pc'[v] \in {"putstatus", "retrieve"} =>
                  orderLimit'[Key(v)'] # Nil
             /\ pc'[v] = "retrieve" => orderStatus'[Key(v)'] # Nil
  BY DEF StoredSoFar
<1> DEFINE k == Key(v)
<1>1. k \in Keys /\ Key(v)' = k
  BY LoadMoves DEF Ledger, TypeOK, Key, Keys
<1>2. /\ k \in needUpdate \cup alreadyUpdate =>
           k \in needUpdate' \cup alreadyUpdate'
      /\ orderCount[k] # Nil => orderCount'[k] # Nil
      /\ orderLimit[k] # Nil => orderLimit'[k] # Nil
      /\ orderStatus[k] # Nil => orderStatus'[k] # Nil
  BY <1>1, StoredStays DEF Ledger
<1>3. SAdd(v) => k \in needUpdate'
  BY DEF SAdd, Write
<1>4. PutCount(v) => orderCount'[k] # Nil
  BY <1>1, NilAssumption DEF Ledger, TypeOK, PutCount, Write
<1>5. PutLimit(v) => orderLimit'[k] # Nil
  <2>1. PutLimit(v) => Units[sub[v]] # Nil
    BY UnitsAssumption, NilAssumption DEF Ledger, LoadsOrder, Loading, PutLimit
  <2>2. QED
    BY <1>1, <2>1 DEF Ledger, TypeOK, PutLimit, Write
<1>6. PutStatus(v) => orderStatus'[k] # Nil
  BY <1>1, NilAssumption DEF Ledger, TypeOK, PutStatus, Write
<1> HIDE DEF k
<1>7. /\ pc[v] \in {"putcount", "putexpire", "putlimit", "putstatus", "retrieve"}
           => k \in needUpdate \cup alreadyUpdate
      /\ pc[v] \in {"putexpire", "putlimit", "putstatus", "retrieve"}
           => orderCount[k] # Nil
      /\ pc[v] \in {"putstatus", "retrieve"} => orderLimit[k] # Nil
      /\ pc[v] = "retrieve" => orderStatus[k] # Nil
  BY DEF StoredSoFar, k
<1>8. QED
  BY <1>1, <1>2, <1>3, <1>4, <1>5, <1>6, <1>7, LoadMoves DEF Ledger

\* An order becomes retrieved only when its worker has stored all of it.
LEMMA RetrievedNext ==
  ASSUME Ledger, StoredSoFar, RetrievedIsStored, [Next]_vars
  PROVE  RetrievedIsStored'
<1> SUFFICES ASSUME ~RedisFaults, NEW o \in Orders, phase'[o] = "retrieved"
             PROVE  /\ orderCount'[OrderKey(o)] # Nil
                    /\ orderLimit'[OrderKey(o)] = Units[o]
                    /\ orderStatus'[OrderKey(o)] # Nil
                    /\ OrderKey(o) \in needUpdate' \cup alreadyUpdate'
  BY DEF RetrievedIsStored, OrderKey
<1>1. OrderKey(o) \in Keys /\ OrderKey(o)[2] = o
  BY ItemAssumption DEF OrderKey, Keys
<1>2. /\ orderCount[OrderKey(o)] # Nil
      /\ orderLimit[OrderKey(o)] # Nil
      /\ orderStatus[OrderKey(o)] # Nil
      /\ OrderKey(o) \in needUpdate \cup alreadyUpdate
  <2>1. CASE phase[o] = "retrieved"
    BY <1>1, <2>1, UnitsAssumption, NilAssumption DEF RetrievedIsStored
  <2>2. ASSUME NEW w \in Workers, SetRetrieved(w), phase[o] # "retrieved"
        PROVE  Key(w) = OrderKey(o) /\ pc[w] = "retrieve"
    BY <2>2 DEF Ledger, TypeOK, LoadsOrder, Loading, SetRetrieved, Key,
                OrderKey
  <2>3. ASSUME phase[o] # "retrieved"
        PROVE  \E w \in Workers : SetRetrieved(w)
    <3>1. ASSUME NEW w \in Workers, WorkerStep(w)
          PROVE  SetRetrieved(w) \/ UNCHANGED phase
      BY <3>1 DEF hub, WorkerStep, Request, Load, ZRange, Fetch, ZAdd, SAdd,
              PutCount, PutExpire, PutLimit, PutStatus, Skip, ZRangeAgain,
              Check, GetCount, GetLimit, GetExpire, Serve, Incr, CloseOrder,
              Remove, GetStatus, TellHub, MoveToAlready, Settle
    <3>2. UpdateStep => UNCHANGED phase
      BY DEF hub, UpdateStep, NewDay, DayDone, NextMember, UpdGetCount,
             UpdGetLimit, UpdGetExpire, UpdSettle, UpdMove, UpdRemove,
             UpdTellHub
    <3>3. ASSUME NEW p \in Orders, Buy(p)
          PROVE  phase'[o] = phase[o] \/ phase'[o] = "bought"
      BY <3>3 DEF Buy, Ledger, TypeOK
    <3>4. QED
      BY <2>3, <3>1, <3>2, <3>3 DEF Next, Crash, Expires, vars, hub
  <2>4. QED
    BY <2>1, <2>2, <2>3 DEF StoredSoFar
<1>3. /\ orderCount'[OrderKey(o)] # Nil
      /\ orderLimit'[OrderKey(o)] # Nil
      /\ orderStatus'[OrderKey(o)] # Nil
      /\ OrderKey(o) \in needUpdate' \cup alreadyUpdate'
  BY <1>1, <1>2, StoredStays DEF Ledger
<1>4. KeysOfOrders'
  BY LedgerNext DEF Ledger
<1>5. orderLimit'[OrderKey(o)] = Units[o]
  BY <1>1, <1>3, <1>4 DEF KeysOfOrders
<1>6. QED
  BY <1>3, <1>5

\* With a Redis that does not fail, an order that DataHub will not offer
\* again is in Redis with its count, limit and status and is due to be
\* reported, wherever the process may have crashed.
THEOREM RetrievedStored == Spec => []RetrievedIsStored
<1> DEFINE Inv == Ledger /\ StoredSoFar /\ RetrievedIsStored
<1>1. Init => Inv
  BY LedgerInit DEF Init, StoredSoFar, RetrievedIsStored
<1>2. Inv /\ [Next]_vars => Inv'
  BY LedgerNext, StoredNext, RetrievedNext
<1>3. QED
  BY <1>1, <1>2, PTL DEF Spec
=============================================================================
