----------------------------- MODULE OrderQuota -----------------------------
(***************************************************************************)
(* One user's orders: how the workers (BdxGetHttpPacket in TaskMain.cpp)   *)
(* and the update thread (UserQueryUpdate::Core) share them through Redis  *)
(* and settle them with DataHub.                                           *)
(*                                                                         *)
(* Every Redis command and every DataHub call is a step of its own, for no *)
(* lock spans two of them.  Redis keeps its data when the process dies.    *)
(* A Redis command may fail when RedisFaults is TRUE; the code ignores the *)
(* outcome of every write.  DataHub calls may always fail, before or after *)
(* they took effect.                                                       *)
(***************************************************************************)
EXTENDS Integers, FiniteSets

CONSTANTS Workers,      \* the worker threads
          Orders,       \* subscription ids the user may buy; they are the
                        \* scores of the sorted set as well
          Items,        \* repository/item pairs a request may name
          ItemOf,       \* the item an order is for
          Units,        \* the quota of an order, "units" of its plan
          NoOrder,      \* the empty subscription id
          Nil,          \* a missing key
          RedisFaults,  \* whether Redis commands may fail
          MaxRequests   \* bound: requests a behaviour starts

ASSUME WorkersAssumption == IsFiniteSet(Workers) /\ Workers # {}
ASSUME OrdersAssumption == Orders \subseteq Nat /\ NoOrder \notin Orders
ASSUME ItemAssumption == ItemOf \in [Orders -> Items]
ASSUME UnitsAssumption == Units \in [Orders -> Nat]
ASSUME NilAssumption == Nil \notin Int /\ Nil \notin {"0", "1"}
ASSUME BoundAssumption == RedisFaults \in BOOLEAN /\ MaxRequests \in Nat

\* user#repo#item#subid, the rest of each key's name and the member of the
\* two sets of orders to report.
Keys == Items \X (Orders \cup {NoOrder})

VARIABLES
  orderid,        \* sorted set <user>#orderid
  needUpdate,     \* set need_updated_datahub_order
  alreadyUpdate,  \* set already_updated_datahub_order
  orderCount,     \* keys order_count#...
  orderLimit,     \* keys order_limit#...
  orderStatus,    \* keys order_status#...
  orderExpire,    \* the keys order_expire#... that have not expired
  phase,          \* DataHub: is the order bought, is it retrieved
  used,           \* DataHub: the use it was last told of
  served,         \* history: replies with data, per key they are charged to
  reqs,           \* requests started
  pc, item, sub, list, count,       \* each worker and its locals
  upc, members, member, ucount      \* the update thread and its locals

redis  == <<orderid, needUpdate, alreadyUpdate, orderCount, orderLimit,
            orderStatus, orderExpire>>
hub    == <<phase, used>>
work   == <<pc, item, sub, list, count>>
update == <<upc, members, member, ucount>>
vars == <<orderid, needUpdate, alreadyUpdate, orderCount, orderLimit,
          orderStatus, orderExpire, phase, used, served, reqs,
          pc, item, sub, list, count, upc, members, member, ucount>>

WorkPcs == {"idle", "zrange", "fetch", "load", "sadd", "putcount",
            "putexpire", "putlimit", "putstatus", "retrieve", "skip",
            "count", "limit", "expire", "serve", "incr",
            "remove", "status", "hub", "smove", "settle"}
UpdatePcs == {"sleep", "member", "count", "limit", "expire", "settle",
              "smove", "remove", "hub"}
Phases == {"none", "bought", "retrieved"}

Init ==
  /\ orderid = {} /\ needUpdate = {} /\ alreadyUpdate = {}
  /\ orderCount = [k \in Keys |-> Nil]
  /\ orderLimit = [k \in Keys |-> Nil]
  /\ orderStatus = [k \in Keys |-> Nil]
  /\ orderExpire = {}
  /\ phase = [o \in Orders |-> "none"]
  /\ used = [o \in Orders |-> 0]
  /\ served = [k \in Keys |-> 0]
  /\ reqs = 0
  /\ pc = [w \in Workers |-> "idle"]
  /\ item \in [Workers -> Items]
  /\ sub = [w \in Workers |-> NoOrder]
  /\ list = [w \in Workers |-> {}]
  /\ count = [w \in Workers |-> 0]
  /\ upc = "sleep" /\ members = {} /\ ucount = 0
  /\ member = Nil

-----------------------------------------------------------------------------
(* Redis and DataHub.                                                      *)

\* A write that the caller does not check.
Write(x, new) == x' = new \/ (RedisFaults /\ UNCHANGED x)

\* UserGet: the value, or false (Nil) when the key is missing or Redis fails.
Get(value) == IF RedisFaults THEN {value, Nil} ELSE {value}

\* ZRANGE key 0 0.
Lowest(s) == IF s = {} THEN NoOrder
             ELSE CHOOSE o \in s : \A p \in s : o <= p

\* ZREMRANGEBYRANK key 0 0.
RemoveLowest == Write(orderid, orderid \ {Lowest(orderid)})

\* SMOVE need_updated_datahub_order already_updated_datahub_order k.
Smove(k) ==
  \/ /\ k \in needUpdate
     /\ needUpdate' = needUpdate \ {k}
     /\ alreadyUpdate' = alreadyUpdate \cup {k}
  \/ /\ k \notin needUpdate \/ RedisFaults
     /\ UNCHANGED <<needUpdate, alreadyUpdate>>

\* BdxApiUpdateUserOrder, set_plan_used: its result is not looked at.
SetPlanUsed(o, n) == used' = [used EXCEPT ![o] = n] \/ UNCHANGED used

\* The user buys an order at DataHub.
Buy(o) ==
  /\ phase[o] = "none"
  /\ phase' = [phase EXCEPT ![o] = "bought"]
  /\ UNCHANGED <<redis, used, served, reqs, work, update>>

\* The time to live of an order_expire key runs out.
Expires(k) ==
  /\ k \in orderExpire
  /\ orderExpire' = orderExpire \ {k}
  /\ UNCHANGED <<orderid, needUpdate, alreadyUpdate, orderCount, orderLimit,
                 orderStatus, hub, served, reqs, work, update>>

-----------------------------------------------------------------------------
(* A worker: BdxGetHttpPacket from the choice of the order to the reply.   *)

\* Faulty variant: the item is left out of the key.
BadKey(w) == <<IF sub[w] = NoOrder THEN item[w] ELSE ItemOf[sub[w]], sub[w]>>

Key(w) == <<item[w], sub[w]>>
Goto(w, l) == pc' = [pc EXCEPT ![w] = l]
Sub(w, o) == sub' = [sub EXCEPT ![w] = o]

\* return from BdxGetHttpPacket: the locals are gone.
Return(w) ==
  /\ Goto(w, "idle")
  /\ Sub(w, NoOrder)
  /\ count' = [count EXCEPT ![w] = 0]

\* A request for item i has passed the checks before the order.
Request(w, i) ==
  /\ pc[w] = "idle"
  /\ reqs < MaxRequests
  /\ reqs' = reqs + 1
  /\ item' = [item EXCEPT ![w] = i]
  /\ Goto(w, "zrange")
  /\ UNCHANGED <<redis, hub, served, sub, list, count, update>>

\* UserGetSortedSet: take the order of lowest rank, or ask DataHub.
ZRange(w) ==
  /\ pc[w] = "zrange"
  /\ \/ orderid # {} /\ Sub(w, Lowest(orderid)) /\ Goto(w, "count")
     \/ /\ orderid = {} \/ RedisFaults
        /\ Goto(w, "fetch") /\ UNCHANGED sub
  /\ UNCHANGED <<redis, hub, served, reqs, item, list, count, update>>

\* Faulty variant: the orders are marked retrieved as they are fetched.
BadFetch(w) ==
  /\ pc[w] = "fetch"
  /\ LET got == {o \in Orders : phase[o] = "bought" /\ ItemOf[o] = item[w]} IN
       /\ list' = [list EXCEPT ![w] = got]
       /\ phase' = [o \in Orders |-> IF o \in got THEN "retrieved" ELSE phase[o]]
  /\ pc' = [pc EXCEPT ![w] = "load"]
  /\ UNCHANGED <<redis, used, served, reqs, item, sub, count, update>>

\* BdxApiGetUserOrder: the orders of the item that are in phase 1, or none
\* when the call fails.
Fetch(w) ==
  /\ pc[w] = "fetch"
  /\ \E got \in {{}, {o \in Orders : phase[o] = "bought" /\ ItemOf[o] = item[w]}} :
       list' = [list EXCEPT ![w] = got]
  /\ Goto(w, "load")
  /\ UNCHANGED <<redis, hub, served, reqs, item, sub, count, update>>

\* UserPutOrderSet for the next order of the answer.
ZAdd(w) ==
  /\ pc[w] = "load"
  /\ \E o \in list[w] :
       /\ list' = [list EXCEPT ![w] = @ \ {o}]
       /\ Sub(w, o)
       /\ Write(orderid, orderid \cup {o})
  /\ Goto(w, "sadd")
  /\ UNCHANGED <<needUpdate, alreadyUpdate, orderCount, orderLimit,
                 orderStatus, orderExpire, hub, served, reqs, item, count,
                 update>>

\* UserSadd(need_updated_datahub_order).
SAdd(w) ==
  /\ pc[w] = "sadd"
  /\ Write(needUpdate, needUpdate \cup {Key(w)})
  /\ Goto(w, "putcount")
  /\ UNCHANGED <<orderid, alreadyUpdate, orderCount, orderLimit, orderStatus,
                 orderExpire, hub, served, reqs, item, sub, list, count,
                 update>>

\* UserPut(strCountOrderId, "0").
PutCount(w) ==
  /\ pc[w] = "putcount"
  /\ Write(orderCount, [orderCount EXCEPT ![Key(w)] = 0])
  /\ Goto(w, "putexpire")
  /\ UNCHANGED <<orderid, needUpdate, alreadyUpdate, orderLimit, orderStatus,
                 orderExpire, hub, served, reqs, item, sub, list, count,
                 update>>

\* UserPutExpire(strExpireOrderId), days from the plan.
PutExpire(w) ==
  /\ pc[w] = "putexpire"
  /\ Write(orderExpire, orderExpire \cup {Key(w)})
  /\ Goto(w, "putlimit")
  /\ UNCHANGED <<orderid, needUpdate, alreadyUpdate, orderCount, orderLimit,
                 orderStatus, hub, served, reqs, item, sub, list, count,
                 update>>

\* UserPut(strLimitOrderId), units of the plan.
PutLimit(w) ==
  /\ pc[w] = "putlimit"
  /\ Write(orderLimit, [orderLimit EXCEPT ![Key(w)] = Units[sub[w]]])
  /\ Goto(w, "putstatus")
  /\ UNCHANGED <<orderid, needUpdate, alreadyUpdate, orderCount, orderStatus,
                 orderExpire, hub, served, reqs, item, sub, list, count,
                 update>>

\* UserPut(strStatusOrderId, "0").
PutStatus(w) ==
  /\ pc[w] = "putstatus"
  /\ Write(orderStatus, [orderStatus EXCEPT ![Key(w)] = "0"])
  /\ Goto(w, "retrieve")
  /\ UNCHANGED <<orderid, needUpdate, alreadyUpdate, orderCount, orderLimit,
                 orderExpire, hub, served, reqs, item, sub, list, count,
                 update>>

\* BdxApiSetUserOrderStatus, set_retrieved: answered "OK", or failed with or
\* without an effect.
SetRetrieved(w) ==
  /\ pc[w] = "retrieve"
  /\ \/ /\ phase' = [phase EXCEPT ![sub[w]] = "retrieved"]
        /\ Goto(w, "load") \/ Goto(w, "skip")
     \/ UNCHANGED phase /\ Goto(w, "skip")
  /\ UNCHANGED <<redis, used, served, reqs, item, sub, list, count, update>>

\* set_retrieved failed: UserRemoveSortedSet, then the next order.
Skip(w) ==
  /\ pc[w] = "skip"
  /\ RemoveLowest
  /\ Goto(w, "load")
  /\ UNCHANGED <<needUpdate, alreadyUpdate, orderCount, orderLimit,
                 orderStatus, orderExpire, hub, served, reqs, item, sub,
                 list, count, update>>

\* All orders of the answer are stored: UserGetSortedSet again.
ZRangeAgain(w) ==
  /\ pc[w] = "load"
  /\ list[w] = {}
  /\ \/ Sub(w, Lowest(orderid))
     \/ RedisFaults /\ Sub(w, NoOrder)
  /\ Goto(w, "count")
  /\ UNCHANGED <<redis, hub, served, reqs, item, list, count, update>>

\* UserGet(strCountOrderId), or error 8004.
GetCount(w) ==
  /\ pc[w] = "count"
  /\ \E v \in Get(orderCount[Key(w)]) :
       \/ v = Nil /\ Return(w)
       \/ /\ v # Nil
          /\ count' = [count EXCEPT ![w] = v]
          /\ Goto(w, "limit") /\ UNCHANGED sub
  /\ UNCHANGED <<redis, hub, served, reqs, item, list, update>>

\* Faulty variant: > for >=.
BadGetLimit(w) ==
  /\ pc[w] = "limit"
  /\ LET v == orderLimit[Key(w)] IN
       \/ v = Nil /\ Return(w)
       \/ /\ v # Nil
          /\ Goto(w, IF count[w] > v THEN "remove" ELSE "expire")
          /\ UNCHANGED <<sub, count>>
  /\ UNCHANGED <<redis, hub, served, reqs, item, list, update>>

\* UserGet(strLimitOrderId), or error 8004; then the quota.
GetLimit(w) ==
  /\ pc[w] = "limit"
  /\ \E v \in Get(orderLimit[Key(w)]) :
       \/ v = Nil /\ Return(w)
       \/ /\ v # Nil
          /\ Goto(w, IF count[w] >= v THEN "remove" ELSE "expire")
          /\ UNCHANGED <<sub, count>>
  /\ UNCHANGED <<redis, hub, served, reqs, item, list, update>>

\* UserGet(strExpireOrderId): a missing key means the order is over.
GetExpire(w) ==
  /\ pc[w] = "expire"
  /\ \/ Key(w) \in orderExpire /\ Goto(w, "serve")
     \/ /\ Key(w) \notin orderExpire \/ RedisFaults
        /\ Goto(w, "remove")
  /\ UNCHANGED <<redis, hub, served, reqs, item, sub, list, count, update>>

\* The answer from the local store or the operator's API; or an error.
Serve(w) ==
  /\ pc[w] = "serve"
  /\ \/ Goto(w, "incr") /\ UNCHANGED <<sub, count>>
     \/ Return(w)
  /\ UNCHANGED <<redis, hub, served, reqs, item, list, update>>

\* UserIncr(strCountOrderId) and SUCCESS, whether or not it was counted.
Incr(w) ==
  /\ pc[w] = "incr"
  /\ Write(orderCount, [orderCount EXCEPT ![Key(w)] = IF @ = Nil THEN 1 ELSE @ + 1])
  /\ served' = [served EXCEPT ![Key(w)] = @ + 1]
  /\ Return(w)
  /\ UNCHANGED <<orderid, needUpdate, alreadyUpdate, orderLimit, orderStatus,
                 orderExpire, hub, reqs, item, list, update>>

\* Over the limit or expired: UserRemoveSortedSet.
Remove(w) ==
  /\ pc[w] = "remove"
  /\ RemoveLowest
  /\ Goto(w, "status")
  /\ UNCHANGED <<needUpdate, alreadyUpdate, orderCount, orderLimit,
                 orderStatus, orderExpire, hub, served, reqs, item, sub,
                 list, count, update>>

\* UserGet(strStatusOrderId): settle the order unless that was done, 8003.
GetStatus(w) ==
  /\ pc[w] = "status"
  /\ \E v \in Get(orderStatus[Key(w)]) :
       IF v = "0" THEN Goto(w, "hub") /\ UNCHANGED <<sub, count>>
                  ELSE Return(w)
  /\ UNCHANGED <<redis, hub, served, reqs, item, list, update>>

\* Faulty variant: the limit is reported, not the count.
BadTellHub(w) ==
  /\ pc[w] = "hub"
  /\ SetPlanUsed(sub[w], Units[sub[w]])
  /\ Goto(w, "smove")
  /\ UNCHANGED <<redis, phase, served, reqs, item, sub, list, count, update>>

\* BdxApiUpdateUserOrder with the count that was checked.
TellHub(w) ==
  /\ pc[w] = "hub"
  /\ SetPlanUsed(sub[w], count[w])
  /\ Goto(w, "smove")
  /\ UNCHANGED <<redis, phase, served, reqs, item, sub, list, count, update>>

\* UserSmove(needUpdateOrder, alreadyUpdateOrder).
MoveToAlready(w) ==
  /\ pc[w] = "smove"
  /\ Smove(Key(w))
  /\ Goto(w, "settle")
  /\ UNCHANGED <<orderid, orderCount, orderLimit, orderStatus, orderExpire,
                 hub, served, reqs, item, sub, list, count, update>>

\* UserPut(strStatusOrderId, "1"), then error 8003.
Settle(w) ==
  /\ pc[w] = "settle"
  /\ Write(orderStatus, [orderStatus EXCEPT ![Key(w)] = "1"])
  /\ Return(w)
  /\ UNCHANGED <<orderid, needUpdate, alreadyUpdate, orderCount, orderLimit,
                 orderExpire, hub, served, reqs, item, list, update>>

-----------------------------------------------------------------------------
(* The update thread.                                                      *)

\* Done with a member of the set.
UpdReturn == upc' = "member" /\ member' = Nil /\ ucount' = 0

\* The date changed: UserSmembers(need_updated_datahub_order).
NewDay ==
  /\ upc = "sleep"
  /\ needUpdate # {}
  /\ members' = needUpdate
  /\ upc' = "member"
  /\ UNCHANGED <<redis, hub, served, reqs, work, member, ucount>>

\* No member left: sleep until the next date.
DayDone ==
  /\ upc = "member"
  /\ members = {}
  /\ upc' = "sleep"
  /\ UNCHANGED <<redis, hub, served, reqs, work, members, member, ucount>>

\* The next member: UserGet(statusOrder); only an order of status 0 goes on.
NextMember ==
  /\ upc = "member"
  /\ \E k \in members :
       /\ members' = members \ {k}
       /\ \E v \in Get(orderStatus[k]) :
            IF v = "0" THEN upc' = "count" /\ member' = k
                       ELSE UNCHANGED <<upc, member>>
  /\ UNCHANGED <<redis, hub, served, reqs, work, ucount>>

\* UserGet(strCountOrderId).
UpdGetCount ==
  /\ upc = "count"
  /\ \E v \in Get(orderCount[member]) :
       \/ v = Nil /\ UpdReturn
       \/ v # Nil /\ upc' = "limit" /\ ucount' = v /\ UNCHANGED member
  /\ UNCHANGED <<redis, hub, served, reqs, work, members>>

\* UserGet(strLimitOrderId), and the count against it.
UpdGetLimit ==
  /\ upc = "limit"
  /\ \E v \in Get(orderLimit[member]) :
       \/ v = Nil /\ UpdReturn
       \/ /\ v # Nil
          /\ upc' = IF ucount >= v THEN "expire" ELSE "hub"
          /\ UNCHANGED <<member, ucount>>
  /\ UNCHANGED <<redis, hub, served, reqs, work, members>>

\* Over the limit: UserGet(strExpireOrderId) decides whether to settle.
UpdGetExpire ==
  /\ upc = "expire"
  /\ \/ member \in orderExpire /\ upc' = "hub"
     \/ /\ member \notin orderExpire \/ RedisFaults
        /\ upc' = "settle"
  /\ UNCHANGED <<redis, hub, served, reqs, work, members, member, ucount>>

\* UserPut(statusOrder, "1").
UpdSettle ==
  /\ upc = "settle"
  /\ Write(orderStatus, [orderStatus EXCEPT ![member] = "1"])
  /\ upc' = "smove"
  /\ UNCHANGED <<orderid, needUpdate, alreadyUpdate, orderCount, orderLimit,
                 orderExpire, hub, served, reqs, work, members, member,
                 ucount>>

\* UserSmove(needUpdateOrder, alreadyUpdateOrder).
UpdMove ==
  /\ upc = "smove"
  /\ Smove(member)
  /\ upc' = "remove"
  /\ UNCHANGED <<orderid, orderCount, orderLimit, orderStatus, orderExpire,
                 hub, served, reqs, work, members, member, ucount>>

\* UserRemoveSortedSet of the user's orders.
UpdRemove ==
  /\ upc = "remove"
  /\ RemoveLowest
  /\ upc' = "hub"
  /\ UNCHANGED <<needUpdate, alreadyUpdate, orderCount, orderLimit,
                 orderStatus, orderExpire, hub, served, reqs, work, members,
                 member, ucount>>

\* BdxApiUpdateUserOrder with the count read before.
UpdTellHub ==
  /\ upc = "hub"
  /\ SetPlanUsed(member[2], ucount)
  /\ UpdReturn
  /\ UNCHANGED <<redis, phase, served, reqs, work, members>>

-----------------------------------------------------------------------------
\* The process dies (a Redis reply that never came is dereferenced in
\* GetValueSortedSet and RemoveSortedSet, for one) and is started again.
Crash ==
  /\ pc' = [w \in Workers |-> "idle"]
  /\ sub' = [w \in Workers |-> NoOrder]
  /\ list' = [w \in Workers |-> {}]
  /\ count' = [w \in Workers |-> 0]
  /\ upc' = "sleep" /\ members' = {} /\ member' = Nil /\ ucount' = 0
  /\ UNCHANGED <<redis, hub, served, reqs, item>>

Load(w) ==
  \/ ZRange(w) \/ Fetch(w) \/ ZAdd(w) \/ SAdd(w) \/ PutCount(w)
  \/ PutExpire(w) \/ PutLimit(w) \/ PutStatus(w) \/ SetRetrieved(w)
  \/ Skip(w) \/ ZRangeAgain(w)

Check(w) ==
  \/ GetCount(w) \/ GetLimit(w) \/ GetExpire(w) \/ Serve(w) \/ Incr(w)

CloseOrder(w) ==
  \/ Remove(w) \/ GetStatus(w) \/ TellHub(w) \/ MoveToAlready(w) \/ Settle(w)

WorkerStep(w) ==
  \/ \E i \in Items : Request(w, i)
  \/ Load(w) \/ Check(w) \/ CloseOrder(w)

UpdateStep ==
  \/ NewDay \/ DayDone \/ NextMember \/ UpdGetCount \/ UpdGetLimit
  \/ UpdGetExpire \/ UpdSettle \/ UpdMove \/ UpdRemove \/ UpdTellHub

Next ==
  \/ \E w \in Workers : WorkerStep(w)
  \/ UpdateStep
  \/ Crash
  \/ \E o \in Orders : Buy(o)
  \/ \E k \in Keys : Expires(k)

Spec == Init /\ [][Next]_vars
-----------------------------------------------------------------------------
\* Every variable holds a value of its type.
TypeOK ==
  /\ orderid \subseteq Orders
  /\ needUpdate \subseteq Keys /\ alreadyUpdate \subseteq Keys
  /\ orderCount \in [Keys -> Nat \cup {Nil}]
  /\ orderLimit \in [Keys -> Nat \cup {Nil}]
  /\ orderStatus \in [Keys -> {"0", "1", Nil}]
  /\ orderExpire \subseteq Keys
  /\ phase \in [Orders -> Phases]
  /\ used \in [Orders -> Nat]
  /\ served \in [Keys -> Nat]
  /\ reqs \in Nat
  /\ pc \in [Workers -> WorkPcs]
  /\ item \in [Workers -> Items]
  /\ sub \in [Workers -> Orders \cup {NoOrder}]
  /\ list \in [Workers -> SUBSET Orders]
  /\ count \in [Workers -> Nat]
  /\ upc \in UpdatePcs
  /\ members \subseteq Keys
  /\ member \in Keys \cup {Nil}
  /\ ucount \in Nat

OrderKey(o) == <<ItemOf[o], o>>
Overshoot == Cardinality(Workers) - 1

\* The check of the count against the limit and the UserIncr that follows the
\* reply are apart, so an order may be overdrawn; but never by more than one
\* request for each of the other workers, crashes, Redis failures, repeated
\* loads of the order and the update thread notwithstanding.
QuotaOvershoot ==
  \A o \in Orders : orderCount[OrderKey(o)] # Nil =>
                      orderCount[OrderKey(o)] <= Units[o] + Overshoot

\* DataHub is never told that more of an order was used than was served on
\* it, whichever thread reports and however old the count it has read is.
NeverOverbilled == \A o \in Orders : used[o] <= served[OrderKey(o)]

\* The orders of a user's different items are in one sorted set; still a
\* request is only ever served on an order for the item it names.
ChargedToItem ==
  \A w \in Workers : pc[w] \in {"serve", "incr"} =>
                       sub[w] \in Orders /\ ItemOf[sub[w]] = item[w]

\* An order is marked retrieved at DataHub, which will not offer it again,
\* only once Redis has all of it: a crash anywhere in the loading of orders
\* loses none.
RetrievedIsStored ==
  ~RedisFaults =>
    \A o \in Orders : phase[o] = "retrieved" =>
      /\ orderCount[OrderKey(o)] # Nil
      /\ orderLimit[OrderKey(o)] = Units[o]
      /\ orderStatus[OrderKey(o)] # Nil
      /\ OrderKey(o) \in needUpdate \cup alreadyUpdate

\* No reply is given on an order whose count, at that moment, is missing or at
\* the bound of QuotaOvershoot already.  What an order serves beyond it
\* (WithinQuota) it serves because its count was set back or not raised.
ServedWhileOpen ==
  [][\A o \in Orders : served'[OrderKey(o)] > served[OrderKey(o)] =>
        /\ orderCount[OrderKey(o)] # Nil
        /\ orderCount[OrderKey(o)] < Units[o] + Overshoot]_vars

-----------------------------------------------------------------------------
(* What comments in TaskMain.cpp say, and the code does not do.            *)

\* "delete order" (TaskMain.cpp:543): a worker that finds its order over the
\* limit or expired deletes that order and no other.
DeletesItsOrder ==
  [][\A w \in Workers : Remove(w) => orderid \ orderid' \subseteq {sub[w]}]_vars

\* "over quato limit or order is expired" (TaskMain.cpp:561): beyond its
\* limit an order serves no request but those already past the check.
WithinQuota ==
  \A o \in Orders : served[OrderKey(o)] <= Units[o] + Overshoot

\* No order is loaded again once something was counted on it.
NotReloaded ==
  \A k \in Keys : orderCount[k] # Nil => orderCount'[k] # Nil /\ orderCount'[k] >= orderCount[k]
=============================================================================
