---------------------------- MODULE MCOrderQuota ----------------------------
(***************************************************************************)
(* Small instances of OrderQuota for TLC: one order of one unit, or two.   *)
(***************************************************************************)
EXTENDS OrderQuota, TLC

CONSTANTS a, b          \* items

\* One order; two orders of one item; two orders of an item each.
OneOrder == 1 :> a
OneItem  == (1 :> a) @@ (2 :> a)
TwoItems == (1 :> a) @@ (2 :> b)

\* Every order allows one request: the limit is met at once.
UnitOrders == [o \in Orders |-> 1]

\* The workers are interchangeable.
WorkerSymmetry == Permutations(Workers)
=============================================================================
