----------------------------- MODULE StatusQueue -----------------------------
(***************************************************************************)
(* m_vecTaskStauts[i]: a worker pushes a status, holding a mutex the       *)
(* server does not take; the server tests, reads and pops without a lock.  *)
(* The queue is a std::deque: statuses are in nodes of NodeSize slots, the *)
(* map holds the nodes in order, start and finish are iterators.  Each     *)
(* write of a pointer is one step, in the order libstdc++ makes them (the  *)
(* program is compiled without optimisation, and x86 keeps the order of    *)
(* stores and of loads).                                                   *)
(*                                                                         *)
(* Only the worker writes finish and only the server writes start, but for *)
(* one case: when the map has no room behind finish the worker moves the   *)
(* nodes in the map and with them start.node.                              *)
(***************************************************************************)
EXTENDS Integers, Sequences, FiniteSets

CONSTANTS
    NodeSize,   \* slots of a node: 64 statuses in the program
    MapSize,    \* entries of the map at first: 8 in the program
    MaxPush     \* bound on the statuses pushed

ASSUME NodeAssumption == NodeSize \in Nat \ {0} /\ MapSize \in Nat \ {0} /\ MaxPush \in Nat

VARIABLES
    map,        \* index to node, 0 where there is none
    slots,      \* what each node's slots hold; 0: nothing
    nodes,      \* nodes allocated so far (never reused)
    sNode, sBuf, sCur,  \* start: index in the map, node, slot
    fNode, fBuf, fCur,  \* finish
    pushPc,        \* where the worker's push is
    wTo,        \* new_nstart of a reallocation
    sPc,        \* where the server is
    pushed,     \* history: statuses pushed, their numbers
    popped,     \* history: what the server took
    raced,      \* history: the worker moved the nodes while the server changed node
    broken      \* the server used an entry of the map that holds no node

startVars == <<sNode, sBuf, sCur>>
finishVars == <<fNode, fBuf, fCur>>
queueVars == <<map, slots, nodes, startVars, finishVars, pushPc, wTo, sPc, pushed, popped, raced, broken>>

Nodes == 1 .. MaxPush + 1
EmptyNode == [o \in 0 .. NodeSize - 1 |-> 0]

QueueInit ==
    LET mid == (MapSize - 1) \div 2
    IN /\ map = [i \in 0 .. MapSize - 1 |-> IF i = mid THEN 1 ELSE 0]
       /\ sNode = mid
       /\ fNode = mid
    /\ slots = [n \in Nodes |-> EmptyNode]
    /\ nodes = 1
    /\ sBuf = 1 /\ sCur = <<1, 0>>
    /\ fBuf = 1 /\ fCur = <<1, 0>>
    /\ pushPc = "idle"
    /\ wTo = 0
    /\ sPc = "test"
    /\ pushed = 0
    /\ popped = <<>>
    /\ raced = FALSE
    /\ broken = FALSE

LastSlot(cur, buf) == cur = <<buf, NodeSize - 1>>

(* Once the two have raced for start the pointers are anything: nothing is     *)
(* claimed of what follows, and every action needs ~raced.                     *)

(* The worker is between the reading and the writing of start.node. *)
Moving == pushPc \in {"movestart", "movefinish"}
(* The server is going to the next node. *)
Crossing == sPc \in {"nextnode", "nextbuf", "nextcur"}

-----------------------------------------------------------------------------
(* The worker: m_vecTaskStauts[m_uiThreadId].push(stTaskStatus)              *)

(* Faulty variant: finish is moved before the status is in its slot. *)
EarlyPush ==
    /\ ~raced /\ pushPc = "idle"
    /\ pushed < MaxPush
    /\ pushed' = pushed + 1
    /\ IF LastSlot(fCur, fBuf)
       THEN /\ pushPc' = IF fNode + 1 \in DOMAIN map THEN "newnode" ELSE "move"
            /\ UNCHANGED <<fCur, slots>>
       ELSE /\ fCur' = <<fCur[1], fCur[2] + 1>>
            /\ pushPc' = "idle"
            /\ UNCHANGED slots
    /\ UNCHANGED <<map, nodes, startVars, fNode, fBuf, wTo, sPc, popped, raced, broken>>

(* push_back: the status goes into the slot of finish unless it is the last of *)
(* its node.                                                                   *)
Push ==
    /\ ~raced /\ pushPc = "idle"
    /\ pushed < MaxPush
    /\ pushed' = pushed + 1
    /\ IF LastSlot(fCur, fBuf)
       THEN /\ pushPc' = IF fNode + 1 \in DOMAIN map THEN "newnode" ELSE "move"
            /\ UNCHANGED slots
       ELSE /\ slots' = [slots EXCEPT ![fCur[1]][fCur[2]] = pushed + 1]
            /\ pushPc' = "advance"
    /\ UNCHANGED <<map, nodes, startVars, finishVars, wTo, sPc, popped, raced, broken>>

PushAdvance ==
    /\ ~raced /\ pushPc = "advance"
    /\ fCur' = <<fCur[1], fCur[2] + 1>>
    /\ pushPc' = "idle"
    /\ UNCHANGED <<map, slots, nodes, startVars, fNode, fBuf, wTo, sPc, pushed, popped,
                   raced, broken>>

(* _M_reallocate_map: the nodes from start to finish are copied to the middle   *)
(* of the map, or of a larger one.                                              *)
Move ==
    /\ ~raced /\ pushPc = "move"
    /\ LET used == fNode - sNode + 1
           wide == Cardinality(DOMAIN map) > 2 * (used + 1)
           size == IF wide THEN Cardinality(DOMAIN map) ELSE 2 * Cardinality(DOMAIN map) + 2
           to   == (size - (used + 1)) \div 2
       IN /\ map' = [i \in 0 .. size - 1 |->
                        IF i \in to .. to + used - 1 THEN map[sNode + i - to]
                        ELSE IF wide THEN map[i] ELSE 0]
          /\ wTo' = to
          /\ fNode' = to + used - 1
    /\ raced' = (raced \/ Crossing)
    /\ pushPc' = "movestart"
    /\ UNCHANGED <<slots, nodes, startVars, fBuf, fCur, sPc, pushed, popped, broken>>

(* start._M_set_node(new_nstart): node first, then first and last. *)
MoveStart ==
    /\ ~raced /\ pushPc = "movestart"
    /\ sNode' = wTo
    /\ raced' = (raced \/ Crossing)
    /\ pushPc' = "movefinish"
    /\ UNCHANGED <<map, slots, nodes, sBuf, sCur, finishVars, wTo, sPc, pushed, popped, broken>>

MoveFinish ==
    /\ ~raced /\ pushPc = "movefinish"
    /\ sBuf' = map[sNode]
    /\ raced' = (raced \/ Crossing)
    /\ pushPc' = "newnode"
    /\ UNCHANGED <<map, slots, nodes, sNode, sCur, finishVars, wTo, sPc, pushed, popped, broken>>

(* _M_push_back_aux: a new node, the status in the last slot of the old one. *)
NewNode ==
    /\ ~raced /\ pushPc = "newnode"
    /\ nodes' = nodes + 1
    /\ map' = [map EXCEPT ![fNode + 1] = nodes + 1]
    /\ slots' = [slots EXCEPT ![fCur[1]][fCur[2]] = pushed]
    /\ pushPc' = "setnode"
    /\ UNCHANGED <<startVars, finishVars, wTo, sPc, pushed, popped, raced, broken>>

SetNode ==
    /\ ~raced /\ pushPc = "setnode"
    /\ fNode' = fNode + 1
    /\ fBuf' = map[fNode + 1]
    /\ pushPc' = "setcur"
    /\ UNCHANGED <<map, slots, nodes, startVars, fCur, wTo, sPc, pushed, popped, raced, broken>>

SetCur ==
    /\ ~raced /\ pushPc = "setcur"
    /\ fCur' = <<fBuf, 0>>
    /\ pushPc' = "idle"
    /\ UNCHANGED <<map, slots, nodes, startVars, fNode, fBuf, wTo, sPc, pushed, popped,
                   raced, broken>>

-----------------------------------------------------------------------------
(* The server: while (!empty()) { front(); pop(); ... }                      *)

(* Faulty variant: the loop ends when one status is left. *)
LeavingTest ==
    /\ ~raced /\ sPc = "test"
    /\ pushed - Len(popped) > 1
    /\ sCur # fCur
    /\ sPc' = "front"
    /\ UNCHANGED <<map, slots, nodes, startVars, finishVars, pushPc, wTo, pushed, popped, raced,
                   broken>>

Test ==
    /\ ~raced /\ sPc = "test"
    /\ sCur # fCur
    /\ sPc' = "front"
    /\ UNCHANGED <<map, slots, nodes, startVars, finishVars, pushPc, wTo, pushed, popped, raced,
                   broken>>

TakeFront ==
    /\ ~raced /\ sPc = "front"
    /\ popped' = Append(popped, slots[sCur[1]][sCur[2]])
    /\ sPc' = "pop"
    /\ UNCHANGED <<map, slots, nodes, startVars, finishVars, pushPc, wTo, pushed, raced, broken>>

(* pop_front: the next slot, or after the last of the node the next node.  The  *)
(* slots of the old node are freed.                                             *)
Pop ==
    /\ ~raced /\ sPc = "pop"
    /\ IF LastSlot(sCur, sBuf)
       THEN /\ slots' = [slots EXCEPT ![sBuf] = EmptyNode]
            /\ raced' = (raced \/ Moving)
            /\ sPc' = "nextnode"
            /\ UNCHANGED sCur
       ELSE /\ sCur' = <<sCur[1], sCur[2] + 1>>
            /\ sPc' = "test"
            /\ UNCHANGED <<slots, raced>>
    /\ UNCHANGED <<map, nodes, sNode, sBuf, finishVars, pushPc, wTo, pushed, popped, broken>>

(* start._M_set_node(start.node + 1), start.cur = start.first. *)
NextNode ==
    /\ ~raced /\ sPc = "nextnode"
    /\ sNode' = sNode + 1
    /\ raced' = (raced \/ Moving)
    /\ sPc' = "nextbuf"
    /\ UNCHANGED <<map, slots, nodes, sBuf, sCur, finishVars, pushPc, wTo, pushed, popped, broken>>

NextBuf ==
    /\ ~raced /\ sPc = "nextbuf"
    /\ raced' = (raced \/ Moving)
    /\ IF sNode \in DOMAIN map /\ map[sNode] # 0
       THEN sBuf' = map[sNode] /\ sPc' = "nextcur" /\ UNCHANGED broken
       ELSE broken' = TRUE /\ sPc' = "lost" /\ UNCHANGED sBuf
    /\ UNCHANGED <<map, slots, nodes, sNode, sCur, finishVars, pushPc, wTo, pushed, popped>>

NextCur ==
    /\ ~raced /\ sPc = "nextcur"
    /\ sCur' = <<sBuf, 0>>
    /\ raced' = (raced \/ Moving)
    /\ sPc' = "test"
    /\ UNCHANGED <<map, slots, nodes, sNode, sBuf, finishVars, pushPc, wTo, pushed, popped, broken>>

PushStep == PushAdvance \/ Move \/ MoveStart \/ MoveFinish \/ NewNode \/ SetNode \/ SetCur
TakeStep == Test \/ TakeFront \/ Pop \/ NextNode \/ NextBuf \/ NextCur

-----------------------------------------------------------------------------
(* Types of all variables. *)
QueueTypeOK ==
    /\ nodes \in Nodes
    /\ \A i \in DOMAIN map : map[i] \in 0 .. nodes
    /\ fNode \in DOMAIN map
    /\ sNode \in DOMAIN map \/ raced
    /\ sBuf \in Nodes /\ sCur \in Nodes \X (0 .. NodeSize - 1)
    /\ fBuf \in Nodes /\ fCur \in Nodes \X (0 .. NodeSize - 1)
    /\ pushPc \in {"idle", "advance", "move", "movestart", "movefinish", "newnode", "setnode", "setcur"}
    /\ sPc \in {"test", "front", "pop", "nextnode", "nextbuf", "nextcur", "lost"}
    /\ pushed \in 0 .. MaxPush
    /\ raced \in BOOLEAN /\ broken \in BOOLEAN

(* The server takes every status once, whole and in the order pushed, though  *)
(* it reads without a lock - unless the worker moved the nodes of the deque   *)
(* while the server went from one node to the next.                           *)
StatusInOrder ==
    raced \/ (~broken /\ \A i \in DOMAIN popped : popped[i] = i)

(* ... and none stays behind: as long as finished pushes are left the server *)
(* goes on to take one.                                                       *)
StatusTaken ==
    (pushed > Len(popped) /\ pushPc = "idle") ~> (raced \/ sPc = "pop")

=============================================================================
