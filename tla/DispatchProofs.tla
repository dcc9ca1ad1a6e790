--------------------------- MODULE DispatchProofs ---------------------------
(* TLAPS proofs about Dispatch, for any number of workers and descriptors: *)
(* what holds of its queues and tasks, and that it implements ConnLife.    *)
EXTENDS Dispatch, FiniteSetTheorems, FunctionTheorems, TLAPS

-----------------------------------------------------------------------------
(* Sequences.                                                              *)

\* What push does to a queue.
LEMMA AppendFacts ==
  ASSUME NEW S, NEW s \in Seq(S), NEW e \in S
  PROVE  /\ Append(s, e) \in Seq(S)
         /\ Append(s, e) # <<>>
         /\ Len(Append(s, e)) = Len(s) + 1
         /\ DOMAIN s = 1..Len(s) /\ Len(s) \in Nat
         /\ DOMAIN Append(s, e) = 1..(Len(s) + 1)
         /\ \A i \in 1..Len(s) : Append(s, e)[i] = s[i]
         /\ Append(s, e)[Len(s) + 1] = e
  OBVIOUS

\* What front and pop do to a queue that is not empty.
LEMMA TailFacts ==
  ASSUME NEW S, NEW s \in Seq(S), s # <<>>
  PROVE  /\ Tail(s) \in Seq(S)
         /\ Head(s) \in S /\ Head(s) = s[1]
         /\ Len(s) \in Nat \ {0}
         /\ DOMAIN s = 1..Len(s)
         /\ DOMAIN Tail(s) = 1..(Len(s) - 1)
         /\ \A i \in 1..(Len(s) - 1) : Tail(s)[i] = s[i + 1]
  OBVIOUS

\* Pushing e on the queue of w: what each index of the new queues holds, and
\* where each index of the old ones went.
LEMMA PushSeq ==
  ASSUME NEW W, NEW S, NEW q \in [W -> Seq(S)], NEW w \in W, NEW e \in S,
         NEW r, r = [q EXCEPT ![w] = Append(q[w], e)]
  PROVE  /\ \A v \in W : \A k \in DOMAIN r[v] :
              \/ v = w /\ k = Len(q[w]) + 1 /\ r[v][k] = e
              \/ k \in DOMAIN q[v] /\ r[v][k] = q[v][k]
         /\ \A v \in W : \A k \in DOMAIN q[v] :
              k \in DOMAIN r[v] /\ r[v][k] = q[v][k]
         /\ \E k \in DOMAIN r[w] : r[w][k] = e
  <1>1. /\ r[w] = Append(q[w], e)
        /\ \A v \in W : v # w => r[v] = q[v]
    OBVIOUS
  <1>2. /\ DOMAIN q[w] = 1..Len(q[w]) /\ Len(q[w]) \in Nat
        /\ DOMAIN r[w] = 1..(Len(q[w]) + 1)
        /\ \A i \in 1..Len(q[w]) : r[w][i] = q[w][i]
        /\ r[w][Len(q[w]) + 1] = e
    BY <1>1, AppendFacts
  <1>3. ASSUME NEW v \in W, NEW k \in DOMAIN r[v]
        PROVE  \/ v = w /\ k = Len(q[w]) + 1 /\ r[v][k] = e
               \/ k \in DOMAIN q[v] /\ r[v][k] = q[v][k]
    <2>1. CASE v = w
      <3>1. k \in 1..(Len(q[w]) + 1)
        BY <2>1, <1>2, <1>3
      <3>2. CASE k = Len(q[w]) + 1
        BY <2>1, <3>2, <1>2
      <3>3. CASE k # Len(q[w]) + 1
        <4>1. k \in 1..Len(q[w])
          BY <3>1, <3>3, <1>2
        <4>2. QED
          BY <4>1, <2>1, <1>2
      <3>4. QED
        BY <3>2, <3>3
    <2>2. CASE v # w
      BY <2>2, <1>1, <1>3
    <2>3. QED
      BY <2>1, <2>2
  <1>4. ASSUME NEW v \in W, NEW k \in DOMAIN q[v]
        PROVE  k \in DOMAIN r[v] /\ r[v][k] = q[v][k]
    <2>1. CASE v = w
      BY <2>1, <1>2, <1>4
    <2>2. CASE v # w
      BY <2>2, <1>1, <1>4
    <2>3. QED
      BY <2>1, <2>2
  <1>5. QED
    BY <1>2, <1>3, <1>4

\* The same for taking the front off the queue of w.
Popped(W, S, q, w, r) ==
  /\ 1 \in DOMAIN q[w] /\ Head(q[w]) = q[w][1] /\ Head(q[w]) \in S
  /\ \A v \in W : \A k \in DOMAIN r[v] :
       \/ /\ v = w /\ k \in Nat /\ k + 1 # 1
          /\ k + 1 \in DOMAIN q[v] /\ r[v][k] = q[v][k + 1]
       \/ v # w /\ k \in DOMAIN q[v] /\ r[v][k] = q[v][k]
  /\ \A v \in W : \A k \in DOMAIN q[v] :
       \/ v = w /\ k = 1
       \/ \E j \in DOMAIN r[v] : r[v][j] = q[v][k]

\* Popping the queue of w: what each index of the new queues holds, and
\* where each index of the old ones went.
LEMMA PopSeq ==
  ASSUME NEW W, NEW S, NEW q \in [W -> Seq(S)], NEW w \in W, q[w] # <<>>,
         NEW r, r = [q EXCEPT ![w] = Tail(q[w])]
  PROVE  Popped(W, S, q, w, r)
  <1>1. /\ r[w] = Tail(q[w])
        /\ \A v \in W : v # w => r[v] = q[v]
    OBVIOUS
  <1>2. /\ Len(q[w]) \in Nat \ {0}
        /\ DOMAIN q[w] = 1..Len(q[w])
        /\ DOMAIN r[w] = 1..(Len(q[w]) - 1)
        /\ \A i \in 1..(Len(q[w]) - 1) : r[w][i] = q[w][i + 1]
        /\ Head(q[w]) = q[w][1] /\ Head(q[w]) \in S
    BY <1>1, TailFacts
  <1>3. ASSUME NEW v \in W, NEW k \in DOMAIN r[v]
        PROVE  \/ /\ v = w /\ k \in Nat /\ k + 1 # 1
                  /\ k + 1 \in DOMAIN q[v] /\ r[v][k] = q[v][k + 1]
               \/ v # w /\ k \in DOMAIN q[v] /\ r[v][k] = q[v][k]
    <2>1. CASE v = w
      <3>1. k \in 1..(Len(q[w]) - 1)
        BY <2>1, <1>2, <1>3
      <3>2. k \in Nat /\ k + 1 # 1 /\ k + 1 \in 1..Len(q[w])
        BY <3>1, <1>2
      <3>3. QED
        BY <2>1, <3>1, <3>2, <1>2
    <2>2. CASE v # w
      BY <2>2, <1>1, <1>3
    <2>3. QED
      BY <2>1, <2>2
  <1>4. ASSUME NEW v \in W, NEW k \in DOMAIN q[v]
        PROVE  \/ v = w /\ k = 1
               \/ \E j \in DOMAIN r[v] : r[v][j] = q[v][k]
    <2>1. CASE v = w /\ k # 1
      <3>1. k - 1 \in 1..(Len(q[w]) - 1) /\ (k - 1) + 1 = k
        BY <2>1, <1>2, <1>4
      <3>2. k - 1 \in DOMAIN r[w] /\ r[w][k - 1] = q[w][k]
        BY <3>1, <1>2
      <3>3. QED
        BY <2>1, <3>2
    <2>2. CASE v # w
      BY <2>2, <1>1, <1>4
    <2>3. QED
      BY <2>1, <2>2
  <1>5. 1 \in DOMAIN q[w]
    BY <1>2
  <1>6. QED
    BY <1>2, <1>3, <1>4, <1>5 DEF Popped

(***************************************************************************)
(* Type correctness, together with what the program counters say.          *)
(***************************************************************************)
TypeInv == TypeOK /\ Control

\* The threads start with state of the right types.
LEMMA TypeInit == Init => TypeInv
  BY NAssumption, FdsAssumption
     DEF Init, TypeInv, TypeOK, Control, Workers, Busy, SrvPcs, WorkPcs,
         PeerStates, Status

\* The server's steps keep the types and what its program counter says.
LEMMA TypeServer == ASSUME TypeInv, ServerStep PROVE TypeInv'
  <1> USE NAssumption, FdsAssumption DEF TypeInv, TypeOK, Control, Workers, Busy, worker
  <1>1. CASE FreeTaskNext
    <2>1. UNCHANGED <<srvFd, batch, interest, mpSocketTask, workPc, task, owner,
                      queTask, queStatus, peer>>
      BY <1>1 DEF FreeTaskNext
    <2>2. srvIdx \in 1..N /\ srvPc = "free"
      BY <1>1 DEF FreeTaskNext
    <2>3. \/ srvIdx < N /\ srvIdx' = srvIdx + 1 /\ srvPc' = "free"
          \/ srvIdx' = 1 /\ srvPc' = "wait"
      BY <1>1 DEF FreeTaskNext
    <2>4. srvIdx' \in 1..N /\ srvPc' \in {"free", "wait"}
      <3> HIDE DEF TypeInv, TypeOK, Control
      <3>1. QED
        BY <2>2, <2>3
    <2>5. QED
      BY <2>1, <2>2, <2>4 DEF SrvPcs
  <1>2. CASE FreeTaskPop
    <2> DEFINE st == Head(queStatus[srvIdx])
    <2>1. srvIdx \in Workers /\ queStatus[srvIdx] \in Seq(Status)
      BY <1>2 DEF FreeTaskPop
    <2>2. /\ st \in Status
          /\ Tail(queStatus[srvIdx]) \in Seq(Status)
      BY <1>2, <2>1, TailFacts DEF FreeTaskPop
    <2>3. st.m_iSockFd \in Fds
      BY <2>2 DEF Status
    <2>4. /\ queStatus' \in [Workers -> Seq(Status)]
          /\ UNCHANGED <<srvPc, srvIdx, srvFd, batch, workPc, task, owner, queTask>>
      BY <1>2, <2>1, <2>2 DEF FreeTaskPop
    <2>5. /\ interest' \subseteq Fds /\ interest \subseteq interest'
          /\ mpSocketTask' \subseteq Fds
          /\ peer' \in [Fds -> PeerStates]
      BY <1>2, <2>3 DEF FreeTaskPop, Rearm, DropTask, PeerStates
    <2>6. QED
      BY <2>4, <2>5
  <1>3. CASE EpollWait
    BY <1>3 DEF EpollWait, Returned, SrvPcs
  <1>4. CASE EventsDone
    BY <1>4 DEF EventsDone, SrvPcs
  <1>5. CASE AcceptFails
    BY <1>5 DEF AcceptFails
  <1>6. CASE PutTryLock
    BY <1>6 DEF PutTryLock, SrvPcs
  <1>7. CASE PutPush
    BY <1>7 DEF PutPush, MutexNotify, SrvPcs, WorkPcs
  <1>8. CASE PutNoFree
    BY <1>8 DEF PutNoFree, DropTask, SrvPcs, PeerStates
  <1>9. ASSUME NEW f \in Fds, Accept(f) PROVE TypeInv'
    BY <1>9 DEF Accept, PeerStates
  <1>10. ASSUME NEW f \in Fds, ReadEvent(f) PROVE TypeInv'
    <2>1. /\ batch' \subseteq interest' \cup {Listen}
          /\ batch' \subseteq Fds \cup {Listen} /\ interest' \subseteq Fds
      BY <1>10 DEF ReadEvent
    <2>2. /\ peer' \in [Fds -> PeerStates]
          /\ UNCHANGED <<mpSocketTask, workPc, task, owner, queTask, queStatus>>
      BY <1>10 DEF ReadEvent, PeerStates
    <2>3. /\ srvPc' \in SrvPcs /\ srvIdx' \in 1..(N + 1)
          /\ srvFd' \in Fds \cup {NoFd}
          /\ srvFd' # NoFd <=> srvPc' \in {"put", "push"}
          /\ srvPc' # "put" => srvIdx' \in Workers
      BY <1>10 DEF ReadEvent, SrvPcs
    <2>4. QED
      BY <2>1, <2>2, <2>3
  <1>11. QED
    BY <1>1, <1>2, <1>3, <1>4, <1>5, <1>6, <1>7, <1>8, <1>9, <1>10
       DEF ServerStep

\* So do the steps of every worker.
LEMMA TypeWorker ==
  ASSUME TypeInv, NEW w \in Workers, WorkerStep(w) \/ WorkSpurious(w)
  PROVE  TypeInv'
  <1> USE NAssumption, FdsAssumption DEF TypeInv, TypeOK, Control, Busy, WorkPcs, server
  <1>1. CASE WorkLock(w)
    BY <1>1 DEF WorkLock
  <1>2. CASE WorkWait(w)
    BY <1>2 DEF WorkWait
  <1>3. CASE WorkSpurious(w)
    BY <1>3 DEF WorkSpurious
  <1>4. CASE WorkTake(w)
    <2> DEFINE f == Head(queTask[w])
    <2>1. f \in Fds /\ Tail(queTask[w]) \in Seq(Fds)
      BY <1>4, TailFacts DEF WorkTake, ReadRequest
    <2>2. /\ queTask' \in [Workers -> Seq(Fds)]
          /\ task' = [task EXCEPT ![w] = f]
          /\ UNCHANGED <<server, owner, queStatus>>
      BY <1>4, <2>1 DEF WorkTake, ReadRequest
    <2>3. peer' \in [Fds -> PeerStates]
      BY <1>4, <2>1 DEF WorkTake, ReadRequest, PeerStates
    <2>4. \E pc \in {"serve", "reply"} : workPc' = [workPc EXCEPT ![w] = pc]
      BY <1>4 DEF WorkTake, ReadRequest
    <2>5. QED
      BY <2>1, <2>2, <2>3, <2>4
  <1>5. CASE TaskServed(w)
    BY <1>5 DEF TaskServed
  <1>6. CASE TaskHangs(w)
    BY <1>6 DEF TaskHangs
  <1>7. CASE TaskReply(w)
    <2>1. task[w] \in Fds
      BY <1>7 DEF TaskReply
    <2>2. PICK ok \in BOOLEAN :
            /\ queStatus' = [queStatus EXCEPT ![w] =
                               Append(@, [m_iSockFd |-> task[w], m_bStatus |-> ok])]
            /\ peer' = [peer EXCEPT ![task[w]] =
                          IF ok /\ @ = "eof" THEN "answered" ELSE @]
      BY <1>7 DEF TaskReply
    <2>3. [m_iSockFd |-> task[w], m_bStatus |-> ok] \in Status
      BY <2>1 DEF Status
    <2>4. queStatus' \in [Workers -> Seq(Status)]
      BY <2>2, <2>3, AppendFacts
    <2>5. peer' \in [Fds -> PeerStates]
      BY <2>1, <2>2 DEF PeerStates
    <2>6. QED
      BY <1>7, <2>4, <2>5 DEF TaskReply
  <1>8. CASE WorkUnlock(w)
    BY <1>8 DEF WorkUnlock
  <1>9. QED
    BY <1>1, <1>2, <1>3, <1>4, <1>5, <1>6, <1>7, <1>8 DEF WorkerStep

\* So do the clients.
LEMMA TypePeer == ASSUME TypeInv, NEW f \in Fds, PeerStep(f) PROVE TypeInv'
  BY DEF TypeInv, TypeOK, Control, PeerStep, PeerSends, PeerCloses,
         PeerResets, PeerStates, server, worker

\* So does every step.
LEMMA TypeNext == TypeInv /\ [Next]_vars => TypeInv'
  <1> SUFFICES ASSUME TypeInv, [Next]_vars PROVE TypeInv'
    OBVIOUS
  <1>1. CASE UNCHANGED vars
    BY <1>1 DEF vars, TypeInv, TypeOK, Control
  <1>2. QED
    BY <1>1, TypeServer, TypeWorker, TypePeer DEF Next

\* Every variable of the server and of its workers keeps its type, for any
\* number of workers and descriptors.
THEOREM TypeCorrect == Spec => []TypeOK
  BY TypeInit, TypeNext, PTL DEF Spec, TypeInv

-----------------------------------------------------------------------------
(* How the steps move a connection from one place to another.              *)

\* A step that leaves the hand, the tasks and the queues alone moves no
\* connection.
LEMMA PlacesSame ==
  ASSUME UNCHANGED <<srvFd, task, queTask, queStatus>>
  PROVE  /\ InHand' = InHand /\ Queued' = Queued
         /\ Running' = Running /\ Reported' = Reported
         /\ NoDuplicates => NoDuplicates'
  BY DEF InHand, Queued, Running, Reported, NoDuplicates

\* PutPush moves the connection in the server's hand to a task queue.
LEMMA PushPlaces ==
  ASSUME TypeInv, NoDuplicates, InHand \cap Queued = {}, PutPush
  PROVE  /\ srvFd \in Fds /\ InHand = {srvFd} /\ InHand' = {}
         /\ Queued' = Queued \cup {srvFd}
         /\ Running' = Running /\ Reported' = Reported
         /\ NoDuplicates'
  <1> DEFINE w == srvIdx
             k0 == Len(queTask[w]) + 1
  <1>1. /\ w \in Workers /\ srvFd \in Fds /\ srvFd' = NoFd
        /\ queTask \in [Workers -> Seq(Fds)]
        /\ queTask' = [queTask EXCEPT ![w] = Append(queTask[w], srvFd)]
        /\ UNCHANGED <<task, queStatus>>
    BY DEF PutPush, TypeInv, TypeOK, Control
  <1>2. InHand = {srvFd} /\ InHand' = {}
    BY <1>1, FdsAssumption DEF InHand
  <1>3. Running' = Running /\ Reported' = Reported
    BY <1>1 DEF Running, Reported
  <1>4. \A r : r = queTask' =>
          /\ \A v \in Workers : \A k \in DOMAIN r[v] :
               \/ v = w /\ k = k0 /\ r[v][k] = srvFd
               \/ k \in DOMAIN queTask[v] /\ r[v][k] = queTask[v][k]
          /\ \A v \in Workers : \A k \in DOMAIN queTask[v] :
               k \in DOMAIN r[v] /\ r[v][k] = queTask[v][k]
          /\ \E k \in DOMAIN r[w] : r[w][k] = srvFd
    BY <1>1, PushSeq
  <1> DEFINE r == queTask'
  <1>5. /\ \A v \in Workers : \A k \in DOMAIN r[v] :
             \/ v = w /\ k = k0 /\ r[v][k] = srvFd
             \/ k \in DOMAIN queTask[v] /\ r[v][k] = queTask[v][k]
        /\ \A v \in Workers : \A k \in DOMAIN queTask[v] :
             k \in DOMAIN r[v] /\ r[v][k] = queTask[v][k]
        /\ \E k \in DOMAIN r[w] : r[w][k] = srvFd
    BY <1>4
  <1> HIDE DEF w, k0, r
  <1>6. {f \in Fds : \E v \in Workers : \E i \in DOMAIN r[v] : r[v][i] = f}
          = Queued \cup {srvFd}
    BY <1>1, <1>5 DEF Queued
  <1>7. \A v \in Workers : \A i \in DOMAIN queTask[v] : queTask[v][i] # srvFd
    BY <1>1, <1>2 DEF Queued
  <1>8. \A v, u \in Workers : \A i \in DOMAIN r[v], j \in DOMAIN r[u] :
            r[v][i] = r[u][j] => v = u /\ i = j
    BY <1>5, <1>7 DEF NoDuplicates
  <1>9. Queued' = Queued \cup {srvFd}
    BY <1>6 DEF Queued, r
  <1>10. NoDuplicates'
    BY <1>1, <1>8 DEF NoDuplicates, r
  <1>11. QED
    BY <1>1, <1>2, <1>3, <1>9, <1>10

\* WorkTake moves a queued connection to a worker.
LEMMA TakePlaces ==
  ASSUME TypeInv, NoDuplicates, Queued \cap Running = {},
         NEW w \in Workers, WorkTake(w)
  PROVE  \E f \in Queued :
           /\ InHand' = InHand /\ Reported' = Reported
           /\ Queued' = Queued \ {f} /\ Running' = Running \cup {f}
           /\ NoDuplicates'
  <1> DEFINE q == queTask
             f == Head(queTask[w])
  <1>1. /\ q \in [Workers -> Seq(Fds)] /\ q[w] # <<>>
        /\ queTask' = [q EXCEPT ![w] = Tail(q[w])]
        /\ task \in [Workers -> Fds \cup {NoFd}]
        /\ task' = [task EXCEPT ![w] = f]
        /\ task[w] = NoFd
        /\ UNCHANGED <<srvFd, queStatus>>
    BY DEF WorkTake, ReadRequest, TypeInv, TypeOK, Control, Busy, server
  <1>2. Popped(Workers, Fds, q, w, queTask')
    BY <1>1, PopSeq
  <1> DEFINE r == queTask'
  <1>3. /\ 1 \in DOMAIN q[w] /\ f = q[w][1] /\ f \in Fds
        /\ \A v \in Workers : \A k \in DOMAIN r[v] :
             \/ /\ v = w /\ k \in Nat /\ k + 1 # 1
                /\ k + 1 \in DOMAIN q[v] /\ r[v][k] = q[v][k + 1]
             \/ v # w /\ k \in DOMAIN q[v] /\ r[v][k] = q[v][k]
        /\ \A v \in Workers : \A k \in DOMAIN q[v] :
             \/ v = w /\ k = 1
             \/ \E j \in DOMAIN r[v] : r[v][j] = q[v][k]
    BY <1>2 DEF Popped
  <1>4. \A v, u \in Workers : \A i \in DOMAIN q[v], j \in DOMAIN q[u] :
          q[v][i] = q[u][j] => v = u /\ i = j
    BY DEF NoDuplicates
  <1>5. Queued = {g \in Fds : \E v \in Workers : \E i \in DOMAIN q[v] : q[v][i] = g}
    BY DEF Queued
  <1> HIDE DEF q, r, f
  <1>6. f \in Queued
    BY <1>3, <1>5
  <1>7. \A v \in Workers : \A k \in DOMAIN r[v] :
          \E i \in DOMAIN q[v] : /\ r[v][k] = q[v][i]
                                 /\ v # w \/ i # 1
    BY <1>3
  <1>8. {g \in Fds : \E v \in Workers : \E i \in DOMAIN r[v] : r[v][i] = g}
          = Queued \ {f}
    <2> DEFINE Q == {g \in Fds : \E v \in Workers : \E i \in DOMAIN r[v] : r[v][i] = g}
    <2>1. ASSUME NEW g \in Q PROVE g \in Queued \ {f}
      <3>1. PICK v \in Workers : \E i \in DOMAIN r[v] : r[v][i] = g
        BY <2>1
      <3>2. PICK i \in DOMAIN q[v] : g = q[v][i] /\ (v # w \/ i # 1)
        BY <3>1, <1>7
      <3>3. g # f
        BY <3>2, <1>3, <1>4
      <3>4. QED
        BY <2>1, <3>2, <3>3, <1>5
    <2>2. ASSUME NEW g \in Queued \ {f} PROVE g \in Q
      BY <2>2, <1>3, <1>5
    <2>3. QED
      BY <2>1, <2>2
  <1>9. \A v, u \in Workers : \A i \in DOMAIN r[v], j \in DOMAIN r[u] :
          r[v][i] = r[u][j] => v = u /\ i = j
    <2> SUFFICES ASSUME NEW v \in Workers, NEW u \in Workers,
                        NEW i \in DOMAIN r[v], NEW j \in DOMAIN r[u],
                        r[v][i] = r[u][j]
                 PROVE  v = u /\ i = j
      OBVIOUS
    <2>1. CASE v = w /\ u = w
      <3>1. i + 1 = j + 1 /\ i \in Nat /\ j \in Nat
        BY <2>1, <1>3, <1>4
      <3>2. QED
        BY <2>1, <3>1
    <2>2. CASE ~(v = w /\ u = w)
      BY <2>2, <1>3, <1>4
    <2>3. QED
      BY <2>1, <2>2
  <1>10. Running' = Running \cup {f}
    BY <1>1, <1>3, FdsAssumption DEF Running
  <1>11. \A v, u \in Workers : task'[v] # NoFd /\ task'[v] = task'[u] => v = u
    <2>1. \A v \in Workers : task[v] # f
      BY <1>3, <1>6 DEF Running
    <2>2. QED
      BY <1>1, <2>1 DEF NoDuplicates
  <1>12. Queued' = Queued \ {f}
    BY <1>8 DEF Queued, r
  <1>13. NoDuplicates'
    BY <1>1, <1>9, <1>11 DEF NoDuplicates, r
  <1>14. InHand' = InHand /\ Reported' = Reported
    BY <1>1 DEF InHand, Reported
  <1>15. QED
    BY <1>6, <1>10, <1>12, <1>13, <1>14

\* TaskReply moves the worker's connection to a status queue.
LEMMA ReplyPlaces ==
  ASSUME TypeInv, NoDuplicates, Running \cap Reported = {},
         NEW w \in Workers, TaskReply(w)
  PROVE  /\ task[w] \in Running
         /\ InHand' = InHand /\ Queued' = Queued
         /\ Running' = Running \ {task[w]}
         /\ Reported' = Reported \cup {task[w]}
         /\ NoDuplicates'
  <1> DEFINE q == queStatus
             f == task[w]
             k0 == Len(q[w]) + 1
  <1>1. PICK ok \in BOOLEAN :
          queStatus' = [q EXCEPT ![w] =
                          Append(q[w], [m_iSockFd |-> f, m_bStatus |-> ok])]
    BY DEF TaskReply
  <1> DEFINE st == [m_iSockFd |-> f, m_bStatus |-> ok]
  <1>2. /\ q \in [Workers -> Seq(Status)]
        /\ f \in Fds /\ st \in Status /\ st.m_iSockFd = f
        /\ task \in [Workers -> Fds \cup {NoFd}]
        /\ task' = [task EXCEPT ![w] = NoFd]
        /\ UNCHANGED <<srvFd, queTask>>
    BY DEF TaskReply, TypeInv, TypeOK, Control, Busy, Status, server
  <1>3. f \in Running
    BY <1>2 DEF Running
  <1>4. \A r : r = queStatus' =>
          /\ \A v \in Workers : \A k \in DOMAIN r[v] :
               \/ v = w /\ k = k0 /\ r[v][k] = st
               \/ k \in DOMAIN q[v] /\ r[v][k] = q[v][k]
          /\ \A v \in Workers : \A k \in DOMAIN q[v] :
               k \in DOMAIN r[v] /\ r[v][k] = q[v][k]
          /\ \E k \in DOMAIN r[w] : r[w][k] = st
    <2> HIDE DEF q, st, f
    <2>1. QED
      BY <1>1, <1>2, PushSeq DEF st
  <1> DEFINE r == queStatus'
  <1>5. /\ \A v \in Workers : \A k \in DOMAIN r[v] :
             \/ v = w /\ k = k0 /\ r[v][k] = st
             \/ k \in DOMAIN q[v] /\ r[v][k] = q[v][k]
        /\ \A v \in Workers : \A k \in DOMAIN q[v] :
             k \in DOMAIN r[v] /\ r[v][k] = q[v][k]
        /\ \E k \in DOMAIN r[w] : r[w][k] = st
    BY <1>4
  <1>6. \A v, u \in Workers : \A i \in DOMAIN q[v], j \in DOMAIN q[u] :
          q[v][i].m_iSockFd = q[u][j].m_iSockFd => v = u /\ i = j
    BY DEF NoDuplicates
  <1>7. Reported = {g \in Fds : \E v \in Workers : \E i \in DOMAIN q[v] :
                                  q[v][i].m_iSockFd = g}
    BY DEF Reported
  <1> HIDE DEF q, r, f, st, k0
  <1>8. {g \in Fds : \E v \in Workers : \E i \in DOMAIN r[v] : r[v][i].m_iSockFd = g}
          = Reported \cup {f}
    <2> DEFINE Q == {g \in Fds : \E v \in Workers : \E i \in DOMAIN r[v] :
                                   r[v][i].m_iSockFd = g}
    <2>1. ASSUME NEW g \in Q PROVE g \in Reported \cup {f}
      BY <2>1, <1>2, <1>5, <1>7
    <2>2. ASSUME NEW g \in Reported PROVE g \in Q
      BY <2>2, <1>5, <1>7
    <2>3. f \in Q
      BY <1>2, <1>5
    <2>4. QED
      BY <2>1, <2>2, <2>3
  <1>9. \A v \in Workers : \A i \in DOMAIN q[v] : q[v][i].m_iSockFd # f
    BY <1>2, <1>3, <1>7
  <1>10. \A v, u \in Workers : \A i \in DOMAIN r[v], j \in DOMAIN r[u] :
           r[v][i].m_iSockFd = r[u][j].m_iSockFd => v = u /\ i = j
    BY <1>2, <1>5, <1>6, <1>9
  <1>11. Reported' = Reported \cup {f}
    BY <1>8 DEF Reported, r
  <1>12. Running' = Running \ {f}
    <2>1. \A v \in Workers : task'[v] = IF v = w THEN NoFd ELSE task[v]
      BY <1>2
    <2>2. \A v \in Workers : v # w => task[v] # f
      BY <1>2, FdsAssumption DEF NoDuplicates, f
    <2>3. QED
      BY <2>1, <2>2, FdsAssumption DEF Running, f
  <1>13. \A v, u \in Workers : task'[v] # NoFd /\ task'[v] = task'[u] => v = u
    BY <1>2 DEF NoDuplicates
  <1>14. NoDuplicates'
    BY <1>2, <1>10, <1>13 DEF NoDuplicates, r
  <1>15. InHand' = InHand /\ Queued' = Queued
    BY <1>2 DEF InHand, Queued
  <1>16. QED
    BY <1>3, <1>11, <1>12, <1>14, <1>15 DEF f

\* FreeTaskPop takes a connection out of a status queue.
LEMMA PopPlaces ==
  ASSUME TypeInv, NoDuplicates, FreeTaskPop
  PROVE  LET f == Head(queStatus[srvIdx]).m_iSockFd IN
           /\ f \in Reported
           /\ InHand' = InHand /\ Queued' = Queued /\ Running' = Running
           /\ Reported' = Reported \ {f}
           /\ NoDuplicates'
  <1> DEFINE q == queStatus
             w == srvIdx
             f == Head(q[w]).m_iSockFd
  <1>1. /\ q \in [Workers -> Seq(Status)] /\ w \in Workers /\ q[w] # <<>>
        /\ queStatus' = [q EXCEPT ![w] = Tail(q[w])]
        /\ UNCHANGED <<srvFd, queTask, task>>
    BY DEF FreeTaskPop, TypeInv, TypeOK, Control, worker
  <1>2. Popped(Workers, Status, q, w, queStatus')
    BY <1>1, PopSeq
  <1> DEFINE r == queStatus'
  <1>3. /\ 1 \in DOMAIN q[w] /\ f = q[w][1].m_iSockFd /\ f \in Fds
        /\ \A v \in Workers : \A k \in DOMAIN r[v] :
             \/ /\ v = w /\ k \in Nat /\ k + 1 # 1
                /\ k + 1 \in DOMAIN q[v] /\ r[v][k] = q[v][k + 1]
             \/ v # w /\ k \in DOMAIN q[v] /\ r[v][k] = q[v][k]
        /\ \A v \in Workers : \A k \in DOMAIN q[v] :
             \/ v = w /\ k = 1
             \/ \E j \in DOMAIN r[v] : r[v][j] = q[v][k]
    BY <1>2 DEF Popped, Status
  <1>4. \A v, u \in Workers : \A i \in DOMAIN q[v], j \in DOMAIN q[u] :
          q[v][i].m_iSockFd = q[u][j].m_iSockFd => v = u /\ i = j
    BY DEF NoDuplicates
  <1>5. Reported = {g \in Fds : \E v \in Workers : \E i \in DOMAIN q[v] :
                                  q[v][i].m_iSockFd = g}
    BY DEF Reported
  <1>6. InHand' = InHand /\ Queued' = Queued /\ Running' = Running
    BY <1>1 DEF InHand, Queued, Running
  <1> HIDE DEF q, r, f, w
  <1>7. f \in Reported
    BY <1>1, <1>3, <1>5
  <1>8. \A v \in Workers : \A k \in DOMAIN r[v] :
          \E i \in DOMAIN q[v] : /\ r[v][k] = q[v][i]
                                 /\ v # w \/ i # 1
    BY <1>3
  <1>9. {g \in Fds : \E v \in Workers : \E i \in DOMAIN r[v] : r[v][i].m_iSockFd = g}
          = Reported \ {f}
    <2> DEFINE Q == {g \in Fds : \E v \in Workers : \E i \in DOMAIN r[v] :
                                   r[v][i].m_iSockFd = g}
    <2>1. ASSUME NEW g \in Q PROVE g \in Reported \ {f}
      <3>1. PICK v \in Workers : \E i \in DOMAIN r[v] : r[v][i].m_iSockFd = g
        BY <2>1
      <3>2. PICK i \in DOMAIN q[v] : g = q[v][i].m_iSockFd /\ (v # w \/ i # 1)
        BY <3>1, <1>8
      <3>3. g # f
        BY <3>2, <1>1, <1>3, <1>4
      <3>4. QED
        BY <2>1, <3>2, <3>3, <1>5
    <2>2. ASSUME NEW g \in Reported \ {f} PROVE g \in Q
      BY <2>2, <1>3, <1>5
    <2>3. QED
      BY <2>1, <2>2
  <1>10. \A v, u \in Workers : \A i \in DOMAIN r[v], j \in DOMAIN r[u] :
           r[v][i].m_iSockFd = r[u][j].m_iSockFd => v = u /\ i = j
    <2> SUFFICES ASSUME NEW v \in Workers, NEW u \in Workers,
                        NEW i \in DOMAIN r[v], NEW j \in DOMAIN r[u],
                        r[v][i].m_iSockFd = r[u][j].m_iSockFd
                 PROVE  v = u /\ i = j
      OBVIOUS
    <2>1. CASE v = w /\ u = w
      <3>1. i + 1 = j + 1 /\ i \in Nat /\ j \in Nat
        BY <2>1, <1>3, <1>4
      <3>2. QED
        BY <2>1, <3>1
    <2>2. CASE ~(v = w /\ u = w)
      BY <2>2, <1>3, <1>4
    <2>3. QED
      BY <2>1, <2>2
  <1>11. Reported' = Reported \ {f}
    BY <1>9 DEF Reported, r
  <1>12. NoDuplicates'
    BY <1>1, <1>10 DEF NoDuplicates, r
  <1>13. QED
    BY <1>6, <1>7, <1>11, <1>12 DEF f, q, w

-----------------------------------------------------------------------------
(* The mutexes and the condition variables.                                *)

LockInv == MutexHeld /\ NoLostWakeup

\* The server takes a mutex that is free and gives it back.
LEMMA LockServer == ASSUME TypeInv, LockInv, ServerStep PROVE LockInv'
  <1> USE NAssumption DEF TypeInv, TypeOK, Control, LockInv, MutexHeld, NoLostWakeup,
                          Holding, worker, SrvPcs, Workers
  <1>1. CASE FreeTaskNext \/ FreeTaskPop \/ EpollWait \/ EventsDone \/ AcceptFails
             \/ (\E f \in Fds : Accept(f) \/ ReadEvent(f)) \/ PutNoFree
    <2>1. /\ UNCHANGED <<owner, workPc, queTask>>
          /\ srvPc # "push" /\ srvPc' # "push"
      BY <1>1 DEF FreeTaskNext, FreeTaskPop, EpollWait, EventsDone, AcceptFails,
                  Accept, ReadEvent, PutNoFree
    <2>2. QED
      BY <2>1
  <1>2. CASE PutTryLock
    BY <1>2 DEF PutTryLock
  <1>3. CASE PutPush
    <2>1. /\ srvIdx \in Workers /\ srvPc = "push" /\ srvPc' = "event"
          /\ owner[srvIdx] = "server"
          /\ owner' = [owner EXCEPT ![srvIdx] = "none"]
          /\ workPc' = IF workPc[srvIdx] = "wait"
                         THEN [workPc EXCEPT ![srvIdx] = "lock"] ELSE workPc
          /\ queTask' = [queTask EXCEPT ![srvIdx] = Append(@, srvFd)]
      BY <1>3 DEF PutPush, MutexNotify
    <2>2. \A w \in Workers : owner'[w] = "worker" <=> workPc'[w] \in Holding
      BY <2>1
    <2>3. \A w \in Workers : owner'[w] # "server"
      BY <2>1
    <2>4. \A w \in Workers : workPc'[w] = "wait" => queTask'[w] = <<>>
      BY <2>1
    <2>5. QED
      BY <2>1, <2>2, <2>3, <2>4
  <1>4. QED
    BY <1>1, <1>2, <1>3 DEF ServerStep

\* A worker sleeps only when its queue is empty, and without the mutex.
LEMMA LockWorker ==
  ASSUME TypeInv, LockInv, NEW w \in Workers, WorkerStep(w) \/ WorkSpurious(w)
  PROVE  LockInv'
  <1> USE DEF TypeInv, TypeOK, LockInv, MutexHeld, NoLostWakeup, Holding, server
  <1>1. CASE WorkLock(w)
    BY <1>1 DEF WorkLock
  <1>2. CASE WorkWait(w)
    BY <1>2 DEF WorkWait
  <1>3. CASE WorkSpurious(w)
    BY <1>3 DEF WorkSpurious
  <1>4. CASE WorkTake(w)
    <2>1. /\ UNCHANGED <<server, owner>>
          /\ queTask' = [queTask EXCEPT ![w] = Tail(@)]
          /\ workPc[w] = "check"
          /\ \E pc \in {"serve", "reply"} : workPc' = [workPc EXCEPT ![w] = pc]
      BY <1>4 DEF WorkTake, ReadRequest
    <2>2. QED
      BY <2>1
  <1>5. CASE TaskServed(w)
    BY <1>5 DEF TaskServed
  <1>6. CASE TaskHangs(w)
    BY <1>6 DEF TaskHangs
  <1>7. CASE TaskReply(w)
    BY <1>7 DEF TaskReply
  <1>8. CASE WorkUnlock(w)
    BY <1>8 DEF WorkUnlock
  <1>9. QED
    BY <1>1, <1>2, <1>3, <1>4, <1>5, <1>6, <1>7, <1>8 DEF WorkerStep

\* Every step keeps the mutexes and the wake-ups in order.
LEMMA LockNext == TypeInv /\ LockInv /\ [Next]_vars => LockInv'
  <1> SUFFICES ASSUME TypeInv, LockInv, [Next]_vars PROVE LockInv'
    OBVIOUS
  <1>1. CASE UNCHANGED vars
    BY <1>1 DEF vars, LockInv, MutexHeld, NoLostWakeup
  <1>2. ASSUME NEW f \in Fds, PeerStep(f) PROVE LockInv'
    BY <1>2 DEF PeerStep, PeerSends, PeerCloses, PeerResets, server, worker,
                LockInv, MutexHeld, NoLostWakeup
  <1>3. QED
    BY <1>1, <1>2, LockServer, LockWorker DEF Next

\* A worker and the server never hold a worker's mutex together, and a worker
\* never sleeps on a queue that holds a task.
THEOREM LockingCorrect == Spec => [](MutexHeld /\ NoLostWakeup)
  <1>1. Init => LockInv
    BY DEF Init, LockInv, MutexHeld, NoLostWakeup, Holding
  <1>2. QED
    BY <1>1, TypeInit, TypeNext, LockNext, PTL DEF Spec, LockInv

\* MutexTryLock, MutexLock, MutexWait and MutexUnlock keep the owner of a
\* worker's mutex in step with the code: server and worker never both own it.
THEOREM MutexCorrect == Spec => []MutexHeld
  BY LockingCorrect, PTL

-----------------------------------------------------------------------------
(* Every connection in one place, and every task accounted for.            *)

PlaceInv == OnePlace /\ TasksAccounted /\ LiveTaskOpen

\* No connection exists at the start.
LEMMA PlaceInit == Init => PlaceInv
  <1> SUFFICES ASSUME Init PROVE PlaceInv
    OBVIOUS
  <1>1. /\ InHand = {} /\ Queued = {} /\ Running = {} /\ Reported = {}
        /\ NoDuplicates
    BY FdsAssumption DEF Init, InHand, Queued, Running, Reported, NoDuplicates
  <1>2. QED
    BY <1>1 DEF Init, PlaceInv, OnePlace, TasksAccounted, LiveTaskOpen

\* A step that moves no connection.
LEMMA PlaceSame ==
  ASSUME PlaceInv,
         UNCHANGED <<srvFd, task, queTask, queStatus, interest, mpSocketTask>>,
         \A f \in mpSocketTask : peer'[f] \notin {"none", "leaked"}
  PROVE  PlaceInv'
  <1>1. /\ InHand' = InHand /\ Queued' = Queued
        /\ Running' = Running /\ Reported' = Reported /\ NoDuplicates'
    BY PlacesSame DEF PlaceInv, OnePlace
  <1>2. QED
    BY <1>1 DEF PlaceInv, OnePlace, TasksAccounted, LiveTaskOpen

\* The server's steps keep every connection in one place.
LEMMA PlaceServer == ASSUME TypeInv, PlaceInv, ServerStep PROVE PlaceInv'
  <1> USE DEF PlaceInv, OnePlace, TasksAccounted, LiveTaskOpen
  <1>1. CASE FreeTaskNext \/ EpollWait \/ EventsDone \/ AcceptFails \/ PutTryLock
    <2>1. /\ UNCHANGED <<srvFd, task, queTask, queStatus, interest, mpSocketTask>>
          /\ UNCHANGED peer
      BY <1>1 DEF FreeTaskNext, EpollWait, EventsDone, AcceptFails, PutTryLock, worker
    <2>2. QED
      BY <2>1, PlaceSame
  <1>2. CASE FreeTaskPop
    <2> DEFINE f == Head(queStatus[srvIdx]).m_iSockFd
    <2>1. /\ f \in Reported
          /\ InHand' = InHand /\ Queued' = Queued /\ Running' = Running
          /\ Reported' = Reported \ {f}
          /\ NoDuplicates'
      BY <1>2, PopPlaces
    <2>2. peer \in [Fds -> PeerStates] /\ mpSocketTask \subseteq Fds
      BY DEF TypeInv, TypeOK
    <2>3. \/ /\ interest' = interest \cup {f}
             /\ UNCHANGED <<mpSocketTask, peer>>
          \/ /\ mpSocketTask' = mpSocketTask \ {f}
             /\ peer' = [peer EXCEPT ![f] = "leaked"]
             /\ UNCHANGED interest
      BY <1>2, <2>1 DEF FreeTaskPop, Rearm, DropTask
    <2> HIDE DEF f
    <2>4. CASE interest' = interest \cup {f} /\ UNCHANGED <<mpSocketTask, peer>>
      BY <2>1, <2>4
    <2>5. CASE /\ mpSocketTask' = mpSocketTask \ {f}
               /\ peer' = [peer EXCEPT ![f] = "leaked"]
               /\ UNCHANGED interest
      BY <2>1, <2>2, <2>5
    <2>6. QED
      BY <2>3, <2>4, <2>5
  <1>3. CASE PutPush
    <2>1. InHand \cap Queued = {} /\ NoDuplicates
      OBVIOUS
    <2>2. /\ srvFd \in Fds /\ InHand = {srvFd} /\ InHand' = {}
          /\ Queued' = Queued \cup {srvFd}
          /\ Running' = Running /\ Reported' = Reported
          /\ NoDuplicates'
      BY <1>3, <2>1, PushPlaces
    <2>3. UNCHANGED <<interest, mpSocketTask, peer>>
      BY <1>3 DEF PutPush
    <2>4. QED
      BY <2>2, <2>3
  <1>4. CASE PutNoFree
    <2>1. /\ srvFd \in Fds /\ srvFd' = NoFd
          /\ UNCHANGED <<task, queTask, queStatus, interest>>
          /\ mpSocketTask' = mpSocketTask \ {srvFd}
          /\ peer' = [peer EXCEPT ![srvFd] = "leaked"]
          /\ peer \in [Fds -> PeerStates] /\ mpSocketTask \subseteq Fds
      BY <1>4 DEF PutNoFree, DropTask, TypeInv, TypeOK, Control, worker
    <2>2. InHand = {srvFd} /\ InHand' = {}
      BY <2>1, FdsAssumption DEF InHand
    <2>3. /\ Queued' = Queued /\ Running' = Running /\ Reported' = Reported
          /\ NoDuplicates'
      BY <2>1 DEF Queued, Running, Reported, NoDuplicates
    <2>4. QED
      BY <2>1, <2>2, <2>3
  <1>5. ASSUME NEW f \in Fds, Accept(f) PROVE PlaceInv'
    <2>1. /\ UNCHANGED <<srvFd, task, queTask, queStatus>>
          /\ interest' = interest \cup {f}
          /\ mpSocketTask' = mpSocketTask \cup {f}
          /\ peer[f] = "none" /\ peer' = [peer EXCEPT ![f] = "idle"]
          /\ peer \in [Fds -> PeerStates] /\ mpSocketTask \subseteq Fds
      BY <1>5 DEF Accept, TypeInv, TypeOK, worker
    <2>2. /\ InHand' = InHand /\ Queued' = Queued
          /\ Running' = Running /\ Reported' = Reported /\ NoDuplicates'
      BY <2>1, PlacesSame
    <2>3. f \notin mpSocketTask
      BY <2>1
    <2>4. QED
      BY <2>1, <2>2, <2>3
  <1>6. ASSUME NEW f \in Fds, ReadEvent(f) PROVE PlaceInv'
    <2>1. f \in interest /\ srvFd = NoFd
      BY <1>6, FdsAssumption DEF ReadEvent, TypeInv, Control
    <2>2. f \in mpSocketTask
      BY <2>1
    <2>3. /\ srvFd' = f /\ interest' = interest \ {f}
          /\ UNCHANGED <<task, queTask, queStatus, mpSocketTask, peer>>
      BY <1>6, <2>2 DEF ReadEvent, worker
    <2>4. InHand = {} /\ InHand' = {f}
      BY <2>1, <2>3, FdsAssumption DEF InHand
    <2>5. /\ Queued' = Queued /\ Running' = Running /\ Reported' = Reported
          /\ NoDuplicates'
      BY <2>3 DEF Queued, Running, Reported, NoDuplicates
    <2>6. QED
      BY <2>1, <2>3, <2>4, <2>5
  <1>7. QED
    BY <1>1, <1>2, <1>3, <1>4, <1>5, <1>6 DEF ServerStep

\* So do the steps of every worker.
LEMMA PlaceWorker ==
  ASSUME TypeInv, PlaceInv, NEW w \in Workers, WorkerStep(w) \/ WorkSpurious(w)
  PROVE  PlaceInv'
  <1> USE DEF PlaceInv, OnePlace, TasksAccounted, LiveTaskOpen
  <1>1. CASE WorkLock(w) \/ WorkWait(w) \/ WorkSpurious(w) \/ TaskServed(w)
             \/ TaskHangs(w) \/ WorkUnlock(w)
    <2>1. /\ UNCHANGED <<srvFd, task, queTask, queStatus, interest, mpSocketTask>>
          /\ UNCHANGED peer
      BY <1>1 DEF WorkLock, WorkWait, WorkSpurious, TaskServed, TaskHangs,
                  WorkUnlock, server
    <2>2. QED
      BY <2>1, PlaceSame
  <1>2. CASE WorkTake(w)
    <2>1. Queued \cap Running = {} /\ NoDuplicates
      OBVIOUS
    <2>2. PICK f \in Queued :
            /\ InHand' = InHand /\ Reported' = Reported
            /\ Queued' = Queued \ {f} /\ Running' = Running \cup {f}
            /\ NoDuplicates'
      BY <1>2, <2>1, TakePlaces
    <2>3. UNCHANGED <<interest, mpSocketTask>>
      BY <1>2 DEF WorkTake, ReadRequest, server
    <2>4. \A g \in Fds : peer[g] \notin {"none", "leaked"}
                           => peer'[g] \notin {"none", "leaked"}
      BY <1>2 DEF WorkTake, ReadRequest, TypeInv, TypeOK
    <2>5. mpSocketTask \subseteq Fds
      BY DEF TypeInv, TypeOK
    <2>6. QED
      BY <2>2, <2>3, <2>4, <2>5
  <1>3. CASE TaskReply(w)
    <2>1. Running \cap Reported = {} /\ NoDuplicates
      OBVIOUS
    <2>2. /\ task[w] \in Running
          /\ InHand' = InHand /\ Queued' = Queued
          /\ Running' = Running \ {task[w]}
          /\ Reported' = Reported \cup {task[w]}
          /\ NoDuplicates'
      BY <1>3, <2>1, ReplyPlaces
    <2>3. UNCHANGED <<interest, mpSocketTask>>
      BY <1>3 DEF TaskReply, server
    <2>4. \A g \in Fds : peer[g] \notin {"none", "leaked"}
                           => peer'[g] \notin {"none", "leaked"}
      BY <1>3 DEF TaskReply, TypeInv, TypeOK
    <2>5. mpSocketTask \subseteq Fds
      BY DEF TypeInv, TypeOK
    <2>6. QED
      BY <2>2, <2>3, <2>4, <2>5
  <1>4. QED
    BY <1>1, <1>2, <1>3 DEF WorkerStep

\* So does every step.
LEMMA PlaceNext == TypeInv /\ PlaceInv /\ [Next]_vars => PlaceInv'
  <1> SUFFICES ASSUME TypeInv, PlaceInv, [Next]_vars PROVE PlaceInv'
    OBVIOUS
  <1>1. CASE UNCHANGED vars
    BY <1>1, PlaceSame DEF vars, PlaceInv, LiveTaskOpen
  <1>2. ASSUME NEW f \in Fds, PeerStep(f) PROVE PlaceInv'
    <2>1. UNCHANGED <<srvFd, task, queTask, queStatus, interest, mpSocketTask>>
      BY <1>2 DEF PeerStep, PeerSends, PeerCloses, PeerResets, server, worker
    <2>2. \A g \in mpSocketTask : peer'[g] \notin {"none", "leaked"}
      BY <1>2 DEF PeerStep, PeerSends, PeerCloses, PeerResets, PlaceInv,
                  LiveTaskOpen, TypeInv, TypeOK
    <2>3. QED
      BY <2>1, <2>2, PlaceSame
  <1>3. QED
    BY <1>1, <1>2, PlaceServer, PlaceWorker DEF Next

\* For any pool size and any number of connections: a connection is in one
\* place at a time.
THEOREM ConnectionInOnePlace == Spec => []OnePlace
  BY PlaceInit, PlaceNext, TypeInit, TypeNext, PTL DEF Spec, PlaceInv

\* For any pool size and any number of connections: the task map is exactly
\* the set of tasks in use, so no deleted task is ever run and no task is
\* forgotten.
THEOREM EveryTaskAccounted == Spec => []TasksAccounted
  BY PlaceInit, PlaceNext, TypeInit, TypeNext, PTL DEF Spec, PlaceInv

\* The descriptor of a live task stays open.
THEOREM LiveTasksOpen == Spec => []LiveTaskOpen
  BY PlaceInit, PlaceNext, TypeInit, TypeNext, PTL DEF Spec, PlaceInv

-----------------------------------------------------------------------------
(* Dispatch implements ConnLife.                                           *)

Safe == TypeInv /\ PlaceInv

\* The stage of a connection, read off the place it is in.
LEMMA StageOf ==
  ASSUME Safe
  PROVE  \A f \in Fds :
           /\ f \in InHand   => Stage[f] = "dispatched"
           /\ f \in Queued   => Stage[f] = "queued"
           /\ f \in Running  => Stage[f] = "running"
           /\ f \in Reported => Stage[f] = "reported"
           /\ f \in interest => Stage[f] = "armed"
           /\ f \notin mpSocketTask =>
                Stage[f] = IF peer[f] = "leaked" THEN "lost" ELSE "free"
  BY DEF Safe, PlaceInv, OnePlace, TasksAccounted, Stage

\* Places are unchanged, so are the stages.
LEMMA StageSame ==
  ASSUME UNCHANGED <<srvFd, task, queTask, queStatus, interest>>,
         \A f \in Fds : peer[f] = "leaked" <=> peer'[f] = "leaked"
  PROVE  Stage' = Stage
  <1>1. /\ InHand' = InHand /\ Queued' = Queued
        /\ Running' = Running /\ Reported' = Reported
    BY PlacesSame
  <1>2. QED
    BY <1>1 DEF Stage

\* If the stages of all connections but f stay, f is moved.
LEMMA StageMove ==
  ASSUME NEW f \in Fds, NEW from, NEW to, Stage[f] = from, Stage'[f] = to,
         \A g \in Fds \ {f} : Stage'[g] = Stage[g]
  PROVE  Life!Move(f, from, to)
  <1>1. Stage = [g \in Fds |-> Stage[g]] /\ Stage' = [g \in Fds |-> Stage'[g]]
    BY DEF Stage
  <1>2. Stage' = [Stage EXCEPT ![f] = to]
    BY <1>1
  <1>3. QED
    BY <1>2 DEF Life!Move

\* ConnLife counts with its own copy of Cardinality.
LEMMA SameCardinality == \A S : Life!Cardinality(S) = Cardinality(S)
  BY Zenon DEF Life!Cardinality, Cardinality

\* A worker that is not running a task leaves room for one more.
LEMMA RoomToRun ==
  ASSUME Safe, NEW w \in Workers, task[w] = NoFd
  PROVE  Cardinality({g \in Fds : Stage[g] = "running"}) < N
  <1> DEFINE B == {v \in Workers : task[v] # NoFd}
             R == {g \in Fds : Stage[g] = "running"}
             h == [v \in B |-> task[v]]
  <1>1. R = Running
    <2>1. ASSUME NEW g \in Fds \ Running PROVE Stage[g] # "running"
      BY DEF Stage
    <2>2. Running \subseteq Fds
      BY DEF Running
    <2>3. QED
      BY <2>1, <2>2, StageOf
  <1>2. h \in Surjection(B, Running)
    <2>1. task \in [Workers -> Fds \cup {NoFd}]
      BY DEF Safe, TypeInv, TypeOK
    <2>2. h \in [B -> Running]
      BY <2>1 DEF Running
    <2>3. \A g \in Running : \E v \in B : h[v] = g
      BY FdsAssumption DEF Running
    <2>4. QED
      BY <2>2, <2>3 DEF Surjection
  <1>3. IsFiniteSet(Workers) /\ Cardinality(Workers) = N
    BY NAssumption, FS_Interval DEF Workers
  <1>4. IsFiniteSet(Workers \ {w}) /\ Cardinality(Workers \ {w}) = N - 1
    BY <1>3, FS_RemoveElement
  <1>5. B \in SUBSET (Workers \ {w})
    OBVIOUS
  <1>6. IsFiniteSet(B) /\ Cardinality(B) <= N - 1
    BY <1>4, <1>5, FS_Subset
  <1>7. IsFiniteSet(Running) /\ Cardinality(Running) <= Cardinality(B)
    BY <1>2, <1>6, FS_Surjection
  <1>8. Cardinality(Running) \in Nat /\ Cardinality(B) \in Nat
    BY <1>6, <1>7, FS_CardinalityType
  <1>9. QED
    BY <1>1, <1>6, <1>7, <1>8, NAssumption

-----------------------------------------------------------------------------
\* No connection is anywhere at the start, as ConnLife wants it.
LEMMA RefineInit == Init => Life!Init
  <1> SUFFICES ASSUME Init PROVE Stage = [f \in Fds |-> "free"]
    BY DEF Life!Init
  <1>1. /\ InHand = {} /\ Queued = {} /\ Running = {} /\ Reported = {}
        /\ interest = {}
    BY FdsAssumption DEF Init, InHand, Queued, Running, Reported
  <1>2. QED
    BY <1>1 DEF Init, Stage

\* A step of the server is a step in the life of one connection, or none.
LEMMA RefineServer ==
  ASSUME Safe, Safe', ServerStep
  PROVE  Life!Next \/ UNCHANGED Stage
  <1> USE DEF Safe, PlaceInv, OnePlace, TasksAccounted
  <1>1. CASE FreeTaskNext \/ EpollWait \/ EventsDone \/ AcceptFails \/ PutTryLock
    <2>1. UNCHANGED <<srvFd, task, queTask, queStatus, interest, peer>>
      BY <1>1 DEF FreeTaskNext, EpollWait, EventsDone, AcceptFails, PutTryLock, worker
    <2>2. QED
      BY <2>1, StageSame
  <1>2. CASE FreeTaskPop
    <2> DEFINE f == Head(queStatus[srvIdx]).m_iSockFd
    <2>1. /\ f \in Reported
          /\ InHand' = InHand /\ Queued' = Queued /\ Running' = Running
          /\ Reported' = Reported \ {f}
      BY <1>2, PopPlaces
    <2>2. f \in Fds /\ Stage[f] = "reported"
      BY <2>1, StageOf DEF Reported
    <2>3. \/ /\ interest' = interest \cup {f}
             /\ UNCHANGED <<mpSocketTask, peer>>
          \/ /\ mpSocketTask' = mpSocketTask \ {f}
             /\ peer' = [peer EXCEPT ![f] = "leaked"]
             /\ UNCHANGED interest
      BY <1>2, <2>1 DEF FreeTaskPop, Rearm, DropTask
    <2>4. peer \in [Fds -> PeerStates]
      BY DEF TypeInv, TypeOK
    <2> HIDE DEF f
    <2>5. \A g \in Fds \ {f} : Stage'[g] = Stage[g]
      BY <2>1, <2>3, <2>4 DEF Stage
    <2>6. Stage'[f] = "armed" \/ Stage'[f] = "lost"
      BY <2>1, <2>2, <2>3, <2>4 DEF Stage
    <2>7. Life!Move(f, "reported", "armed") \/ Life!Move(f, "reported", "lost")
      BY <2>2, <2>5, <2>6, StageMove
    <2>8. QED
      BY <2>2, <2>7 DEF Life!Next, Life!Rearmed, Life!GivenUp
  <1>3. CASE PutPush
    <2>1. InHand \cap Queued = {} /\ NoDuplicates
      OBVIOUS
    <2>2. /\ srvFd \in Fds /\ InHand = {srvFd} /\ InHand' = {}
          /\ Queued' = Queued \cup {srvFd}
          /\ Running' = Running /\ Reported' = Reported
      BY <1>3, <2>1, PushPlaces
    <2>3. UNCHANGED <<interest, mpSocketTask, peer>>
      BY <1>3 DEF PutPush
    <2>4. Stage[srvFd] = "dispatched" /\ Stage'[srvFd] = "queued"
      BY <2>2 DEF Stage
    <2>5. \A g \in Fds \ {srvFd} : Stage'[g] = Stage[g]
      BY <2>2, <2>3 DEF Stage
    <2>6. Life!Move(srvFd, "dispatched", "queued")
      BY <2>2, <2>4, <2>5, StageMove
    <2>7. QED
      BY <2>2, <2>6 DEF Life!Next, Life!QueuedUp
  <1>4. CASE PutNoFree
    <2>1. /\ srvFd \in Fds /\ srvFd' = NoFd
          /\ UNCHANGED <<task, queTask, queStatus, interest>>
          /\ peer' = [peer EXCEPT ![srvFd] = "leaked"]
          /\ peer \in [Fds -> PeerStates]
      BY <1>4 DEF PutNoFree, DropTask, TypeInv, TypeOK, Control, worker
    <2>2. InHand = {srvFd} /\ InHand' = {}
      BY <2>1, FdsAssumption DEF InHand
    <2>3. Queued' = Queued /\ Running' = Running /\ Reported' = Reported
      BY <2>1 DEF Queued, Running, Reported
    <2>4. Stage[srvFd] = "dispatched" /\ Stage'[srvFd] = "lost"
      BY <2>1, <2>2, <2>3 DEF Stage
    <2>5. \A g \in Fds \ {srvFd} : Stage'[g] = Stage[g]
      BY <2>1, <2>2, <2>3 DEF Stage
    <2>6. Life!Move(srvFd, "dispatched", "lost")
      BY <2>1, <2>4, <2>5, StageMove
    <2>7. QED
      BY <2>1, <2>6 DEF Life!Next, Life!Refused
  <1>5. ASSUME NEW f \in Fds, Accept(f) PROVE Life!Next
    <2>1. /\ UNCHANGED <<srvFd, task, queTask, queStatus>>
          /\ interest' = interest \cup {f}
          /\ peer[f] = "none" /\ peer' = [peer EXCEPT ![f] = "idle"]
          /\ peer \in [Fds -> PeerStates]
      BY <1>5 DEF Accept, TypeInv, TypeOK, worker
    <2>2. /\ InHand' = InHand /\ Queued' = Queued
          /\ Running' = Running /\ Reported' = Reported
      BY <2>1, PlacesSame
    <2>3. f \notin mpSocketTask
      BY <2>1 DEF LiveTaskOpen
    <2>4. Stage[f] = "free" /\ Stage'[f] = "armed"
      BY <2>1, <2>2, <2>3 DEF Stage
    <2>5. \A g \in Fds \ {f} : Stage'[g] = Stage[g]
      BY <2>1, <2>2 DEF Stage
    <2>6. Life!Move(f, "free", "armed")
      BY <2>4, <2>5, StageMove
    <2>7. QED
      BY <2>6 DEF Life!Next, Life!Accepted
  <1>6. ASSUME NEW f \in Fds, ReadEvent(f) PROVE Life!Next
    <2>1. f \in interest /\ srvFd = NoFd
      BY <1>6, FdsAssumption DEF ReadEvent, TypeInv, Control
    <2>2. f \in mpSocketTask
      BY <2>1
    <2>3. /\ srvFd' = f /\ interest' = interest \ {f}
          /\ UNCHANGED <<task, queTask, queStatus, mpSocketTask, peer>>
      BY <1>6, <2>2 DEF ReadEvent, worker
    <2>4. InHand = {} /\ InHand' = {f}
      BY <2>1, <2>3, FdsAssumption DEF InHand
    <2>5. Queued' = Queued /\ Running' = Running /\ Reported' = Reported
      BY <2>3 DEF Queued, Running, Reported
    <2>6. Stage[f] = "armed" /\ Stage'[f] = "dispatched"
      BY <2>1, <2>4, StageOf DEF Stage
    <2>7. \A g \in Fds \ {f} : Stage'[g] = Stage[g]
      BY <2>3, <2>4, <2>5 DEF Stage
    <2>8. Life!Move(f, "armed", "dispatched")
      BY <2>6, <2>7, StageMove
    <2>9. QED
      BY <2>8 DEF Life!Next, Life!Dispatched
  <1>7. QED
    BY <1>1, <1>2, <1>3, <1>4, <1>5, <1>6 DEF ServerStep

\* So is a step of a worker.
LEMMA RefineWorker ==
  ASSUME Safe, Safe', NEW w \in Workers, WorkerStep(w) \/ WorkSpurious(w)
  PROVE  Life!Next \/ UNCHANGED Stage
  <1> USE DEF Safe, PlaceInv, OnePlace, TasksAccounted
  <1>1. CASE WorkLock(w) \/ WorkWait(w) \/ WorkSpurious(w) \/ TaskServed(w)
             \/ TaskHangs(w) \/ WorkUnlock(w)
    <2>1. UNCHANGED <<srvFd, task, queTask, queStatus, interest, peer>>
      BY <1>1 DEF WorkLock, WorkWait, WorkSpurious, TaskServed, TaskHangs,
                  WorkUnlock, server
    <2>2. QED
      BY <2>1, StageSame
  <1>2. CASE WorkTake(w)
    <2>1. Queued \cap Running = {} /\ NoDuplicates
      OBVIOUS
    <2>2. PICK f \in Queued :
            /\ InHand' = InHand /\ Reported' = Reported
            /\ Queued' = Queued \ {f} /\ Running' = Running \cup {f}
      BY <1>2, <2>1, TakePlaces
    <2>3. interest' = interest
      BY <1>2 DEF WorkTake, ReadRequest, server
    <2>4. \A g \in Fds : peer[g] = "leaked" <=> peer'[g] = "leaked"
      BY <1>2 DEF WorkTake, ReadRequest, TypeInv, TypeOK
    <2>5. f \in Fds
      BY DEF Queued
    <2>6. Stage[f] = "queued" /\ Stage'[f] = "running"
      BY <2>2, <2>5 DEF Stage
    <2>7. \A g \in Fds \ {f} : Stage'[g] = Stage[g]
      BY <2>2, <2>3, <2>4 DEF Stage
    <2>8. Life!Move(f, "queued", "running")
      BY <2>5, <2>6, <2>7, StageMove
    <2>9. task[w] = NoFd
      BY <1>2 DEF WorkTake, ReadRequest, TypeInv, Control, Busy, server
    <2>10. Cardinality({g \in Fds : Stage[g] = "running"}) < N
      BY <2>9, RoomToRun
    <2>11. Life!Started(f)
      BY <2>8, <2>10, SameCardinality DEF Life!Started
    <2>12. QED
      BY <2>5, <2>11 DEF Life!Next
  <1>3. CASE TaskReply(w)
    <2>1. Running \cap Reported = {} /\ NoDuplicates
      OBVIOUS
    <2>2. /\ task[w] \in Running
          /\ InHand' = InHand /\ Queued' = Queued
          /\ Running' = Running \ {task[w]}
          /\ Reported' = Reported \cup {task[w]}
      BY <1>3, <2>1, ReplyPlaces
    <2>3. interest' = interest
      BY <1>3 DEF TaskReply, server
    <2>4. \A g \in Fds : peer[g] = "leaked" <=> peer'[g] = "leaked"
      BY <1>3 DEF TaskReply, TypeInv, TypeOK
    <2>5. task[w] \in Fds
      BY <2>2 DEF Running
    <2> DEFINE f == task[w]
    <2> HIDE DEF f
    <2>6. Stage[f] = "running" /\ Stage'[f] = "reported"
      BY <2>2, <2>5 DEF Stage, f
    <2>7. \A g \in Fds \ {f} : Stage'[g] = Stage[g]
      BY <2>2, <2>3, <2>4 DEF Stage, f
    <2>8. f \in Fds /\ Life!Move(f, "running", "reported")
      BY <2>5, <2>6, <2>7, StageMove DEF f
    <2>9. QED
      BY <2>8 DEF Life!Next, Life!Finished
  <1>4. QED
    BY <1>1, <1>2, <1>3 DEF WorkerStep

\* So is every step.
LEMMA RefineNext ==
  Safe /\ Safe' /\ [Next]_vars => [Life!Next]_Stage
  <1> SUFFICES ASSUME Safe, Safe', [Next]_vars
               PROVE  Life!Next \/ UNCHANGED Stage
    OBVIOUS
  <1>1. CASE UNCHANGED vars
    BY <1>1, StageSame DEF vars
  <1>2. ASSUME NEW f \in Fds, PeerStep(f) PROVE UNCHANGED Stage
    <2>1. UNCHANGED <<srvFd, task, queTask, queStatus, interest>>
      BY <1>2 DEF PeerStep, PeerSends, PeerCloses, PeerResets, server, worker
    <2>2. \A g \in Fds : peer[g] = "leaked" <=> peer'[g] = "leaked"
      BY <1>2 DEF PeerStep, PeerSends, PeerCloses, PeerResets, Safe, TypeInv, TypeOK
    <2>3. QED
      BY <2>1, <2>2, StageSame
  <1>3. QED
    BY <1>1, <1>2, RefineServer, RefineWorker DEF Next

\* For any pool size: the server, its workers and their queues give every
\* connection the life ConnLife describes, and never run more connections at
\* once than there are workers.
THEOREM Refinement == Spec => ImplementsConnLife
  <1>1. Spec => []Safe
    BY PlaceInit, PlaceNext, TypeInit, TypeNext, PTL DEF Spec, Safe
  <1>2. QED
    BY <1>1, RefineInit, RefineNext, PTL DEF Spec, ImplementsConnLife, Life!Spec
=============================================================================
