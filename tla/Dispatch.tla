------------------------------ MODULE Dispatch ------------------------------
(***************************************************************************)
(* The dispatch core of LdpLocation: the epoll server thread               *)
(* (UserQueryServer), the pool of worker threads (UserQueryWorkThreads),   *)
(* the mutex and condition variable they share (CommonTools/Lock) and the  *)
(* life of a task object and its socket.                                   *)
(*                                                                         *)
(* The server thread owns the epoll interest list and m_mpSocketTask.  It  *)
(* shares with worker w one task queue guarded by the worker's mutex, and  *)
(* one status queue that the worker fills while it holds the mutex and     *)
(* that the server drains without any lock.                                *)
(*                                                                         *)
(* A task is identified by the descriptor of its connection: there is one  *)
(* task per descriptor for as long as the descriptor is open, and every    *)
(* `delete mit->second` in the server is followed by the matching erase.   *)
(***************************************************************************)
EXTENDS Naturals, Sequences, FiniteSets

CONSTANTS N,       \* m_uiWorkThreadNum, number of worker threads
          Fds,     \* descriptors a client connection may get
          EVENT,   \* most events one epoll_wait returns
          Listen,  \* descriptor of the listening socket
          NoFd     \* "no descriptor"

ASSUME NAssumption == N \in Nat \ {0}
ASSUME FdsAssumption == NoFd \notin Fds /\ Listen \notin Fds
ASSUME EventAssumption == EVENT \in Nat \ {0}

Workers == 1..N

VARIABLES
  srvPc,        \* where the server thread is in Core()
  srvIdx,       \* loop index over the workers (GetFreeTask, PutTask)
  srvFd,        \* descriptor whose task PutTask is handing over
  batch,        \* events of the last epoll_wait not yet handled
  interest,     \* client descriptors in the epoll interest list
  mpSocketTask, \* descriptors that have a task in m_mpSocketTask
  owner,        \* holder of each worker's mutex: "none", "server", "worker"
  workPc,       \* where each worker is in Core()
  task,         \* descriptor of the task each worker is running
  queTask,      \* m_vecTaskBuf[w]->m_queUserQueryTask
  queStatus,    \* m_vecTaskStauts[w]
  peer          \* the kernel's view of each client socket

server  == <<srvPc, srvIdx, srvFd, batch, interest, mpSocketTask>>
worker  == <<workPc, task>>
vars == <<srvPc, srvIdx, srvFd, batch, interest, mpSocketTask,
          owner, workPc, task, queTask, queStatus, peer>>

SrvPcs  == {"free", "wait", "event", "put", "push"}
WorkPcs == {"lock", "check", "wait", "serve", "reply", "unlock", "hung"}
(***************************************************************************)
(* "none": the number is not in use.  "idle": nothing to read.  "sent": a  *)
(* request waits.  "sentfin": a request and the end of the stream wait.    *)
(* "eof": the peer closed.  "answered": the peer closed and a reply was    *)
(* written to it, its RST is on the way.  "reset": the connection is gone. *)
(* "leaked": open, but no task and no epoll entry refer to it any more.    *)
(***************************************************************************)
PeerStates == {"none", "idle", "sent", "sentfin", "eof", "answered",
               "reset", "leaked"}
Status == [m_iSockFd: Fds, m_bStatus: BOOLEAN]

Init ==
  /\ srvPc = "free"
  /\ srvIdx = 1
  /\ srvFd = NoFd
  /\ batch = {}
  /\ interest = {}
  /\ mpSocketTask = {}
  /\ owner = [w \in Workers |-> "none"]
  /\ workPc = [w \in Workers |-> "lock"]
  /\ task = [w \in Workers |-> NoFd]
  /\ queTask = [w \in Workers |-> <<>>]
  /\ queStatus = [w \in Workers |-> <<>>]
  /\ peer = [f \in Fds |-> "none"]

-----------------------------------------------------------------------------
(* The clients and the kernel.                                             *)

Readable(f) == peer[f] \in {"sent", "sentfin", "eof", "answered", "reset"}

\* A client with an open connection sends a request.
PeerSends(f) ==
  /\ peer[f] = "idle"
  /\ peer' = [peer EXCEPT ![f] = "sent"]
  /\ UNCHANGED <<server, worker, owner, queTask, queStatus>>

\* A client closes its end in order.
PeerCloses(f) ==
  /\ \/ peer[f] = "idle" /\ peer' = [peer EXCEPT ![f] = "eof"]
     \/ peer[f] = "sent" /\ peer' = [peer EXCEPT ![f] = "sentfin"]
  /\ UNCHANGED <<server, worker, owner, queTask, queStatus>>

\* A reset arrives: the client aborted, or what was written to it after it
\* had closed is refused.
PeerResets(f) ==
  /\ peer[f] \in {"idle", "sent", "answered"}
  /\ peer' = [peer EXCEPT ![f] = "reset"]
  /\ UNCHANGED <<server, worker, owner, queTask, queStatus>>

-----------------------------------------------------------------------------
(* CUserQueryServer::BdxServerGetFreeTask: drain the status queues.        *)

\* delete the task and erase its map entry; ~CUserQueryTask leaves the
\* socket open, so the descriptor is never given out again.
DropTask(f) ==
  /\ mpSocketTask' = mpSocketTask \ {f}
  /\ peer' = [peer EXCEPT ![f] = "leaked"]

\* Queue srvIdx is empty: go on to the next worker, then to epoll_wait.
FreeTaskNext ==
  /\ srvPc = "free"
  /\ queStatus[srvIdx] = <<>>
  /\ IF srvIdx < N
       THEN srvIdx' = srvIdx + 1 /\ srvPc' = "free"
       ELSE srvIdx' = 1 /\ srvPc' = "wait"
  /\ UNCHANGED <<srvFd, batch, interest, mpSocketTask, worker, owner, queTask,
                 queStatus, peer>>

\* Faulty variant: a failure of EPOLL_CTL_ADD is ignored.
BadRearm(f) ==
  /\ \/ f \notin interest /\ interest' = interest \cup {f}
     \/ UNCHANGED interest
  /\ UNCHANGED <<mpSocketTask, peer>>

\* EPOLL_CTL_ADD for a descriptor taken from a status: it fails when the
\* descriptor is already in the list, and may fail for lack of memory.
Rearm(f) ==
  \/ /\ f \notin interest
     /\ interest' = interest \cup {f}
     /\ UNCHANGED <<mpSocketTask, peer>>
  \/ DropTask(f) /\ UNCHANGED interest

\* Take one status off queue srvIdx.
FreeTaskPop ==
  /\ srvPc = "free"
  /\ queStatus[srvIdx] # <<>>
  /\ queStatus' = [queStatus EXCEPT ![srvIdx] = Tail(@)]
  /\ LET st == Head(queStatus[srvIdx]) IN
       \/ /\ st.m_iSockFd \notin mpSocketTask    \* "memory can not free"
          /\ UNCHANGED <<interest, mpSocketTask, peer>>
       \/ /\ st.m_iSockFd \in mpSocketTask
          /\ st.m_bStatus
          /\ Rearm(st.m_iSockFd)
       \/ /\ st.m_iSockFd \in mpSocketTask
          /\ ~st.m_bStatus
          /\ DropTask(st.m_iSockFd)
          /\ UNCHANGED interest
  /\ UNCHANGED <<srvPc, srvIdx, srvFd, batch, worker, owner, queTask>>

-----------------------------------------------------------------------------
(* CUserQueryServer::Core: epoll_wait and the event loop.                  *)

\* epoll_wait returns every ready descriptor, or EVENT of them.
Returned(ready) ==
  {b \in SUBSET ready : \/ b = ready /\ Cardinality(b) <= EVENT
                        \/ Cardinality(b) = EVENT}

\* A client may be waiting to be accepted at any time.
EpollWait ==
  /\ srvPc = "wait"
  /\ \E pending \in {{}, {Listen}} :
       batch' \in Returned({f \in interest : Readable(f)} \cup pending)
  /\ srvPc' = "event"
  /\ UNCHANGED <<srvIdx, srvFd, interest, mpSocketTask, worker, owner,
                 queTask, queStatus, peer>>

\* All events handled: back to GetFreeTask.
EventsDone ==
  /\ srvPc = "event"
  /\ batch = {}
  /\ srvPc' = "free"
  /\ srvIdx' = 1
  /\ UNCHANGED <<srvFd, batch, interest, mpSocketTask, worker, owner,
                 queTask, queStatus, peer>>

\* TcpAccept and BdxServerGetTask both succeed.
Accept(f) ==
  /\ srvPc = "event"
  /\ Listen \in batch
  /\ peer[f] = "none"
  /\ batch' = batch \ {Listen}
  /\ peer' = [peer EXCEPT ![f] = "idle"]
  /\ interest' = interest \cup {f}
  /\ mpSocketTask' = mpSocketTask \cup {f}
  /\ UNCHANGED <<srvPc, srvIdx, srvFd, worker, owner, queTask, queStatus>>

\* TcpAccept fails, or BdxServerGetTask does and the new socket is deleted,
\* which closes it.
AcceptFails ==
  /\ srvPc = "event"
  /\ Listen \in batch
  /\ batch' = batch \ {Listen}
  /\ UNCHANGED <<srvPc, srvIdx, srvFd, interest, mpSocketTask, worker, owner,
                 queTask, queStatus, peer>>

\* Faulty variant: no EPOLL_CTL_DEL.
BadReadEvent(f) ==
  /\ srvPc = "event"
  /\ f \in batch
  /\ batch' = batch \ {f}
  /\ srvPc' = "put" /\ srvIdx' = 1 /\ srvFd' = f
  /\ UNCHANGED <<interest, mpSocketTask, worker, owner, queTask, queStatus,
                 peer>>

\* BdxServerReadEvent up to the call of BdxServerPutTask.
ReadEvent(f) ==
  /\ srvPc = "event"
  /\ f \in batch
  /\ batch' = batch \ {f}
  /\ interest' = interest \ {f}
  /\ \/ /\ f \in mpSocketTask
        /\ srvPc' = "put" /\ srvIdx' = 1 /\ srvFd' = f
        /\ UNCHANGED peer
     \/ /\ f \notin mpSocketTask                  \* "can not find Task"
        /\ peer' = [peer EXCEPT ![f] = "none"]    \* close(iSockfd)
        /\ UNCHANGED <<srvPc, srvIdx, srvFd>>
  /\ UNCHANGED <<mpSocketTask, worker, owner, queTask, queStatus>>

-----------------------------------------------------------------------------
(* CUserQueryServer::BdxServerPutTask.                                     *)

\* Faulty variant: EBUSY is taken for success.
BusyPutTryLock ==
  /\ srvPc = "put"
  /\ srvIdx <= N
  /\ owner' = [owner EXCEPT ![srvIdx] = "server"]
  /\ srvPc' = "push"
  /\ UNCHANGED <<srvIdx, srvFd, batch, interest, mpSocketTask, worker,
                 queTask, queStatus, peer>>

\* Faulty variant: MutexLock in the place of MutexTryLock.
BlockingPutTryLock ==
  /\ srvPc = "put"
  /\ srvIdx <= N
  /\ owner[srvIdx] = "none"
  /\ owner' = [owner EXCEPT ![srvIdx] = "server"]
  /\ srvPc' = "push"
  /\ UNCHANGED <<srvIdx, srvFd, batch, interest, mpSocketTask, worker,
                 queTask, queStatus, peer>>

\* MutexTryLock on worker srvIdx: busy, try the next one; or taken.
PutTryLock ==
  /\ srvPc = "put"
  /\ srvIdx <= N
  /\ \/ /\ owner[srvIdx] # "none"
        /\ srvIdx' = srvIdx + 1
        /\ UNCHANGED <<srvPc, owner>>
     \/ /\ owner[srvIdx] = "none"
        /\ owner' = [owner EXCEPT ![srvIdx] = "server"]
        /\ srvPc' = "push"
        /\ UNCHANGED srvIdx
  /\ UNCHANGED <<srvFd, batch, interest, mpSocketTask, worker, queTask,
                 queStatus, peer>>

\* Faulty variant: the notify is forgotten.
BadMutexNotify(w) == UNCHANGED workPc

\* pthread_cond_signal: wakes worker w if it waits, otherwise does nothing.
\* A woken worker first takes the mutex again, then tests its queue.
MutexNotify(w) ==
  workPc' = IF workPc[w] = "wait" THEN [workPc EXCEPT ![w] = "lock"]
                                  ELSE workPc

\* push, MutexNotify, MutexUnlock, return SUCCESS.
PutPush ==
  /\ srvPc = "push"
  /\ queTask' = [queTask EXCEPT ![srvIdx] = Append(@, srvFd)]
  /\ MutexNotify(srvIdx)
  /\ owner' = [owner EXCEPT ![srvIdx] = "none"]
  /\ srvPc' = "event" /\ srvIdx' = 1 /\ srvFd' = NoFd
  /\ UNCHANGED <<batch, interest, mpSocketTask, task, queStatus, peer>>

\* NOFREE_THREAD: ReadEvent deletes the task.
PutNoFree ==
  /\ srvPc = "put"
  /\ srvIdx > N
  /\ DropTask(srvFd)
  /\ srvPc' = "event" /\ srvIdx' = 1 /\ srvFd' = NoFd
  /\ UNCHANGED <<batch, interest, worker, owner, queTask, queStatus>>

-----------------------------------------------------------------------------
(* CUserQueryWorkThreads::Core.                                            *)

\* MutexLock, at the top of the loop or on the way out of MutexWait.
WorkLock(w) ==
  /\ workPc[w] = "lock"
  /\ owner[w] = "none"
  /\ owner' = [owner EXCEPT ![w] = "worker"]
  /\ workPc' = [workPc EXCEPT ![w] = "check"]
  /\ UNCHANGED <<server, task, queTask, queStatus, peer>>

\* The queue is empty: MutexWait releases the mutex and sleeps.
WorkWait(w) ==
  /\ workPc[w] = "check"
  /\ queTask[w] = <<>>
  /\ owner' = [owner EXCEPT ![w] = "none"]
  /\ workPc' = [workPc EXCEPT ![w] = "wait"]
  /\ UNCHANGED <<server, task, queTask, queStatus, peer>>

\* pthread_cond_wait may return without a signal.
WorkSpurious(w) ==
  /\ workPc[w] = "wait"
  /\ workPc' = [workPc EXCEPT ![w] = "lock"]
  /\ UNCHANGED <<server, task, owner, queTask, queStatus, peer>>

\* BdxGetHttpPacket up to its first checks, on the socket f: a request that
\* passes them is served; a malformed one, an end of stream or an error is
\* answered at once.
ReadRequest(w, f) ==
  \/ /\ peer[f] \in {"sent", "sentfin"}
     /\ peer' = [peer EXCEPT ![f] = IF @ = "sent" THEN "idle" ELSE "eof"]
     /\ \E pc \in {"serve", "reply"} : workPc' = [workPc EXCEPT ![w] = pc]
  \/ /\ peer[f] \notin {"sent", "sentfin"}
     /\ workPc' = [workPc EXCEPT ![w] = "reply"]
     /\ UNCHANGED peer

\* front, pop, and BdxRunTask; the mutex stays locked while the task runs.
WorkTake(w) ==
  /\ workPc[w] = "check"
  /\ queTask[w] # <<>>
  /\ queTask' = [queTask EXCEPT ![w] = Tail(@)]
  /\ task' = [task EXCEPT ![w] = Head(queTask[w])]
  /\ ReadRequest(w, Head(queTask[w]))
  /\ UNCHANGED <<server, owner, queStatus>>

\* The rest of BdxGetHttpPacket: Redis, DataHub and the operator's API.
TaskServed(w) ==
  /\ workPc[w] = "serve"
  /\ workPc' = [workPc EXCEPT ![w] = "reply"]
  /\ UNCHANGED <<server, task, owner, queTask, queStatus, peer>>

\* TcpSslReadLen never leaves its loop once DataHub has closed the TLS
\* connection: the worker is gone, with its mutex.
TaskHangs(w) ==
  /\ workPc[w] = "serve"
  /\ workPc' = [workPc EXCEPT ![w] = "hung"]
  /\ UNCHANGED <<server, task, owner, queTask, queStatus, peer>>

\* Faulty variant: no status is pushed when the reply could not be written.
SilentTaskReply(w) ==
  /\ workPc[w] = "reply"
  /\ \E ok \in IF peer[task[w]] = "reset" THEN {FALSE} ELSE BOOLEAN :
       queStatus' = IF ok THEN [queStatus EXCEPT ![w] =
                            Append(@, [m_iSockFd |-> task[w], m_bStatus |-> ok])]
                          ELSE queStatus
  /\ task' = [task EXCEPT ![w] = NoFd]
  /\ workPc' = [workPc EXCEPT ![w] = "unlock"]
  /\ UNCHANGED <<server, owner, queTask, peer>>

\* Faulty variant: the status is success whether the reply was written or not.
HopefulTaskReply(w) ==
  /\ workPc[w] = "reply"
  /\ queStatus' = [queStatus EXCEPT ![w] =
                     Append(@, [m_iSockFd |-> task[w], m_bStatus |-> TRUE])]
  /\ task' = [task EXCEPT ![w] = NoFd]
  /\ workPc' = [workPc EXCEPT ![w] = "unlock"]
  /\ UNCHANGED <<server, owner, queTask, peer>>

\* BdxSendRespones or BdxSendEmpyRespones: the value of BdxRunTask is whether
\* the whole reply was written, and the status says so.
TaskReply(w) ==
  /\ workPc[w] = "reply"
  /\ \E ok \in IF peer[task[w]] = "reset" THEN {FALSE} ELSE BOOLEAN :
       /\ queStatus' = [queStatus EXCEPT ![w] =
                          Append(@, [m_iSockFd |-> task[w], m_bStatus |-> ok])]
       /\ peer' = [peer EXCEPT ![task[w]] =
                     IF ok /\ @ = "eof" THEN "answered" ELSE @]
  /\ task' = [task EXCEPT ![w] = NoFd]
  /\ workPc' = [workPc EXCEPT ![w] = "unlock"]
  /\ UNCHANGED <<server, owner, queTask>>

\* Faulty variant: the worker sleeps after a task without testing its queue.
BadWorkUnlock(w) ==
  /\ workPc[w] = "unlock"
  /\ owner' = [owner EXCEPT ![w] = "none"]
  /\ workPc' = [workPc EXCEPT ![w] = "wait"]
  /\ UNCHANGED <<server, task, queTask, queStatus, peer>>

\* MutexUnlock; the MutexNotify that follows wakes nobody, for only the
\* worker itself ever waits on its condition.
WorkUnlock(w) ==
  /\ workPc[w] = "unlock"
  /\ owner' = [owner EXCEPT ![w] = "none"]
  /\ workPc' = [workPc EXCEPT ![w] = "lock"]
  /\ UNCHANGED <<server, task, queTask, queStatus, peer>>

-----------------------------------------------------------------------------
ServerStep ==
  \/ FreeTaskNext \/ FreeTaskPop \/ EpollWait \/ EventsDone \/ AcceptFails
  \/ PutTryLock \/ PutPush \/ PutNoFree
  \/ \E f \in Fds : Accept(f) \/ ReadEvent(f)

WorkerStep(w) ==
  \/ WorkLock(w) \/ WorkWait(w) \/ WorkTake(w)
  \/ TaskServed(w) \/ TaskHangs(w) \/ TaskReply(w) \/ WorkUnlock(w)

PeerStep(f) == PeerSends(f) \/ PeerCloses(f) \/ PeerResets(f)

Next ==
  \/ ServerStep
  \/ \E w \in Workers : WorkerStep(w) \/ WorkSpurious(w)
  \/ \E f \in Fds : PeerStep(f)

Spec == Init /\ [][Next]_vars

(***************************************************************************)
(* Every thread that can move does: the threads are created once and never *)
(* cancelled.  Clients promise nothing, but the kernel delivers the reset  *)
(* that a write to a closed connection provokes.                           *)
(***************************************************************************)
Fairness ==
  /\ WF_vars(ServerStep)
  /\ \A w \in Workers : WF_vars(WorkerStep(w))
  /\ \A f \in Fds : WF_vars(peer[f] = "answered" /\ PeerResets(f))

FairSpec == Spec /\ Fairness
-----------------------------------------------------------------------------
(* Where a connection can be.                                              *)

InHand   == {f \in Fds : f = srvFd}
Queued   == {f \in Fds : \E w \in Workers :
                           \E i \in DOMAIN queTask[w] : queTask[w][i] = f}
Running  == {f \in Fds : \E w \in Workers : task[w] = f}
Reported == {f \in Fds : \E w \in Workers :
                           \E i \in DOMAIN queStatus[w] :
                             queStatus[w][i].m_iSockFd = f}
Stuck(f) == \E w \in Workers :
              /\ workPc[w] = "hung"
              /\ task[w] = f \/ \E i \in DOMAIN queTask[w] : queTask[w][i] = f

\* Where a worker holds its mutex.
Holding == {"check", "serve", "reply", "unlock", "hung"}
Busy    == {"serve", "reply", "hung"}

\* Every variable holds a value of its type (state of UserQueryServer and
\* UserQueryWorkThreads).
TypeOK ==
  /\ srvPc \in SrvPcs
  /\ srvIdx \in 1..(N + 1)
  /\ srvFd \in Fds \cup {NoFd}
  /\ batch \subseteq Fds \cup {Listen}
  /\ interest \subseteq Fds
  /\ mpSocketTask \subseteq Fds
  /\ owner \in [Workers -> {"none", "server", "worker"}]
  /\ workPc \in [Workers -> WorkPcs]
  /\ task \in [Workers -> Fds \cup {NoFd}]
  /\ queTask \in [Workers -> Seq(Fds)]
  /\ queStatus \in [Workers -> Seq(Status)]
  /\ peer \in [Fds -> PeerStates]

\* The worker's mutex is held by the worker exactly between its MutexLock and
\* its MutexUnlock or MutexWait, and by the server exactly while it pushes: so
\* the two never touch the task queue together.
MutexHeld ==
  \A w \in Workers :
    /\ owner[w] = "worker" <=> workPc[w] \in Holding
    /\ owner[w] = "server" <=> srvPc = "push" /\ srvIdx = w

\* No connection is twice in the task queues, with two workers, or twice in
\* the status queues.
NoDuplicates ==
  /\ \A w, v \in Workers :
       \A i \in DOMAIN queTask[w], j \in DOMAIN queTask[v] :
         queTask[w][i] = queTask[v][j] => w = v /\ i = j
  /\ \A w, v \in Workers : task[w] # NoFd /\ task[w] = task[v] => w = v
  /\ \A w, v \in Workers :
       \A i \in DOMAIN queStatus[w], j \in DOMAIN queStatus[v] :
         queStatus[w][i].m_iSockFd = queStatus[v][j].m_iSockFd
           => w = v /\ i = j

\* A connection is never at two stages of its life at once: polled by epoll,
\* in the server's hand, queued, being run, or reported and not yet re-armed.
\* So no socket is read by two threads, and EPOLL_CTL_ADD never meets a
\* descriptor that is already in the list (UserQueryServer.cpp:130-200).
OnePlace ==
  /\ NoDuplicates
  /\ interest \cap (InHand \cup Queued \cup Running \cup Reported) = {}
  /\ InHand \cap (Queued \cup Running \cup Reported) = {}
  /\ Queued \cap (Running \cup Reported) = {}
  /\ Running \cap Reported = {}

\* m_mpSocketTask holds exactly the tasks that something still refers to: no
\* worker ever runs a task the server has deleted, neither of the "can not
\* find" branches is ever taken, and no task stays in the map forgotten.
TasksAccounted ==
  mpSocketTask = interest \cup InHand \cup Queued \cup Running \cup Reported

\* The descriptor of a live task is open, so accept never returns it for
\* another client and m_mpSocketTask[fd] = pclTask never overwrites a task.
LiveTaskOpen == \A f \in mpSocketTask : peer[f] \notin {"none", "leaked"}

\* A worker never sleeps in MutexWait while its queue holds a task: the
\* notify of BdxServerPutTask is never lost.
NoLostWakeup == \A w \in Workers : workPc[w] = "wait" => queTask[w] = <<>>

\* Where the program counters leave the rest of the state: what the server
\* holds in PutTask, which worker index is in range, who has a task, and that
\* the events still to be handled are of descriptors in the interest list.
Control ==
  /\ srvFd # NoFd <=> srvPc \in {"put", "push"}
  /\ srvPc # "put" => srvIdx \in Workers
  /\ \A w \in Workers : task[w] # NoFd <=> workPc[w] \in Busy
  /\ batch \subseteq interest \cup {Listen}

\* The server thread never blocks on a worker: whatever the workers do, a
\* worker hung in BdxRunTask included, it comes back to epoll_wait.
ServerKeepsPolling == []<>(srvPc = "wait")

\* A task handed to a worker is run, unless the worker hangs in an earlier one.
QueuedIsRun ==
  \A f \in Fds : f \in Queued ~> f \notin Queued \/ Stuck(f)

\* Once the client has closed or reset its connection the server lets go of
\* its task: the reply to the closed socket succeeds once and fails after that.
GoneIsReleased ==
  \A f \in Fds : peer[f] \in {"eof", "answered", "reset"}
                   ~> f \notin mpSocketTask \/ Stuck(f)

-----------------------------------------------------------------------------
(* The life of a connection, as ConnLife promises it.                      *)

Stage == [f \in Fds |->
  IF f \in InHand        THEN "dispatched"
  ELSE IF f \in Queued   THEN "queued"
  ELSE IF f \in Running  THEN "running"
  ELSE IF f \in Reported THEN "reported"
  ELSE IF f \in interest THEN "armed"
  ELSE IF peer[f] = "leaked" THEN "lost"
  ELSE "free"]

Life == INSTANCE ConnLife WITH stage <- Stage

\* The threads together give every connection the life ConnLife describes.
ImplementsConnLife == Life!Spec
=============================================================================
