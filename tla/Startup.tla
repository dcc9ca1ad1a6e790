------------------------------- MODULE Startup -------------------------------
(***************************************************************************)
(* UserQueryMainCore: main makes the workers one by one and starts the     *)
(* thread of each before it makes the next, then the report, hive, server  *)
(* and update threads, and joins them all.                                 *)
(*                                                                         *)
(* Each worker's constructor appends to four static vectors, which the     *)
(* threads that already run index without a lock.  A vector that is full   *)
(* moves to storage twice as large: the old storage is freed, and then the *)
(* pointer to it is replaced.  A started worker reads m_vecTaskBuf three   *)
(* times before it waits for work; each read loads the pointer and then    *)
(* the element.  The other three vectors are read only once there is work. *)
(***************************************************************************)
EXTENDS Integers, Sequences, FiniteSets

CONSTANTS
    N,          \* m_uiThreadsNum
    MayFail     \* pthread_create and the constructors may fail

ASSUME NAssumption == N \in Nat /\ MayFail \in BOOLEAN

Workers == 0 .. N - 1
Helpers == <<"Count", "HiveLog", "Server", "Update">>
(* The objects in the order main makes them; a worker's m_uiThreadId is second. *)
Object(k) == IF k <= N THEN <<"Worker", k - 1>> ELSE <<Helpers[k - N], 0>>
LastObject == N + Len(Helpers)
Reads == 3      \* MutexLock, empty, MutexWait
Vectors == {"TaskBuf", "Report", "HiveLog", "TaskStauts"}
NoRoutine == "NULL"

VARIABLES
    mPc,        \* where main is
    next,       \* which object main makes: m_uiCount is the number of workers among them
    size,       \* elements of each vector
    cap,        \* capacity of m_vecTaskBuf
    storage,    \* which storage of m_vecTaskBuf the pointer names
    freed,      \* storages of m_vecTaskBuf that were freed
    m_fpFun,    \* the routine the next thread will run
    routine,    \* the threads: object to the routine it runs
    wPc,        \* started workers: "load", "use", "wait", "wild" (read freed storage)
    ptr,        \* the storage each worker loaded
    reads       \* reads each worker has made

vecVars == <<size, cap, storage, freed>>
threadVars == <<m_fpFun, routine>>
workerVars == <<wPc, ptr, reads>>
startupVars == <<mPc, next, vecVars, threadVars, workerVars>>

StartInit ==
    /\ mPc = "new"
    /\ next = 1
    /\ size = [v \in Vectors |-> 0]
    /\ cap = 0
    /\ storage = 0
    /\ freed = {}
    /\ m_fpFun = NoRoutine
    /\ routine = << >>
    /\ wPc = [w \in Workers |-> "load"]
    /\ ptr = [w \in Workers |-> 0]
    /\ reads = [w \in Workers |-> 0]

Running(p) == p \in DOMAIN routine

-----------------------------------------------------------------------------
(* AdWorkInit *)

(* new CUserQueryWorkThreads up to the first push_back; new TASKQUE_S may throw, *)
(* which ends the program.                                                       *)
NewWorker ==
    /\ mPc = "new"
    /\ next <= N
    /\ mPc' = "push" \/ (MayFail /\ mPc' = "failed")
    /\ UNCHANGED <<next, vecVars, threadVars, workerVars>>

(* m_vecTaskBuf.push_back: with room the element is appended ... *)
Append1 ==
    /\ mPc = "push"
    /\ size["TaskBuf"] < cap
    /\ size' = [size EXCEPT !["TaskBuf"] = @ + 1]
    /\ mPc' = "pushrest"
    /\ UNCHANGED <<next, cap, storage, freed, threadVars, workerVars>>

(* ... without, the elements are copied and the old storage is freed ... *)
GrowFree ==
    /\ mPc = "push"
    /\ size["TaskBuf"] = cap
    /\ freed' = freed \cup {storage}
    /\ mPc' = "grow"
    /\ UNCHANGED <<next, size, cap, storage, threadVars, workerVars>>

(* Faulty variant: the vector grows by one element at a time. *)
SmallGrow ==
    /\ mPc = "grow"
    /\ storage' = storage + 1
    /\ cap' = cap + 1
    /\ size' = [size EXCEPT !["TaskBuf"] = @ + 1]
    /\ mPc' = "pushrest"
    /\ UNCHANGED <<next, freed, threadVars, workerVars>>

(* ... before the pointer names the new one, of twice the capacity. *)
GrowInstall ==
    /\ mPc = "grow"
    /\ storage' = storage + 1
    /\ cap' = IF cap = 0 THEN 1 ELSE 2 * cap
    /\ size' = [size EXCEPT !["TaskBuf"] = @ + 1]
    /\ mPc' = "pushrest"
    /\ UNCHANGED <<next, freed, threadVars, workerVars>>

(* Faulty variant: m_vecTaskStauts is left to the worker's first status. *)
ShortPushRest ==
    /\ mPc = "pushrest"
    /\ size' = [v \in Vectors |-> IF v \in {"TaskBuf", "TaskStauts"} THEN size[v] ELSE size[v] + 1]
    /\ mPc' = "routine"
    /\ UNCHANGED <<next, cap, storage, freed, threadVars, workerVars>>

(* The other three push_backs; no thread reads these vectors yet. *)
PushRest ==
    /\ mPc = "pushrest"
    /\ size' = [v \in Vectors |-> IF v = "TaskBuf" THEN size[v] ELSE size[v] + 1]
    /\ mPc' = "routine"
    /\ UNCHANGED <<next, cap, storage, freed, threadVars, workerVars>>

-----------------------------------------------------------------------------
(* UserQueryMainCore *)

(* The constructors of the other threads; that of the server may throw. *)
NewHelper ==
    /\ mPc = "new"
    /\ next > N
    /\ mPc' = "routine" \/ (MayFail /\ Object(next)[1] = "Server" /\ mPc' = "failed")
    /\ UNCHANGED <<next, vecVars, threadVars, workerVars>>

(* Faulty variant: a routine is set only where there is none. *)
LazySetRoutine ==
    /\ mPc = "routine"
    /\ m_fpFun' = IF m_fpFun = NoRoutine THEN Object(next)[1] ELSE m_fpFun
    /\ mPc' = "create"
    /\ UNCHANGED <<next, vecVars, routine, workerVars>>

SetRoutine ==
    /\ mPc = "routine"
    /\ m_fpFun' = Object(next)[1]
    /\ mPc' = "create"
    /\ UNCHANGED <<next, vecVars, routine, workerVars>>

(* CreateThead: a failure is printed and no more; m_fpFun keeps its value. *)
CreateThead ==
    /\ mPc = "create"
    /\ \/ /\ routine' = [p \in DOMAIN routine \cup {Object(next)} |->
                           IF p = Object(next) THEN m_fpFun ELSE routine[p]]
          /\ m_fpFun' = NoRoutine
       \/ /\ MayFail
          /\ UNCHANGED threadVars
    /\ next' = next + 1
    /\ mPc' = IF next = LastObject THEN "join" ELSE "new"
    /\ UNCHANGED <<vecVars, workerVars>>

(* ThreadJionALL: no thread ever ends, so it returns only if there is none. *)
JoinALL ==
    /\ mPc = "join"
    /\ DOMAIN routine = {}
    /\ mPc' = "exited"
    /\ UNCHANGED <<next, vecVars, threadVars, workerVars>>

-----------------------------------------------------------------------------
(* A started worker, up to its first MutexWait *)

Live(w) == Running(<<"Worker", w>>) /\ mPc \notin {"failed", "exited"}

(* m_vecTaskBuf[...]: the pointer ... *)
LoadPtr(w) ==
    /\ Live(w)
    /\ wPc[w] = "load"
    /\ ptr' = [ptr EXCEPT ![w] = storage]
    /\ wPc' = [wPc EXCEPT ![w] = "use"]
    /\ UNCHANGED <<mPc, next, vecVars, threadVars, reads>>

(* ... and the element it leads to. *)
UsePtr(w) ==
    /\ Live(w)
    /\ wPc[w] = "use"
    /\ reads' = [reads EXCEPT ![w] = @ + 1]
    /\ wPc' = [wPc EXCEPT ![w] = IF ptr[w] \in freed THEN "wild"
                                ELSE IF reads[w] + 1 = Reads THEN "wait" ELSE "load"]
    /\ ptr' = [ptr EXCEPT ![w] = 0]
    /\ UNCHANGED <<mPc, next, vecVars, threadVars>>

MainStep == \/ NewWorker \/ Append1 \/ GrowFree \/ GrowInstall \/ PushRest
        \/ NewHelper \/ SetRoutine \/ CreateThead \/ JoinALL
WorkerStep(w) == LoadPtr(w) \/ UsePtr(w)

-----------------------------------------------------------------------------
(* Types of all variables. *)
StartTypeOK ==
    /\ mPc \in {"new", "push", "grow", "pushrest", "routine", "create", "join", "failed", "exited"}
    /\ next \in 1 .. LastObject + 1
    /\ size \in [Vectors -> 0 .. N]
    /\ cap \in Nat
    /\ storage \in 0 .. N
    /\ freed \subseteq 0 .. N
    /\ DOMAIN routine \subseteq {Object(k) : k \in 1 .. LastObject}
    /\ wPc \in [Workers -> {"load", "use", "wait", "wild"}]
    /\ ptr \in [Workers -> 0 .. N]
    /\ reads \in [Workers -> 0 .. Reads]

(* No thread indexes a vector beyond its end: the entries of a worker exist   *)
(* in all four before its thread does, and those of all N workers before the *)
(* report, hive and server threads, which index by the number of workers.    *)
EntriesFirst ==
    \A p \in DOMAIN routine : \A v \in Vectors :
        IF p[1] = "Worker" THEN p[2] < size[v] ELSE size[v] = N

(* The capacities up to N elements: 1, and twice each. *)
Doubling(cs) == 1 \in cs /\ \A c \in cs : 2 * c <= N => 2 * c \in cs
Capacities == {c \in 1 .. N : \A cs \in SUBSET (1 .. N) : Doubling(cs) => c \in cs}

(* A started worker reads freed storage only if m_vecTaskBuf was full, at a   *)
(* power of two elements, with that worker in it and another to come: never   *)
(* a worker whose number is at or above the largest power of two below N.     *)
WildOnlyAcrossGrowth ==
    \A w \in Workers : wPc[w] = "wild" => \E c \in Capacities : w < c /\ c < N

(* Every thread runs the Core of the class of its own object, also after a    *)
(* pthread_create that failed and left m_fpFun set.                           *)
OwnRoutine ==
    \A p \in DOMAIN routine : routine[p] = p[1]

(* All three: what a thread finds when main has started it. *)
StartSafe == EntriesFirst /\ WildOnlyAcrossGrowth /\ OwnRoutine

=============================================================================
