--------------------------- MODULE ReportingProofs ---------------------------
(***************************************************************************)
(* Reporting for every number of workers, threads, users and descriptors:  *)
(* types, the log's mutex and streams, the descriptors, the causes of      *)
(* death, the day of a line, the counters and the records.                 *)
(*                                                                         *)
(* The parts meet in few variables: each is proved from an invariant of    *)
(* its own variables (LogInv, StatsInv, HiveInv) and of the directories    *)
(* and descriptors all share (DirsInv, FdsInv).                            *)
(***************************************************************************)
EXTENDS Reporting, FiniteSetTheorems, SequenceTheorems, TLAPS

(* CLog: between lock and unlock one thread; a stream is closed and still    *)
(* pointed to only after a failed write; no stream while a new one is opened. *)
LogInv ==
    /\ mutex \in Threads \union {NoOne}
    /\ logPc \in [Threads -> {"idle", "lock", "dir", "open", "write", "fclose"}]
    /\ logOn \in BOOLEAN /\ logClosed \in BOOLEAN
    /\ faulted \in BOOLEAN /\ mkdirFailed \in BOOLEAN
    /\ LogGuarded
    /\ logClosed => logFile # NULL
    /\ \A t \in Threads : logPc[t] = "fclose" => faulted
    /\ \A t \in Threads : logPc[t] = "open" => logFile = NULL
    /\ ~logOn => logFile = NULL /\ \A t \in Threads : logPc[t] = "idle"

Maps == [Users -> [Counters -> Nat] \union {Absent}]

(* The counters: a worker that is about to increment an element has it,      *)
(* unless it was freed.                                                      *)
StatsInv ==
    /\ cntPc \in {"off", "open", "add", "clear"}
    /\ cntAt \in 0 .. N
    /\ cntPc = "clear" => cntAt < N
    /\ workPc \in [Workers -> {"idle", "req", "run", "res", "send", "find", "empty"}]
    /\ workUser \in [Workers -> Users \union {NoUser}]
    /\ freed \in [Workers -> BOOLEAN]
    /\ sum \in Maps
    /\ cells \in [Workers -> Maps]
    /\ redis \in [Users -> [Counters -> Nat]]
    /\ counted \in [Users -> [Counters -> Nat]]
    /\ written \in [Users -> [Counters -> Nat]]
    /\ \A w \in Workers : workPc[w] # "idle" => workUser[w] \in Users
    /\ \A w \in Workers : workPc[w] \in {"req", "res", "empty"} /\ ~freed[w]
                             => cells[w][workUser[w]] # Absent

(* The records of a worker, n of which it has pushed: those written and those *)
(* queued are in the order pushed; and as long as none was lost they are all. *)
InOrder(out, que, n) ==
    /\ \A i, j \in 1 .. Len(out) : i < j => out[i] < out[j]
    /\ \A i, j \in 1 .. Len(que) : i < j => que[i] < que[j]
    /\ \A i \in 1 .. Len(out), j \in 1 .. Len(que) : out[i] < que[j]
    /\ \A i \in 1 .. Len(out) : out[i] <= n
    /\ \A j \in 1 .. Len(que) : que[j] <= n

Exact(out, que, n) ==
    /\ n = Len(out) + Len(que)
    /\ \A i \in 1 .. Len(out) : out[i] = i
    /\ \A j \in 1 .. Len(que) : que[j] = Len(out) + j

HiveInv ==
    /\ hivePc \in {"off", "open", "drain"}
    /\ hiveAt \in 0 .. N
    /\ hivePushed \in [Workers -> Nat]
    /\ hiveQue \in [Workers -> Seq(Nat)]
    /\ hiveOut \in [Workers -> Seq(Nat)]
    /\ \A w \in Workers : InOrder(hiveOut[w], hiveQue[w], hivePushed[w])

NoneLost ==
    alive /\ ~died => \A w \in Workers : Exact(hiveOut[w], hiveQue[w], hivePushed[w])

(* Directories and files. *)
DirsInv ==
    /\ hour \in 0 .. MaxHour
    /\ alive \in BOOLEAN /\ starved \in BOOLEAN
    /\ dirs \subseteq Days
    /\ \A d \in dirs : d <= Today
    /\ files \subseteq AllFiles /\ IsFiniteSet(files)
    /\ \A f \in files : f[1] \in dirs
    /\ logNext \in AllFiles /\ logNext[1] \in Days
    /\ logFile # NULL => logFile \in files
    /\ cntFile # NULL => cntFile \in files
    /\ hiveFile # NULL => hiveFile \in files

(* Descriptors: each open one has its owner. *)
LogStreams == IF logFile # NULL /\ ~logClosed THEN 1 ELSE 0
CntStreams == IF cntFile # NULL THEN 1 ELSE 0

FdsInv ==
    /\ fds \in 0 .. MaxFds
    /\ hiveHeld \in [HiveFiles -> 0 .. MaxFds]
    /\ hiveFile # NULL => hiveFile \in HiveFiles /\ hiveHeld[hiveFile] # 0
    /\ fds = LogStreams + CntStreams + Cardinality(HiveStreams(hiveHeld))
    /\ ~logOn => cntPc = "off"
    /\ cntPc = "off" => hivePc = "off" /\ cntFile = NULL
    /\ hivePc = "off" => hiveFile = NULL /\ hiveHeld = [f \in HiveFiles |-> 0]

(* Every NULL FILE in use has a cause. *)
CauseInv ==
    /\ DeathExplained
    /\ \A t \in Threads : logPc[t] = "open" => logNext[1] \in dirs
    /\ \A t \in Threads : logPc[t] = "write" /\ logFile = NULL => starved \/ mkdirFailed
    /\ cntPc # "off" /\ cntFile = NULL => starved \/ blind
    /\ hivePc # "off" /\ hiveFile = NULL => starved \/ hiveBlind

(* The stream in use is of today's directory if CLog made that directory. *)
DayInv ==
    /\ \A t \in Threads : logPc[t] = "open" /\ Today \in dirs \ foreign => logNext[1] = Today
    /\ (\A t \in Threads : logPc[t] # "open") /\ logFile # NULL /\ Today \in dirs \ foreign
          => logFile[1] = Today
    /\ \A t \in Threads : logPc[t] = "write" /\ logFile # NULL /\ logNext[1] \in dirs \ foreign
          => logFile[1] = logNext[1]

(* The counts of each user, wherever they are. *)
Total(u, c) == written[u][c] + Pending(u, c) - AddedTwice(u, c)

CountInv ==
    \A u \in Users, c \in Counters :
        /\ Total(u, c) <= counted[u][c]
        /\ ~raced /\ ~died => Total(u, c) = counted[u][c]

(* The requests of each user in Redis. *)
SettledInv ==
    ~cleared /\ ~died =>
        /\ \A w \in Workers : workPc[w] # "idle" => cells[w][workUser[w]] # Absent
        /\ \A u \in Users :
              redis[u]["req"] = redis[u]["res"] + redis[u]["empty"] + Cardinality(InFlight(u))

-----------------------------------------------------------------------------
(* Which actions change which part                                         *)

\* CLog's variables change in its own steps only.
LEMMA LogChanges ==
  ASSUME [Next]_vars
  PROVE  \/ UNCHANGED logVars
         \/ LogConstruct
         \/ \E t \in Threads : LogCall(t) \/ LogStep(t)
         \/ Restart
  BY DEF Next, vars, LogPart, StartLog, StartCount, StartHive, Request, WorkPart, CountPart,
         Record, HivePart, ClockTicks

\* The counters' variables change in the steps of the report and of the workers only.
LEMMA StatsChange ==
  ASSUME [Next]_vars
  PROVE  \/ UNCHANGED statsVars
         \/ CountConstruct
         \/ \E w \in Workers : StatsWorkerStep(w) \/ \E u \in Users : CountRequest(w, u)
         \/ CountStep
         \/ Restart
  BY DEF Next, vars, LogPart, StartLog, StartCount, StartHive, Request, WorkPart, CountPart,
         Record, HivePart, ClockTicks

\* The hive log's variables change in its steps and when a worker pushes a record.
LEMMA HiveChanges ==
  ASSUME [Next]_vars
  PROVE  \/ UNCHANGED hiveVars
         \/ HiveConstruct
         \/ \E w \in Workers : HivePush(w)
         \/ HiveStep
         \/ Restart
  BY DEF Next, vars, LogPart, StartLog, StartCount, StartHive, Request, WorkPart, CountPart,
         Record, HivePart, ClockTicks

\* The process was alive in every step but a restart.
LEMMA AliveBefore ==
  ASSUME Next, ~Restart
  PROVE  alive
  BY Zenon DEF Next, LogPart, StartLog, StartCount, StartHive, Request, WorkPart, CountPart,
         Record, HivePart, ClockTicks, LogConstruct, LogCall, LogStep, LogLock, LogNewDay, LogSameDay,
         LogOpen, LogWrite, LogWriteFails, LogCrash, LogFclose, LogHolds, CountConstruct, CntAt,
         HiveConstruct, HiveAt, CountRequest, StatsWorkerStep, CountReq, FoundResult, EmptyResult,
         EmptyUncounted, EmptyLocate, CountEmpty, CountRes, SendRespones, SendFails, WorkAt,
         CountStep, CountOpenFile, CountAdd, CountClear, CountWrite, HivePush, HiveStep, HiveOpenFile,
         HiveDrain, HiveNextQue, HiveFlush, Tick

-----------------------------------------------------------------------------
(* The mutex and the stream of the log                                     *)

\* Every step keeps the mutex with one thread and the stream usable.
LEMMA LogKept ==
  ASSUME LogInv, [Next]_vars
  PROVE  LogInv'
  <1> USE LogAssumption DEF LogInv, LogGuarded, NoClosedStream, LogMutexHeld, LogGoto, LogHolds
  <1>1. CASE UNCHANGED logVars
    BY <1>1 DEF logVars
  <1>2. CASE LogConstruct
    <2>1. \A t \in Threads : logPc[t] = "idle"
      BY <1>2 DEF LogConstruct
    <2>2. UNCHANGED <<mutex, logPc, faulted>>
      BY <1>2 DEF LogConstruct
    <2>3. CASE logOn' = TRUE /\ logClosed' = FALSE /\ mkdirFailed' = mkdirFailed
      BY <2>1, <2>2, <2>3
    <2>4. CASE mkdirFailed' = TRUE /\ UNCHANGED <<logOn, logFile, logClosed>>
      BY <2>1, <2>2, <2>4
    <2>5. QED
      BY <1>2, <2>3, <2>4 DEF LogConstruct
  <1>3. CASE Restart
    BY <1>3 DEF Restart, LogReset
  <1>4. ASSUME NEW t \in Threads, LogCall(t) PROVE LogInv'
    BY <1>4 DEF LogCall
  <1>5. ASSUME NEW t \in Threads, LogLock(t) PROVE LogInv'
    BY <1>5 DEF LogLock
  <1>6. ASSUME NEW t \in Threads, LogNewDay(t) PROVE LogInv'
    <2>1. mutex = t /\ logPc[t] = "dir" /\ UNCHANGED <<logOn, mutex, faulted>>
      BY <1>6 DEF LogNewDay
    <2>2. CASE /\ logPc' = [logPc EXCEPT ![t] = "write"]
               /\ mkdirFailed' = TRUE
               /\ UNCHANGED <<logFile, logClosed>>
      BY <2>1, <2>2
    <2>3. CASE /\ logPc' = [logPc EXCEPT ![t] = "open"]
               /\ mkdirFailed' = mkdirFailed
               /\ logFile' = NULL /\ logClosed' = FALSE
      BY <2>1, <2>3
    <2>4. QED
      BY <1>6, <2>2, <2>3 DEF LogNewDay, LogCloseOld
  <1>7. ASSUME NEW t \in Threads, LogSameDay(t) PROVE LogInv'
    <2>1. mutex = t /\ logPc[t] = "dir" /\ UNCHANGED <<logOn, mutex, faulted, mkdirFailed>>
      BY <1>7 DEF LogSameDay
    <2>2. CASE logPc' = [logPc EXCEPT ![t] = "write"] /\ UNCHANGED <<logFile, logClosed>>
      BY <2>1, <2>2
    <2>3. CASE logPc' = [logPc EXCEPT ![t] = "open"] /\ logFile' = NULL /\ logClosed' = FALSE
      BY <2>1, <2>3
    <2>4. QED
      BY <1>7, <2>2, <2>3 DEF LogSameDay, LogCloseOld
  <1>8. ASSUME NEW t \in Threads, LogOpen(t) PROVE LogInv'
    <2>1. logOn /\ ~logClosed /\ mutex = t
      BY <1>8 DEF LogOpen
    <2>2. logPc' = [logPc EXCEPT ![t] = "write"]
      BY <1>8 DEF LogOpen
    <2>3. UNCHANGED <<logOn, logClosed, mutex, faulted, mkdirFailed>>
      BY <1>8 DEF LogOpen
    <2>4. QED
      BY <2>1, <2>2, <2>3
  <1>9. ASSUME NEW t \in Threads, LogWrite(t) PROVE LogInv'
    BY <1>9 DEF LogWrite
  <1>10. ASSUME NEW t \in Threads, LogWriteFails(t) PROVE LogInv'
    BY <1>10 DEF LogWriteFails
  <1>11. ASSUME NEW t \in Threads, LogCrash(t) PROVE LogInv'
    BY <1>11 DEF LogCrash, logVars
  <1>12. ASSUME NEW t \in Threads, LogFclose(t) PROVE LogInv'
    BY <1>12 DEF LogFclose
  <1>13. QED
    BY <1>1, <1>2, <1>3, <1>4, <1>5, <1>6, <1>7, <1>8, <1>9, <1>10, <1>11, <1>12, LogChanges
       DEF LogStep

\* Nobody logs at the start.
LEMMA LogStart == Init => LogInv
  BY LogAssumption DEF Init, LogInit, LogInv, LogGuarded, NoClosedStream, LogMutexHeld

\* So it holds in every reachable state.
LEMMA LogAlways == Spec => []LogInv
  BY LogStart, LogKept, PTL DEF Spec

\* As long as no write has failed no closed stream is used, and no path keeps the mutex.
THEOREM LogIsGuarded == Spec => []LogGuarded
  BY LogAlways, PTL DEF LogInv

-----------------------------------------------------------------------------
(* The maps of counters                                                    *)

\* An element that is there counts from zero.
LEMMA AbsentIsNone == Absent \notin [Counters -> Nat] /\ Zero \in [Counters -> Nat]
  BY DEF Absent, Zero, Counters

\* An empty map counts nothing.
LEMMA ClearedMap == Cleared \in Maps /\ \A u \in Users, c \in Counters : Amount(Cleared, u, c) = 0
  BY DEF Cleared, Maps, Amount

\* operator[] makes the element and changes no amount.
LEMMA LocatedMap ==
  ASSUME NEW m \in Maps, NEW u \in Users
  PROVE  /\ Located(m, u) \in Maps
         /\ Located(m, u)[u] # Absent
         /\ \A v \in Users : m[v] # Absent => Located(m, u)[v] = m[v]
         /\ \A v \in Users, c \in Counters : Amount(Located(m, u), v, c) = Amount(m, v, c)
  <1>1. Value(m, u) \in [Counters -> Nat] /\ Value(m, u) # Absent
    BY AbsentIsNone DEF Value, Maps
  <1>2. Located(m, u) = [m EXCEPT ![u] = Value(m, u)]
    BY DEF Located
  <1>3. \A c \in Counters : Value(m, u)[c] = Amount(m, u, c)
    BY DEF Value, Amount, Zero
  <1>4. /\ Located(m, u) \in Maps
        /\ Located(m, u)[u] = Value(m, u)
        /\ \A v \in Users : v # u => Located(m, u)[v] = m[v]
    BY <1>1, <1>2 DEF Maps
  <1>5. \A v \in Users : m[v] # Absent => Located(m, u)[v] = m[v]
    BY <1>4 DEF Value
  <1>6. QED
    BY <1>1, <1>3, <1>4, <1>5 DEF Amount

Bumped(m, u, c) == [m EXCEPT ![u][c] = @ + 1]

\* ++ on an element that is there adds one to its amount.
LEMMA BumpedMap ==
  ASSUME NEW m \in Maps, NEW u \in Users, NEW c \in Counters, m[u] # Absent
  PROVE  /\ Bumped(m, u, c) \in Maps
         /\ \A v \in Users : m[v] # Absent => Bumped(m, u, c)[v] # Absent
         /\ Amount(Bumped(m, u, c), u, c) = Amount(m, u, c) + 1
         /\ \A v \in Users, d \in Counters :
               v # u \/ d # c => Amount(Bumped(m, u, c), v, d) = Amount(m, v, d)
  <1> DEFINE b == Bumped(m, u, c)
  <1>1. m[u] \in [Counters -> Nat]
    BY DEF Maps
  <1>2. /\ b[u] \in [Counters -> Nat]
        /\ b[u][c] = m[u][c] + 1
        /\ \A d \in Counters : d # c => b[u][d] = m[u][d]
    BY <1>1 DEF Maps, Bumped
  <1>3. b[u] # Absent /\ \A v \in Users : v # u => b[v] = m[v]
    BY <1>2, AbsentIsNone DEF Maps, Bumped
  <1>4. b \in Maps
    BY <1>2, <1>3 DEF Maps, Bumped
  <1>5. QED
    BY <1>2, <1>3, <1>4 DEF Amount

\* operator += adds the amounts.
LEMMA AddedMap ==
  ASSUME NEW a \in Maps, NEW b \in Maps
  PROVE  /\ AddReport(a, b) \in Maps
         /\ \A u \in Users, c \in Counters :
               Amount(AddReport(a, b), u, c) = Amount(a, u, c) + Amount(b, u, c)
  <1> SUFFICES ASSUME NEW u \in Users
      PROVE /\ AddReport(a, b)[u] \in [Counters -> Nat] \union {Absent}
            /\ \A c \in Counters :
                  Amount(AddReport(a, b), u, c) = Amount(a, u, c) + Amount(b, u, c)
    BY DEF AddReport, Maps
  <1>1. CASE b[u] = Absent
    <2>1. AddReport(a, b)[u] = a[u]
      BY <1>1 DEF AddReport
    <2>2. \A c \in Counters : Amount(a, u, c) \in Int
      BY DEF Amount, Maps
    <2>3. QED
      BY <1>1, <2>1, <2>2 DEF Amount, Maps
  <1>2. CASE b[u] # Absent
    <2>1. b[u] \in [Counters -> Nat]
      BY <1>2 DEF Maps
    <2>2. Value(a, u) \in [Counters -> Nat] /\ \A c \in Counters : Value(a, u)[c] = Amount(a, u, c)
      BY AbsentIsNone DEF Value, Amount, Maps, Zero
    <2>3. AddReport(a, b)[u] = [c \in Counters |-> Value(a, u)[c] + b[u][c]]
      BY <1>2 DEF AddReport
    <2>4. AddReport(a, b)[u] \in [Counters -> Nat]
      BY <2>1, <2>2, <2>3
    <2>5. QED
      BY <1>2, <2>2, <2>3, <2>4, AbsentIsNone DEF Amount
  <1>3. QED
    BY <1>1, <1>2

\* operator[] in a worker's map.
LEMMA LocateCells ==
  ASSUME cells \in [Workers -> Maps], NEW w \in Workers, NEW u \in Users, Locate(w, u)
  PROVE  /\ cells' \in [Workers -> Maps]
         /\ cells'[w][u] # Absent
         /\ \A x \in Workers, v \in Users : cells[x][v] # Absent => cells'[x][v] = cells[x][v]
         /\ \A x \in Workers, v \in Users, c \in Counters :
               Amount(cells'[x], v, c) = Amount(cells[x], v, c)
  <1>1. cells' = [cells EXCEPT ![w] = Located(cells[w], u)]
    BY DEF Locate
  <1>2. cells'[w] = Located(cells[w], u) /\ \A x \in Workers : x # w => cells'[x] = cells[x]
    BY <1>1
  <1>3. cells[w] \in Maps
    OBVIOUS
  <1>4. /\ Located(cells[w], u) \in Maps
        /\ Located(cells[w], u)[u] # Absent
        /\ \A v \in Users : cells[w][v] # Absent => Located(cells[w], u)[v] = cells[w][v]
        /\ \A v \in Users, c \in Counters : Amount(Located(cells[w], u), v, c) = Amount(cells[w], v, c)
    BY <1>3, LocatedMap
  <1>5. cells' \in [Workers -> Maps]
    BY <1>1, <1>4
  <1>6. QED
    BY <1>2, <1>4, <1>5

\* A worker about to increment has a user.
Counting(w) == workPc[w] \in {"req", "res", "empty"}

\* ++ on the element that is still there.
LEMMA BumpCells ==
  ASSUME StatsInv, NEW w \in Workers, NEW c \in Counters, Counting(w), Bump(w, c), ~freed[w]
  PROVE  /\ cells' \in [Workers -> Maps]
         /\ \A x \in Workers, v \in Users : cells[x][v] # Absent => cells'[x][v] # Absent
         /\ Amount(cells'[w], workUser[w], c) = Amount(cells[w], workUser[w], c) + 1
         /\ \A x \in Workers, v \in Users, d \in Counters :
               x # w \/ v # workUser[w] \/ d # c => Amount(cells'[x], v, d) = Amount(cells[x], v, d)
  <1>1. workUser[w] \in Users /\ cells[w] \in Maps /\ cells[w][workUser[w]] # Absent
    BY DEF StatsInv, Counting
  <1> DEFINE b == Bumped(cells[w], workUser[w], c)
  <1>2. /\ b \in Maps
        /\ \A v \in Users : cells[w][v] # Absent => b[v] # Absent
        /\ Amount(b, workUser[w], c) = Amount(cells[w], workUser[w], c) + 1
        /\ \A v \in Users, d \in Counters :
              v # workUser[w] \/ d # c => Amount(b, v, d) = Amount(cells[w], v, d)
    BY <1>1, BumpedMap
  <1>3. cells' = [cells EXCEPT ![w] = b]
    BY DEF Bump, Bumped
  <1>4. cells'[w] = b /\ \A x \in Workers : x # w => cells'[x] = cells[x]
    BY <1>3 DEF StatsInv
  <1> HIDE DEF b
  <1>5. cells' \in [Workers -> Maps]
    BY <1>2, <1>3 DEF StatsInv
  <1>6. QED
    BY <1>2, <1>4, <1>5

\* ++ on an element that was freed, and what else ++ does.
LEMMA BumpRest ==
  ASSUME StatsInv, NEW w \in Workers, NEW c \in Counters, Counting(w), Bump(w, c)
  PROVE  /\ freed[w] => cells' = cells /\ raced'
         /\ freed' = [freed EXCEPT ![w] = FALSE]
         /\ counted' \in [Users -> [Counters -> Nat]]
         /\ counted'[workUser[w]][c] = counted[workUser[w]][c] + 1
         /\ \A v \in Users, d \in Counters :
               v # workUser[w] \/ d # c => counted'[v][d] = counted[v][d]
  <1>1. workUser[w] \in Users
    BY DEF StatsInv, Counting
  <1>2. counted' = [counted EXCEPT ![workUser[w]][c] = @ + 1]
    BY DEF Bump
  <1>3. freed[w] => cells' = cells /\ raced'
    BY DEF Bump
  <1>4. freed' = [freed EXCEPT ![w] = FALSE]
    BY DEF Bump
  <1>5. QED
    BY <1>1, <1>2, <1>3, <1>4 DEF StatsInv

-----------------------------------------------------------------------------
(* The types of the counters                                               *)

\* An increment keeps them.
LEMMA BumpTypes ==
  ASSUME StatsInv, NEW w \in Workers, NEW c \in Counters, Counting(w), Bump(w, c)
  PROVE  /\ cells' \in [Workers -> Maps]
         /\ \A x \in Workers, v \in Users : cells[x][v] # Absent => cells'[x][v] # Absent
         /\ freed' = [freed EXCEPT ![w] = FALSE]
         /\ counted' \in [Users -> [Counters -> Nat]]
  BY BumpCells, BumpRest DEF StatsInv

\* Every step keeps the types, and the element a worker is to increment.
LEMMA StatsKept ==
  ASSUME StatsInv, [Next]_vars
  PROVE  StatsInv'
  <1> USE DEF StatsInv, WorkAt, WorkGoto, CntAt, fileVars, workerVars, RedisIncr, Counters
  <1>1. CASE UNCHANGED statsVars
    BY <1>1 DEF statsVars
  <1>2. CASE CountConstruct
    BY <1>2 DEF CountConstruct
  <1>3. CASE Restart
    BY <1>3, ClearedMap, DayAssumption DEF Restart, Workers
  <1>4. ASSUME NEW w \in Workers, NEW u \in Users, CountRequest(w, u) PROVE StatsInv'
    <2>1. /\ cells' \in [Workers -> Maps]
          /\ cells'[w][u] # Absent
          /\ \A x \in Workers, v \in Users : cells[x][v] # Absent => cells'[x][v] = cells[x][v]
      BY <1>4, LocateCells DEF CountRequest
    <2>2. redis' \in [Users -> [Counters -> Nat]]
      BY <1>4 DEF CountRequest
    <2>3. QED
      BY <1>4, <2>1, <2>2 DEF CountRequest, Locate
  <1>5. ASSUME NEW w \in Workers, CountReq(w) PROVE StatsInv'
    BY <1>5, BumpTypes DEF CountReq, Counting
  <1>6. ASSUME NEW w \in Workers, FoundResult(w) PROVE StatsInv'
    <2>1. /\ cells' \in [Workers -> Maps]
          /\ cells'[w][workUser[w]] # Absent
          /\ \A x \in Workers, v \in Users : cells[x][v] # Absent => cells'[x][v] = cells[x][v]
      BY <1>6, LocateCells DEF FoundResult
    <2>2. redis' \in [Users -> [Counters -> Nat]]
      BY <1>6 DEF FoundResult
    <2>3. QED
      BY <1>6, <2>1, <2>2 DEF FoundResult, Locate
  <1>7. ASSUME NEW w \in Workers, EmptyResult(w) PROVE StatsInv'
    BY <1>7 DEF EmptyResult
  <1>8. ASSUME NEW w \in Workers, EmptyUncounted(w) PROVE StatsInv'
    BY <1>8 DEF EmptyUncounted
  <1>9. ASSUME NEW w \in Workers, EmptyLocate(w) PROVE StatsInv'
    BY <1>9, LocateCells DEF EmptyLocate, Locate
  <1>10. ASSUME NEW w \in Workers, CountEmpty(w) PROVE StatsInv'
    BY <1>10, BumpTypes DEF CountEmpty, Counting
  <1>11. ASSUME NEW w \in Workers, CountRes(w) PROVE StatsInv'
    BY <1>11, BumpTypes DEF CountRes, Counting
  <1>12. ASSUME NEW w \in Workers, SendRespones(w) PROVE StatsInv'
    BY <1>12 DEF SendRespones
  <1>13. ASSUME NEW w \in Workers, SendFails(w) PROVE StatsInv'
    BY <1>13, LocateCells DEF SendFails, Locate
  <1>14. CASE CountOpenFile
    BY <1>14, DayAssumption DEF CountOpenFile
  <1>15. CASE CountAdd
    <2>1. cntAt \in Workers /\ cells[cntAt] \in Maps
      BY <1>15, DayAssumption DEF CountAdd, Workers
    <2>2. AddReport(sum, cells[cntAt]) \in Maps
      BY <2>1, AddedMap
    <2>3. written' = written
      BY <1>15 DEF CountAdd
    <2>4. QED
      BY <1>15, <2>2, <2>3 DEF CountAdd
  <1>16. CASE CountClear
    <2>1. cntAt \in Workers /\ cntAt + 1 \in 0 .. N
      BY <1>16, DayAssumption DEF CountClear, Workers
    <2>2. cells' \in [Workers -> Maps] /\ \A w \in Workers : w # cntAt => cells'[w] = cells[w]
      BY <1>16, <2>1, ClearedMap DEF CountClear
    <2>3. /\ freed' \in [Workers -> BOOLEAN]
          /\ \A w \in Workers : w # cntAt => freed'[w] = freed[w]
          /\ workPc[cntAt] \in {"req", "res", "empty"} => freed'[cntAt]
      <3>1. freed' = [freed EXCEPT ![cntAt] = Counting(cntAt)]
        BY <1>16 DEF CountClear, Counting
      <3>2. Counting(cntAt) \in BOOLEAN
        BY DEF Counting
      <3>3. freed'[cntAt] = Counting(cntAt)
        BY <2>1, <3>1
      <3>4. QED
        BY <2>1, <3>1, <3>2, <3>3 DEF Counting
    <2>4. /\ UNCHANGED <<sum, workPc, workUser, redis, counted, written>>
          /\ cntPc' = "add" /\ cntAt' = cntAt + 1
      BY <1>16 DEF CountClear
    <2>5. QED
      BY <2>1, <2>2, <2>3, <2>4
  <1>17. CASE CountWrite
    <2>1. UNCHANGED <<cntAt, cells, workPc, workUser, freed, redis, counted>>
      BY <1>17 DEF CountWrite
    <2>2. \A u \in Users : Value(sum, u) \in [Counters -> Nat]
      BY AbsentIsNone DEF Value, Maps
    <2>3. sum' \in {sum, Cleared} /\ sum' \in Maps
      BY <1>17, ClearedMap DEF CountWrite
    <2>4. written' \in [Users -> [Counters -> Nat]]
      <3>1. \A u \in Users, c \in Counters : written[u][c] + Value(sum, u)[c] \in Nat
        BY <2>2
      <3>2. CASE written' = [u \in Users |-> [c \in Counters |-> written[u][c] + Value(sum, u)[c]]]
        BY <3>1, <3>2
      <3>3. QED
        BY <1>17, <3>2 DEF CountWrite
    <2>5. cntPc' \in {"open", "add"}
      BY <1>17 DEF CountWrite
    <2>6. QED
      BY <2>1, <2>3, <2>4, <2>5
  <1>18. QED
    BY <1>1, <1>2, <1>3, <1>4, <1>5, <1>6, <1>7, <1>8, <1>9, <1>10, <1>11, <1>12, <1>13, <1>14,
       <1>15, <1>16, <1>17, StatsChange DEF StatsWorkerStep, CountStep

\* Nothing is counted at the start.
LEMMA StatsStart == Init => StatsInv
  BY ClearedMap, DayAssumption DEF Init, StatsInit, StatsInv, Workers, Zero

\* So the types hold in every reachable state.
LEMMA StatsAlways == Spec => []StatsInv
  BY StatsStart, StatsKept, PTL DEF Spec

-----------------------------------------------------------------------------
(* The sum over the workers, as the cardinality of a set                   *)

Heap(m) == UNION {{w} \X (1 .. m[w]) : w \in Workers}

\* What is in it.
LEMMA HeapHas ==
  ASSUME NEW m, NEW x
  PROVE  x \in Heap(m) <=> \E w \in Workers : \E i \in 1 .. m[w] : x = <<w, i>>
  BY DEF Heap

\* It is finite.
LEMMA HeapFinite ==
  ASSUME NEW m \in [Workers -> Nat]
  PROVE  IsFiniteSet(Heap(m)) /\ Cardinality(Heap(m)) \in Nat
  <1> DEFINE part == [w \in Workers |-> {w} \X (1 .. m[w])]
  <1> DEFINE parts == {{w} \X (1 .. m[w]) : w \in Workers}
  <1>1. part \in Surjection(Workers, parts)
    BY DEF Surjection
  <1>2. IsFiniteSet(Workers)
    BY FS_Interval, DayAssumption DEF Workers
  <1>3. IsFiniteSet(parts)
    BY <1>1, <1>2, FS_Surjection
  <1>4. ASSUME NEW w \in Workers PROVE IsFiniteSet({w} \X (1 .. m[w]))
    <2>1. IsFiniteSet({w})
      BY FS_Singleton
    <2>2. 1 \in Int /\ m[w] \in Int
      OBVIOUS
    <2>3. IsFiniteSet(1 .. m[w])
      BY <2>2, FS_Interval
    <2>4. QED
      BY <2>1, <2>3, FS_Product
  <1>5. IsFiniteSet(UNION parts)
    BY <1>3, <1>4, FS_UNION
  <1>6. QED
    BY <1>5, FS_CardinalityType DEF Heap

\* One worker's share of it.
LEMMA HeapShare ==
  ASSUME NEW m \in [Workers -> Nat], NEW w \in Workers
  PROVE  /\ IsFiniteSet({w} \X (1 .. m[w]))
         /\ Cardinality({w} \X (1 .. m[w])) = m[w]
         /\ m[w] <= Cardinality(Heap(m))
  <1>1. IsFiniteSet({w}) /\ Cardinality({w}) = 1
    BY FS_Singleton
  <1>2. IsFiniteSet(1 .. m[w]) /\ Cardinality(1 .. m[w]) = m[w]
    BY FS_Interval
  <1>a. /\ IsFiniteSet({w} \X (1 .. m[w]))
        /\ Cardinality({w} \X (1 .. m[w])) = Cardinality({w}) * Cardinality(1 .. m[w])
    BY <1>1, <1>2, FS_Product, Zenon
  <1>3. IsFiniteSet({w} \X (1 .. m[w])) /\ Cardinality({w} \X (1 .. m[w])) = 1 * m[w]
    BY <1>1, <1>2, <1>a
  <1>4. {w} \X (1 .. m[w]) \subseteq Heap(m)
    BY DEF Heap
  <1>5. Cardinality({w} \X (1 .. m[w])) <= Cardinality(Heap(m))
    BY <1>4, HeapFinite, FS_Subset
  <1>6. QED
    BY <1>3, <1>5

\* One more for a worker is one more in all.
LEMMA HeapGrows ==
  ASSUME NEW m \in [Workers -> Nat], NEW n \in [Workers -> Nat], NEW w \in Workers,
         n[w] = m[w] + 1, \A x \in Workers : x # w => n[x] = m[x]
  PROVE  Cardinality(Heap(n)) = Cardinality(Heap(m)) + 1
  <1>1. Heap(n) = Heap(m) \cup {<<w, n[w]>>}
    <2>1. ASSUME NEW x \in Workers, NEW i \in 1 .. n[x], <<x, i>> # <<w, n[w]>>
          PROVE  i \in 1 .. m[x]
      BY <2>1
    <2>2. ASSUME NEW x \in Workers, NEW i \in 1 .. m[x] PROVE i \in 1 .. n[x]
      OBVIOUS
    <2>3. n[w] \in 1 .. n[w]
      OBVIOUS
    <2>4. Heap(n) \subseteq Heap(m) \cup {<<w, n[w]>>}
      BY <2>1, HeapHas
    <2>5. Heap(m) \cup {<<w, n[w]>>} \subseteq Heap(n)
      BY <2>2, <2>3, HeapHas
    <2>6. QED
      BY <2>4, <2>5
  <1>2. <<w, n[w]>> \notin Heap(m)
    <2>1. n[w] \notin 1 .. m[w]
      OBVIOUS
    <2>2. QED
      BY <2>1, HeapHas
  <1>3. QED
    BY <1>1, <1>2, HeapFinite, FS_AddElement

\* A worker's share taken away.
LEMMA HeapShrinks ==
  ASSUME NEW m \in [Workers -> Nat], NEW n \in [Workers -> Nat], NEW w \in Workers,
         n[w] = 0, \A x \in Workers : x # w => n[x] = m[x]
  PROVE  Cardinality(Heap(n)) = Cardinality(Heap(m)) - m[w]
  <1> DEFINE share == {w} \X (1 .. m[w])
  <1>1. Heap(n) = Heap(m) \ share
    <2>1. ASSUME NEW x \in Workers, NEW i \in 1 .. n[x] PROVE x # w /\ i \in 1 .. m[x]
      BY <2>1
    <2>2. ASSUME NEW x \in Workers, NEW i \in 1 .. m[x], x # w PROVE i \in 1 .. n[x]
      BY <2>2
    <2>3. Heap(n) \subseteq Heap(m) \ share
      BY <2>1, HeapHas
    <2>4. Heap(m) \ share \subseteq Heap(n)
      BY <2>2, HeapHas
    <2>5. QED
      BY <2>3, <2>4
  <1>2. Heap(m) \cap share = share
    BY DEF Heap
  <1>3. Cardinality(Heap(m) \ share) = Cardinality(Heap(m)) - Cardinality(Heap(m) \cap share)
    BY HeapFinite, FS_Difference
  <1>4. QED
    BY <1>1, <1>2, <1>3, HeapShare

\* An empty sum.
LEMMA HeapEmpty ==
  ASSUME NEW m, \A w \in Workers : m[w] = 0
  PROVE  Cardinality(Heap(m)) = 0
  <1>1. Heap(m) = {}
    <2>1. \A w \in Workers : 1 .. m[w] = {}
      OBVIOUS
    <2>2. QED
      BY <2>1, HeapHas
  <1>2. QED
    BY <1>1, FS_EmptySet

-----------------------------------------------------------------------------
(* The counts                                                              *)

\* What each worker's map counts for a user.
Share(u, c) == [w \in Workers |-> Amount(cells[w], u, c)]

\* Its types, and Tally as a sum.
LEMMA Shares ==
  ASSUME StatsInv, NEW u \in Users, NEW c \in Counters
  PROVE  /\ Share(u, c) \in [Workers -> Nat]
         /\ Amount(sum, u, c) \in Nat
         /\ Tally(u, c) = Heap(Share(u, c))
         /\ Cardinality(Tally(u, c)) \in Nat
         /\ Pending(u, c) = Amount(sum, u, c) + Cardinality(Heap(Share(u, c)))
         /\ written[u][c] \in Nat /\ counted[u][c] \in Nat
  <1>1. \A m \in Maps : Amount(m, u, c) \in Nat
    BY DEF Maps, Amount
  <1>2. Share(u, c) \in [Workers -> Nat]
    BY <1>1 DEF Share, StatsInv
  <1>3. Tally(u, c) = Heap(Share(u, c))
    BY DEF Tally, Heap, Share
  <1>4. QED
    BY <1>1, <1>2, <1>3, HeapFinite DEF StatsInv, Pending

\* A step that changes no amount keeps the balance.
LEMMA CountsSame ==
  ASSUME CountInv, StatsInv,
         \A x \in Workers, v \in Users, d \in Counters :
            Amount(cells'[x], v, d) = Amount(cells[x], v, d),
         \A v \in Users, d \in Counters : Amount(sum', v, d) = Amount(sum, v, d),
         UNCHANGED <<written, counted, raced, died>>,
         \/ UNCHANGED <<cntPc, cntAt>>
         \/ cntPc # "clear" /\ cntPc' # "clear"
  PROVE  CountInv'
  <1> SUFFICES ASSUME NEW u \in Users, NEW c \in Counters
               PROVE  Pending(u, c)' = Pending(u, c) /\ AddedTwice(u, c)' = AddedTwice(u, c)
    BY DEF CountInv, Total
  <1>1. Tally(u, c)' = Tally(u, c)
    BY DEF Tally
  <1>2. Pending(u, c)' = Pending(u, c)
    BY <1>1 DEF Pending
  <1>3. cntPc = "clear" => cntAt \in Workers
    BY DayAssumption DEF StatsInv, Workers
  <1>4. AddedTwice(u, c)' = AddedTwice(u, c)
    BY <1>3 DEF AddedTwice
  <1>5. QED
    BY <1>2, <1>4

\* An increment keeps it: a count that is lost, or that the report thread is about to clear,
\* is a race.
LEMMA CountsBumped ==
  ASSUME CountInv, StatsInv, StatsInv', NEW w \in Workers, NEW d \in Counters, Counting(w),
         Bump(w, d), UNCHANGED <<cntPc, cntAt, sum, written, died>>
  PROVE  CountInv'
  <1> SUFFICES ASSUME NEW u \in Users, NEW c \in Counters
               PROVE  /\ Total(u, c)' <= counted'[u][c]
                      /\ ~raced' /\ ~died' => Total(u, c)' = counted'[u][c]
    BY DEF CountInv
  <1>1. Total(u, c) <= counted[u][c] /\ (~raced /\ ~died => Total(u, c) = counted[u][c])
    BY DEF CountInv
  <1>2. raced' = (raced \/ freed[w] \/ Visiting(w))
    BY DEF Bump
  <1>3. /\ Pending(u, c) \in Nat /\ written[u][c] \in Nat /\ counted[u][c] \in Nat
        /\ Pending(u, c)' = Amount(sum, u, c) + Cardinality(Heap(Share(u, c)'))
        /\ Pending(u, c) = Amount(sum, u, c) + Cardinality(Heap(Share(u, c)))
        /\ Amount(sum, u, c) \in Nat /\ Cardinality(Heap(Share(u, c))) \in Nat
    <2>1. /\ Amount(sum, u, c) \in Nat /\ Cardinality(Heap(Share(u, c))) \in Nat
          /\ Pending(u, c) = Amount(sum, u, c) + Cardinality(Heap(Share(u, c)))
          /\ written[u][c] \in Nat /\ counted[u][c] \in Nat
      BY Shares
    <2>2. Tally(u, c)' = Heap(Share(u, c)')
      BY DEF Tally, Heap, Share
    <2>3. Pending(u, c)' = Amount(sum, u, c) + Cardinality(Heap(Share(u, c)'))
      BY <2>2 DEF Pending
    <2>4. QED
      BY <2>1, <2>3
  <1>4. cntPc = "clear" => cntAt \in Workers
    BY DayAssumption DEF StatsInv, Workers
  <1>5. AddedTwice(u, c) \in Nat
    BY <1>4 DEF AddedTwice, Amount, StatsInv, Maps
  <1>6. Total(u, c) \in Int /\ Total(u, c)' = written[u][c] + Pending(u, c)' - AddedTwice(u, c)'
    BY <1>3, <1>5 DEF Total
  <1>7. CASE freed[w]
    <2>1. cells' = cells /\ counted'[u][c] \in {counted[u][c], counted[u][c] + 1}
      BY <1>7, BumpRest
    <2>2. Pending(u, c)' = Pending(u, c) /\ AddedTwice(u, c)' = AddedTwice(u, c)
      BY <2>1 DEF Pending, Tally, AddedTwice
    <2>3. Total(u, c)' = Total(u, c)
      BY <2>2 DEF Total
    <2>4. Total(u, c)' <= counted'[u][c]
      BY <1>1, <1>3, <1>6, <2>1, <2>3
    <2>5. raced'
      BY <1>2, <1>7
    <2>6. QED
      BY <2>4, <2>5
  <1>8. CASE ~freed[w] /\ ~(u = workUser[w] /\ c = d)
    <2>1. \A x \in Workers : Amount(cells'[x], u, c) = Amount(cells[x], u, c)
      BY <1>8, BumpCells
    <2>2. counted'[u][c] = counted[u][c]
      BY <1>8, BumpRest
    <2>3. Pending(u, c)' = Pending(u, c) /\ AddedTwice(u, c)' = AddedTwice(u, c)
      BY <1>4, <2>1 DEF Pending, Tally, AddedTwice
    <2>4. Total(u, c)' = Total(u, c)
      BY <2>3 DEF Total
    <2>5. QED
      BY <1>1, <1>2, <2>2, <2>4
  <1>9. CASE ~freed[w] /\ u = workUser[w] /\ c = d
    <2>1. /\ Amount(cells'[w], u, c) = Amount(cells[w], u, c) + 1
          /\ \A x \in Workers : x # w => Amount(cells'[x], u, c) = Amount(cells[x], u, c)
      BY <1>9, BumpCells
    <2>2. counted'[u][c] = counted[u][c] + 1
      BY <1>9, BumpRest
    <2>3. Share(u, c) \in [Workers -> Nat] /\ Share(u, c)' \in [Workers -> Nat]
      BY Shares DEF Share, StatsInv, Maps, Amount
    <2>4. Cardinality(Heap(Share(u, c)')) = Cardinality(Heap(Share(u, c))) + 1
      <3>1. /\ Share(u, c)'[w] = Share(u, c)[w] + 1
            /\ \A x \in Workers : x # w => Share(u, c)'[x] = Share(u, c)[x]
        BY <2>1 DEF Share
      <3>2. QED
        BY <2>3, <3>1, HeapGrows
    <2>5. Pending(u, c)' = Pending(u, c) + 1
      BY <1>3, <2>4
    <2>6. CASE Visiting(w)
      <3>1. AddedTwice(u, c)' = AddedTwice(u, c) + 1
        BY <2>1, <2>6 DEF AddedTwice, Visiting
      <3>2. Total(u, c)' = Total(u, c)
        BY <1>3, <1>5, <1>6, <2>5, <3>1 DEF Total
      <3>3. Total(u, c)' <= counted'[u][c]
        BY <1>1, <1>3, <1>6, <2>2, <3>2
      <3>4. raced'
        BY <1>2, <2>6
      <3>5. QED
        BY <3>3, <3>4
    <2>7. CASE ~Visiting(w)
      <3>1. AddedTwice(u, c)' = AddedTwice(u, c)
        BY <1>4, <2>1, <2>7 DEF AddedTwice, Visiting
      <3>2. Total(u, c)' = Total(u, c) + 1
        BY <1>3, <1>5, <1>6, <2>5, <3>1 DEF Total
      <3>3. Total(u, c)' <= counted'[u][c]
        BY <1>1, <1>3, <1>6, <2>2, <3>2
      <3>4. ~raced' /\ ~died' => ~raced /\ ~died
        BY <1>2
      <3>5. QED
        BY <1>1, <2>2, <3>2, <3>3, <3>4
    <2>8. QED
      BY <2>6, <2>7
  <1>10. QED
    BY <1>7, <1>8, <1>9

\* The addition of a worker's map: its amounts are in two places, and counted once.
LEMMA CountsAdded ==
  ASSUME CountInv, StatsInv, CountAdd, died' = died
  PROVE  CountInv'
  <1> SUFFICES ASSUME NEW u \in Users, NEW c \in Counters
               PROVE  Total(u, c)' = Total(u, c)
    BY DEF CountInv, CountAdd, CntAt, fileVars, workerVars
  <1>1. cntAt \in Workers /\ cells[cntAt] \in Maps /\ sum \in Maps
    BY DayAssumption DEF StatsInv, CountAdd, CntAt, Workers
  <1>2. Amount(sum', u, c) = Amount(sum, u, c) + Amount(cells[cntAt], u, c)
    BY <1>1, AddedMap DEF CountAdd
  <1>3. Amount(cells[cntAt], u, c) \in Nat /\ Amount(sum, u, c) \in Nat
    BY <1>1 DEF Amount, Maps
  <1>4. UNCHANGED <<cells, cntAt, written>> /\ cntPc = "add" /\ cntPc' = "clear"
    BY DEF CountAdd, CntAt, fileVars, workerVars
  <1>5. Cardinality(Tally(u, c)) \in Nat /\ Cardinality(Tally(u, c)') = Cardinality(Tally(u, c))
    BY <1>4, Shares DEF Tally
  <1>6. Pending(u, c)' = Pending(u, c) + Amount(cells[cntAt], u, c) /\ Pending(u, c) \in Nat
    BY <1>2, <1>3, <1>5 DEF Pending
  <1>7. AddedTwice(u, c)' = Amount(cells[cntAt], u, c) /\ AddedTwice(u, c) = 0
    BY <1>4 DEF AddedTwice
  <1>8. written[u][c] \in Nat
    BY Shares
  <1>9. QED
    BY <1>3, <1>4, <1>6, <1>7, <1>8 DEF Total

\* The clearing of that map leaves each of them in one place.
LEMMA CountsCleared ==
  ASSUME CountInv, StatsInv, StatsInv', CountClear, died' = died
  PROVE  CountInv'
  <1> SUFFICES ASSUME NEW u \in Users, NEW c \in Counters
               PROVE  Total(u, c)' = Total(u, c)
    BY DEF CountInv, CountClear, CntAt, fileVars
  <1>1. cntAt \in Workers
    BY DayAssumption DEF StatsInv, CountClear, CntAt, Workers
  <1>2. UNCHANGED <<sum, written>> /\ cntPc = "clear" /\ cntPc' = "add"
    BY DEF CountClear, CntAt, fileVars
  <1>3. cells'[cntAt] = Cleared /\ \A x \in Workers : x # cntAt => cells'[x] = cells[x]
    BY <1>1 DEF CountClear, StatsInv
  <1> DEFINE m == Share(u, c)
             n == [w \in Workers |-> Amount(cells'[w], u, c)]
  <1>4. m \in [Workers -> Nat] /\ n \in [Workers -> Nat]
    <2>1. m \in [Workers -> Nat]
      BY Shares
    <2>2. \A w \in Workers : cells'[w] \in Maps
      BY DEF StatsInv
    <2>3. QED
      BY <2>1, <2>2 DEF Maps, Amount
  <1>5. m[cntAt] = Amount(cells[cntAt], u, c) /\ n[cntAt] = 0
    BY <1>1, <1>3, ClearedMap DEF Share
  <1>6. \A x \in Workers : x # cntAt => n[x] = m[x]
    BY <1>3 DEF Share
  <1>7. Tally(u, c) = Heap(m) /\ Tally(u, c)' = Heap(n)
    BY DEF Tally, Heap, Share
  <1> HIDE DEF m, n
  <1>8. Cardinality(Heap(n)) = Cardinality(Heap(m)) - m[cntAt]
    BY <1>1, <1>4, <1>5, <1>6, HeapShrinks
  <1>9. AddedTwice(u, c)' = 0 /\ AddedTwice(u, c) = m[cntAt]
    BY <1>2, <1>5 DEF AddedTwice
  <1>10. /\ Amount(sum, u, c) \in Nat /\ Cardinality(Heap(m)) \in Nat
         /\ m[cntAt] \in Nat /\ written[u][c] \in Nat
    BY <1>1, <1>4, Shares, HeapFinite
  <1>11. /\ Pending(u, c) = Amount(sum, u, c) + Cardinality(Heap(m))
         /\ Pending(u, c)' = Amount(sum, u, c) + Cardinality(Heap(n))
    BY <1>2, <1>7 DEF Pending
  <1>12. QED
    BY <1>2, <1>8, <1>9, <1>10, <1>11 DEF Total

\* The sums go to the status file.
LEMMA CountsWritten ==
  ASSUME CountInv, StatsInv, CountWrite, died' = died
  PROVE  CountInv'
  <1>1. UNCHANGED <<cells, cntAt, counted, raced>> /\ cntPc = "add" /\ cntPc' # "clear"
    BY DEF CountWrite, CntAt, workerVars
  <1>2. CASE UNCHANGED <<written, sum>>
    BY <1>1, <1>2, CountsSame
  <1>3. CASE /\ written' = [u \in Users |-> [c \in Counters |-> written[u][c] + Value(sum, u)[c]]]
             /\ sum' = Cleared
    <2> SUFFICES ASSUME NEW u \in Users, NEW c \in Counters
                 PROVE  Total(u, c)' = Total(u, c)
      BY <1>1 DEF CountInv
    <2>1. written'[u][c] = written[u][c] + Amount(sum, u, c)
      BY <1>3 DEF Value, Amount, Zero
    <2>2. Amount(sum', u, c) = 0
      BY <1>3, ClearedMap
    <2>3. Tally(u, c)' = Tally(u, c) /\ AddedTwice(u, c)' = 0 /\ AddedTwice(u, c) = 0
      BY <1>1 DEF Tally, AddedTwice
    <2>4. /\ Amount(sum, u, c) \in Nat /\ Cardinality(Tally(u, c)) \in Nat /\ written[u][c] \in Nat
      BY Shares
    <2>5. Pending(u, c)' = Cardinality(Tally(u, c))
      BY <2>2, <2>3, <2>4 DEF Pending
    <2>6. QED
      BY <2>1, <2>3, <2>4, <2>5 DEF Total, Pending
  <1>4. QED
    BY <1>2, <1>3 DEF CountWrite

\* A new process has lost what was not written, and says no more than was counted.
LEMMA CountsRestarted ==
  ASSUME CountInv, StatsInv, Restart
  PROVE  CountInv'
  <1> SUFFICES ASSUME NEW u \in Users, NEW c \in Counters
               PROVE  Total(u, c)' <= counted'[u][c]
    BY DEF CountInv, Restart
  <1>1. /\ UNCHANGED <<written, counted>> /\ sum' = Cleared /\ cntPc' = "off"
        /\ cells' = [w \in Workers |-> Cleared]
    BY DEF Restart
  <1>2. Tally(u, c)' = Heap([w \in Workers |-> 0])
    BY <1>1, ClearedMap DEF Tally, Heap
  <1>3. Cardinality(Tally(u, c)') = 0
    BY <1>2, HeapEmpty
  <1>4. Amount(sum', u, c) = 0 /\ AddedTwice(u, c)' = 0
    BY <1>1, ClearedMap DEF AddedTwice
  <1>5. Pending(u, c)' = 0
    BY <1>3, <1>4 DEF Pending
  <1>6. written[u][c] \in Nat /\ counted[u][c] \in Nat /\ Amount(sum, u, c) \in Nat
    BY Shares
  <1>7. AddedTwice(u, c) <= Cardinality(Tally(u, c)) /\ AddedTwice(u, c) \in Nat
    <2>1. CASE cntPc = "clear"
      <3>1. cntAt \in Workers
        BY <2>1, DayAssumption DEF StatsInv, Workers
      <3>2. Share(u, c)[cntAt] <= Cardinality(Heap(Share(u, c))) /\ Share(u, c)[cntAt] \in Nat
        BY <3>1, Shares, HeapShare
      <3>3. QED
        BY <2>1, <3>1, <3>2, Shares DEF AddedTwice, Share
    <2>2. CASE cntPc # "clear"
      BY <2>2, Shares DEF AddedTwice
    <2>3. QED
      BY <2>1, <2>2
  <1>8. Cardinality(Tally(u, c)) \in Nat
    BY Shares
  <1>9. Total(u, c) <= counted[u][c]
    BY DEF CountInv
  <1>10. written[u][c] <= Total(u, c) /\ Total(u, c) \in Int
    BY <1>6, <1>7, <1>8 DEF Total, Pending
  <1>11. Total(u, c)' = written[u][c]
    BY <1>1, <1>4, <1>5, <1>6 DEF Total
  <1>12. QED
    BY <1>1, <1>6, <1>9, <1>10, <1>11

\* Every step keeps the balance.
LEMMA CountsKept ==
  ASSUME CountInv, StatsInv, StatsInv', [Next]_vars
  PROVE  CountInv'
  <1> USE DEF WorkAt, CntAt, fileVars, workerVars, Counting
  <1>1. Restart \/ died' = died
    BY DEF Next, vars, LogPart, StartLog, StartCount, StartHive, Request, WorkPart, CountPart,
           Record, HivePart, ClockTicks
  <1>2. CASE Restart
    BY <1>2, CountsRestarted
  <1>3. SUFFICES ASSUME died' = died, ~Restart PROVE CountInv'
    BY <1>1, <1>2
  <1>4. CASE UNCHANGED statsVars
    BY <1>3, <1>4, CountsSame DEF statsVars
  <1>5. CASE CountConstruct
    BY <1>3, <1>5, CountsSame DEF CountConstruct
  <1>6. ASSUME NEW w \in Workers, NEW u \in Users, Locate(w, u),
               UNCHANGED <<cntPc, cntAt, sum, fileVars, counted, raced>>
        PROVE  CountInv'
    <2>1. \A x \in Workers, v \in Users, c \in Counters :
             Amount(cells'[x], v, c) = Amount(cells[x], v, c)
      BY <1>6, LocateCells DEF StatsInv
    <2>2. QED
      BY <1>3, <1>6, <2>1, CountsSame
  <1>7. ASSUME NEW w \in Workers, NEW u \in Users, CountRequest(w, u) PROVE CountInv'
    BY <1>6, <1>7 DEF CountRequest
  <1>8. ASSUME NEW w \in Workers, FoundResult(w) \/ EmptyLocate(w) \/ SendFails(w) PROVE CountInv'
    <2>1. workUser[w] \in Users
      BY <1>8 DEF StatsInv, FoundResult, EmptyLocate, SendFails
    <2>2. QED
      BY <1>6, <1>8, <2>1 DEF FoundResult, EmptyLocate, SendFails
  <1>9. ASSUME NEW w \in Workers, EmptyResult(w) \/ EmptyUncounted(w) \/ SendRespones(w)
        PROVE  CountInv'
    BY <1>3, <1>9, CountsSame DEF EmptyResult, EmptyUncounted, SendRespones
  <1>10. ASSUME NEW w \in Workers, CountReq(w) PROVE CountInv'
    BY <1>3, <1>10, CountsBumped DEF CountReq, Counters
  <1>11. ASSUME NEW w \in Workers, CountEmpty(w) PROVE CountInv'
    BY <1>3, <1>11, CountsBumped DEF CountEmpty, Counters
  <1>12. ASSUME NEW w \in Workers, CountRes(w) PROVE CountInv'
    BY <1>3, <1>12, CountsBumped DEF CountRes, Counters
  <1>13. CASE CountOpenFile
    BY <1>3, <1>13, CountsSame DEF CountOpenFile
  <1>14. CASE CountAdd
    BY <1>3, <1>14, CountsAdded
  <1>15. CASE CountClear
    BY <1>3, <1>15, CountsCleared
  <1>16. CASE CountWrite
    BY <1>3, <1>16, CountsWritten
  <1>17. QED
    BY <1>3, <1>4, <1>5, <1>7, <1>8, <1>9, <1>10, <1>11, <1>12, <1>13, <1>14, <1>15, <1>16,
       StatsChange DEF StatsWorkerStep, CountStep

\* Nothing is counted at the start.
LEMMA CountsStart == Init => CountInv
  <1> SUFFICES ASSUME Init, NEW u \in Users, NEW c \in Counters
               PROVE  Total(u, c) = 0 /\ counted[u][c] = 0
    BY DEF CountInv
  <1> USE DEF Init, StatsInit
  <1>1. Tally(u, c) = Heap([w \in Workers |-> 0])
    BY ClearedMap DEF Tally, Heap
  <1>2. Cardinality(Tally(u, c)) = 0
    BY <1>1, HeapEmpty
  <1>3. Amount(sum, u, c) = 0 /\ AddedTwice(u, c) = 0
    BY ClearedMap DEF AddedTwice
  <1>4. written[u][c] = 0 /\ counted[u][c] = 0
    BY DEF Zero
  <1>5. QED
    BY <1>2, <1>3, <1>4 DEF Total, Pending

\* The status files never say more than was counted, and exactly what was counted as long as no
\* worker counted while its map was added and cleared and the process has not died.
THEOREM CountsAreReported == Spec => []CountsReported
  <1>1. StatsInv /\ CountInv => CountsReported
    <2> SUFFICES ASSUME StatsInv, CountInv PROVE CountsReported
      OBVIOUS
    <2>1. NeverOvercounted
      BY DEF CountInv, Total, NeverOvercounted
    <2>2. ExactUnlessRaced
      <3> SUFFICES ASSUME ~raced, ~died, cntPc # "clear", NEW u \in Users, NEW c \in Counters
                   PROVE  written[u][c] + Pending(u, c) = counted[u][c]
        BY DEF ExactUnlessRaced
      <3>1. Total(u, c) = counted[u][c] /\ AddedTwice(u, c) = 0
        BY DEF CountInv, AddedTwice
      <3>2. written[u][c] \in Nat /\ Pending(u, c) \in Nat
        <4>1. /\ written[u][c] \in Nat /\ Amount(sum, u, c) \in Nat
              /\ Cardinality(Tally(u, c)) \in Nat
          BY Shares
        <4>2. QED
          BY <4>1 DEF Pending
      <3>3. QED
        BY <3>1, <3>2 DEF Total
    <2>3. QED
      BY <2>1, <2>2 DEF CountsReported
  <1>2. StatsInv /\ StatsInv' /\ CountInv /\ [Next]_vars => CountInv'
    BY CountsKept
  <1>3. QED
    BY <1>1, <1>2, CountsStart, StatsAlways, PTL DEF Spec

-----------------------------------------------------------------------------
(* The requests in Redis                                                   *)

\* A user's requests that run are finitely many.
LEMMA InFlightFinite ==
  ASSUME NEW u
  PROVE  IsFiniteSet(InFlight(u)) /\ Cardinality(InFlight(u)) \in Nat
  <1>1. IsFiniteSet(Workers)
    BY FS_Interval, DayAssumption DEF Workers
  <1>2. InFlight(u) \subseteq Workers
    BY DEF InFlight
  <1>3. QED
    BY <1>1, <1>2, FS_Subset, FS_CardinalityType

\* The balance of a user.
Settled(u) == redis[u]["req"] = redis[u]["res"] + redis[u]["empty"] + Cardinality(InFlight(u))

\* A step of one worker that enters or leaves no count keeps every balance.
LEMMA SettledSame ==
  ASSUME NEW u \in Users, Settled(u), redis'[u] = redis[u],
         \A w \in Workers : w \in InFlight(u)' <=> w \in InFlight(u)
  PROVE  Settled(u)'
  <1>1. InFlight(u)' = InFlight(u)
    BY DEF InFlight
  <1>2. QED
    BY <1>1 DEF Settled

\* A request that begins.
LEMMA SettledBegins ==
  ASSUME StatsInv, NEW w \in Workers, NEW v \in Users, workPc[w] = "idle",
         RedisIncr(v, "req"),
         workPc' = [workPc EXCEPT ![w] = "req"], workUser' = [workUser EXCEPT ![w] = v],
         NEW u \in Users, Settled(u)
  PROVE  Settled(u)'
  <1>1. CASE u # v
    <2>1. redis'[u] = redis[u]
      BY <1>1 DEF RedisIncr, StatsInv
    <2>2. \A x \in Workers : x \in InFlight(u)' <=> x \in InFlight(u)
      BY <1>1 DEF InFlight, StatsInv
    <2>3. QED
      BY <2>1, <2>2, SettledSame
  <1>2. CASE u = v
    <2>1. InFlight(u)' = InFlight(u) \cup {w} /\ w \notin InFlight(u)
      BY <1>2 DEF InFlight, StatsInv
    <2>2. Cardinality(InFlight(u)') = Cardinality(InFlight(u)) + 1
      BY <2>1, InFlightFinite, FS_AddElement
    <2>3. /\ redis'[u]["req"] = redis[u]["req"] + 1
          /\ redis'[u]["res"] = redis[u]["res"] /\ redis'[u]["empty"] = redis[u]["empty"]
      BY <1>2 DEF RedisIncr, StatsInv, Counters
    <2>4. redis[u]["res"] \in Nat /\ redis[u]["empty"] \in Nat
      BY DEF StatsInv, Counters
    <2>5. QED
      BY <2>2, <2>3, <2>4, InFlightFinite DEF Settled
  <1>3. QED
    BY <1>1, <1>2

\* A request that ends with a result or an empty result.
LEMMA SettledEnds ==
  ASSUME StatsInv, NEW w \in Workers, workPc[w] = "run", NEW c \in {"res", "empty"},
         RedisIncr(workUser[w], c), NEW l \in {"res", "find"},
         workPc' = [workPc EXCEPT ![w] = l], workUser' = workUser,
         NEW u \in Users, Settled(u)
  PROVE  Settled(u)'
  <1>1. CASE u # workUser[w]
    <2>1. redis'[u] = redis[u]
      BY <1>1 DEF RedisIncr, StatsInv
    <2>2. \A x \in Workers : x \in InFlight(u)' <=> x \in InFlight(u)
      BY <1>1 DEF InFlight, StatsInv
    <2>3. QED
      BY <2>1, <2>2, SettledSame
  <1>2. CASE u = workUser[w]
    <2>1. InFlight(u)' = InFlight(u) \ {w} /\ w \in InFlight(u)
      BY <1>2 DEF InFlight, StatsInv
    <2>2. Cardinality(InFlight(u)') = Cardinality(InFlight(u)) - 1
      BY <2>1, InFlightFinite, FS_RemoveElement
    <2>3. redis'[u]["req"] = redis[u]["req"]
      BY <1>2 DEF RedisIncr, StatsInv, Counters
    <2>4. redis'[u]["res"] + redis'[u]["empty"] = redis[u]["res"] + redis[u]["empty"] + 1
      BY <1>2 DEF RedisIncr, StatsInv, Counters
    <2>5. /\ redis[u]["res"] \in Nat /\ redis[u]["empty"] \in Nat
          /\ redis'[u]["res"] \in Nat /\ redis'[u]["empty"] \in Nat
      BY <1>2 DEF RedisIncr, StatsInv, Counters
    <2>6. QED
      BY <2>2, <2>3, <2>4, <2>5, InFlightFinite DEF Settled
  <1>3. QED
    BY <1>1, <1>2

\* Every step keeps the balances, and a worker's element in its map, while no map is cleared
\* under a request.
LEMMA SettledKept ==
  ASSUME SettledInv, StatsInv, StatsInv', [Next]_vars
  PROVE  SettledInv'
  <1> USE DEF WorkAt, WorkGoto, CntAt, fileVars, workerVars, Counting
  <1>1. Restart \/ died' = died
    BY DEF Next, vars, LogPart, StartLog, StartCount, StartHive, Request, WorkPart, CountPart,
           Record, HivePart, ClockTicks
  <1>2. CASE Restart
    BY <1>2 DEF Restart, SettledInv
  <1>3. SUFFICES ASSUME died' = died, ~Restart, ~cleared', ~died PROVE SettledInv'
    BY <1>1, <1>2 DEF SettledInv
  <1> DEFINE Has(w) == workPc[w] # "idle" => cells[w][workUser[w]] # Absent
             Good == /\ \A w \in Workers : Has(w)
                     /\ \A u \in Users : Settled(u)
  <1>4. ~cleared => Good
    BY <1>3 DEF SettledInv, Settled
  <1>5. SUFFICES ASSUME ~cleared => Good PROVE Good'
    BY <1>3, <1>4 DEF SettledInv, Settled
  <1>6. CASE UNCHANGED statsVars
    BY <1>3, <1>5, <1>6 DEF statsVars, Settled, InFlight
  <1>7. CASE CountConstruct \/ CountOpenFile \/ CountAdd \/ CountWrite
    <2>1. UNCHANGED <<cells, workPc, workUser, redis, cleared>>
      BY <1>7 DEF CountConstruct, CountOpenFile, CountAdd, CountWrite
    <2>2. QED
      BY <1>3, <1>5, <2>1 DEF Settled, InFlight
  <1>8. ASSUME NEW w \in Workers, NEW u \in Users, CountRequest(w, u) PROVE Good'
    <2>1. cleared' = cleared /\ workPc[w] = "idle" /\ Locate(w, u) /\ RedisIncr(u, "req")
      BY <1>8 DEF CountRequest
    <2>2. workPc' = [workPc EXCEPT ![w] = "req"] /\ workUser' = [workUser EXCEPT ![w] = u]
      BY <1>8 DEF CountRequest
    <2>3. \A v \in Users : Settled(v)'
      BY <1>3, <1>5, <2>1, <2>2, SettledBegins
    <2>4. /\ cells'[w][u] # Absent
          /\ \A x \in Workers, v \in Users : cells[x][v] # Absent => cells'[x][v] = cells[x][v]
      BY <2>1, LocateCells DEF StatsInv
    <2>5. ASSUME NEW x \in Workers PROVE Has(x)'
      <3>1. CASE x = w
        BY <2>2, <2>4, <3>1 DEF StatsInv
      <3>2. CASE x # w
        <4>1. workPc'[x] = workPc[x] /\ workUser'[x] = workUser[x]
          BY <2>2, <3>2 DEF StatsInv
        <4>2. workPc[x] # "idle" => workUser[x] \in Users /\ cells[x][workUser[x]] # Absent
          BY <1>3, <1>5, <2>1 DEF StatsInv
        <4>3. QED
          BY <2>4, <4>1, <4>2
      <3>3. QED
        BY <3>1, <3>2
    <2>6. QED
      BY <2>3, <2>5
  <1>9. ASSUME NEW w \in Workers, FoundResult(w) PROVE Good'
    <2>1. /\ cleared' = cleared /\ workPc[w] = "run" /\ Locate(w, workUser[w])
          /\ RedisIncr(workUser[w], "res")
          /\ workPc' = [workPc EXCEPT ![w] = "res"] /\ workUser' = workUser
      BY <1>9 DEF FoundResult
    <2>2. \A v \in Users : Settled(v)'
      BY <1>3, <1>5, <2>1, SettledEnds
    <2>3. workUser[w] \in Users
      BY <2>1 DEF StatsInv
    <2>4. /\ cells'[w][workUser[w]] # Absent
          /\ \A x \in Workers, v \in Users : cells[x][v] # Absent => cells'[x][v] = cells[x][v]
      BY <2>1, <2>3, LocateCells DEF StatsInv
    <2>5. \A x \in Workers : Has(x)'
      BY <1>3, <1>5, <2>1, <2>4 DEF StatsInv
    <2>6. QED
      BY <2>2, <2>5
  <1>10. ASSUME NEW w \in Workers, EmptyResult(w) PROVE Good'
    <2>1. /\ cleared' = cleared /\ workPc[w] = "run" /\ cells' = cells
          /\ RedisIncr(workUser[w], "empty")
          /\ workPc' = [workPc EXCEPT ![w] = "find"] /\ workUser' = workUser
      BY <1>10 DEF EmptyResult
    <2>2. \A v \in Users : Settled(v)'
      BY <1>3, <1>5, <2>1, SettledEnds
    <2>3. \A x \in Workers : Has(x)'
      BY <1>3, <1>5, <2>1 DEF StatsInv
    <2>4. QED
      BY <2>2, <2>3
  <1>11. ASSUME NEW w \in Workers, EmptyUncounted(w) PROVE Good'
    BY <1>3, <1>5, <1>11 DEF EmptyUncounted
  <1>12. ASSUME NEW w \in Workers, EmptyLocate(w) \/ SendFails(w) PROVE Good'
    <2>1. /\ cleared' = cleared /\ workPc[w] \in {"find", "send"} /\ Locate(w, workUser[w])
          /\ redis' = redis
          /\ workPc' = [workPc EXCEPT ![w] = "empty"] /\ workUser' = workUser
      BY <1>12 DEF EmptyLocate, SendFails
    <2>2. \A u \in Users, x \in Workers : x \in InFlight(u)' <=> x \in InFlight(u)
      BY <2>1 DEF InFlight, StatsInv
    <2>3. \A u \in Users : Settled(u)'
      BY <1>3, <1>5, <2>1, <2>2, SettledSame
    <2>4. workUser[w] \in Users
      BY <2>1 DEF StatsInv
    <2>5. \A x \in Workers, v \in Users : cells[x][v] # Absent => cells'[x][v] = cells[x][v]
      BY <2>1, <2>4, LocateCells DEF StatsInv
    <2>6. \A x \in Workers : Has(x)'
      BY <1>3, <1>5, <2>1, <2>5 DEF StatsInv
    <2>7. QED
      BY <2>3, <2>6
  <1>13. ASSUME NEW w \in Workers, SendRespones(w) PROVE Good'
    <2>1. /\ cleared' = cleared /\ workPc[w] = "send" /\ UNCHANGED <<cells, redis>>
          /\ workPc' = [workPc EXCEPT ![w] = "idle"]
          /\ workUser' = [workUser EXCEPT ![w] = NoUser]
      BY <1>13 DEF SendRespones
    <2>2. \A u \in Users, x \in Workers : x \in InFlight(u)' <=> x \in InFlight(u)
      BY <2>1 DEF InFlight, StatsInv
    <2>3. \A u \in Users : Settled(u)'
      BY <1>3, <1>5, <2>1, <2>2, SettledSame
    <2>4. \A x \in Workers : Has(x)'
      BY <1>3, <1>5, <2>1 DEF StatsInv
    <2>5. QED
      BY <2>3, <2>4
  <1>14. ASSUME NEW w \in Workers, NEW c \in Counters, Counting(w), Bump(w, c),
                UNCHANGED <<redis, cleared>>,
                \/ /\ workPc[w] = "req" /\ workPc' = [workPc EXCEPT ![w] = "run"]
                   /\ workUser' = workUser
                \/ /\ workPc[w] = "res" /\ workPc' = [workPc EXCEPT ![w] = "send"]
                   /\ workUser' = workUser
                \/ /\ workPc[w] = "empty" /\ workPc' = [workPc EXCEPT ![w] = "idle"]
                   /\ workUser' = [workUser EXCEPT ![w] = NoUser]
         PROVE  Good'
    <2>1. \A u \in Users, x \in Workers : x \in InFlight(u)' <=> x \in InFlight(u)
      BY <1>14 DEF InFlight, StatsInv
    <2>2. \A u \in Users : Settled(u)'
      BY <1>3, <1>5, <1>14, <2>1, SettledSame
    <2>3. \A x \in Workers, v \in Users : cells[x][v] # Absent => cells'[x][v] # Absent
      BY <1>14, BumpTypes
    <2>4. \A x \in Workers : Has(x)'
      BY <1>3, <1>5, <1>14, <2>3 DEF StatsInv
    <2>5. QED
      BY <2>2, <2>4
  <1>15. ASSUME NEW w \in Workers, CountReq(w) PROVE Good'
    BY <1>14, <1>15 DEF CountReq, Counters
  <1>16. ASSUME NEW w \in Workers, CountEmpty(w) PROVE Good'
    BY <1>14, <1>16 DEF CountEmpty, Counters
  <1>17. ASSUME NEW w \in Workers, CountRes(w) PROVE Good'
    BY <1>14, <1>17 DEF CountRes, Counters
  <1>18. CASE CountClear
    <2>1. ~cleared /\ workPc[cntAt] = "idle" /\ UNCHANGED <<workPc, workUser, redis>>
      BY <1>3, <1>18 DEF CountClear
    <2>2. \A x \in Workers : x # cntAt => cells'[x] = cells[x]
      BY <1>18 DEF CountClear, StatsInv
    <2>3. QED
      BY <1>5, <2>1, <2>2 DEF Settled, InFlight
  <1>19. QED
    BY <1>3, <1>6, <1>7, <1>8, <1>9, <1>10, <1>11, <1>12, <1>13, <1>15, <1>16, <1>17, <1>18,
       StatsChange DEF StatsWorkerStep, CountStep

\* In Redis every request of a user is a result, an empty result or still runs, unless the
\* worker's map was cleared under it or the process died.
THEOREM EmptyIsSettled == Spec => []EmptySettled
  <1>1. Init => SettledInv
    <2> SUFFICES ASSUME Init, NEW u \in Users
                 PROVE  redis[u]["req"] = redis[u]["res"] + redis[u]["empty"]
                                          + Cardinality(InFlight(u))
      BY DEF SettledInv, Init, StatsInit
    <2>1. InFlight(u) = {}
      BY DEF InFlight, Init, StatsInit
    <2>2. Cardinality(InFlight(u)) = 0
      BY <2>1, FS_EmptySet
    <2>3. QED
      BY <2>2 DEF Init, StatsInit, Zero, Counters
  <1>2. StatsInv /\ StatsInv' /\ SettledInv /\ [Next]_vars => SettledInv'
    BY SettledKept
  <1>3. SettledInv => EmptySettled
    BY DEF SettledInv, EmptySettled
  <1>4. QED
    BY <1>1, <1>2, <1>3, StatsAlways, PTL DEF Spec

-----------------------------------------------------------------------------
(* The records of the hive log                                             *)

\* A record pushed is the last.
LEMMA PushedLast ==
  ASSUME NEW out \in Seq(Nat), NEW que \in Seq(Nat), NEW n \in Nat
  PROVE  /\ Append(que, n + 1) \in Seq(Nat)
         /\ InOrder(out, que, n) => InOrder(out, Append(que, n + 1), n + 1)
         /\ Exact(out, que, n) => Exact(out, Append(que, n + 1), n + 1)
  <1> DEFINE q == Append(que, n + 1)
  <1>1. /\ q \in Seq(Nat) /\ Len(q) = Len(que) + 1
        /\ \A j \in 1 .. Len(que) : q[j] = que[j]
        /\ q[Len(que) + 1] = n + 1
    OBVIOUS
  <1>2. Len(que) \in Nat /\ Len(out) \in Nat
    OBVIOUS
  <1>3. /\ \A i \in 1 .. Len(out) : out[i] \in Nat
        /\ \A j \in 1 .. Len(que) : que[j] \in Nat
    OBVIOUS
  <1> HIDE DEF q
  <1>4. \A j \in 1 .. Len(q) : j \in 1 .. Len(que) \/ j = Len(que) + 1
    BY <1>1, <1>2
  <1>5. ASSUME InOrder(out, que, n) PROVE InOrder(out, q, n + 1)
    <2>1. ASSUME NEW i \in 1 .. Len(q), NEW j \in 1 .. Len(q), i < j PROVE q[i] < q[j]
      <3>1. i \in 1 .. Len(que) /\ q[i] = que[i] /\ que[i] <= n /\ que[i] \in Nat
        BY <1>1, <1>2, <1>3, <1>4, <1>5, <2>1 DEF InOrder
      <3>2. CASE j \in 1 .. Len(que)
        <4>1. q[j] = que[j] /\ que[i] < que[j]
          BY <1>1, <1>5, <2>1, <3>1, <3>2 DEF InOrder
        <4>2. QED
          BY <3>1, <4>1
      <3>3. CASE j = Len(que) + 1
        BY <1>1, <3>1, <3>3
      <3>4. QED
        BY <1>4, <3>2, <3>3
    <2>2. ASSUME NEW i \in 1 .. Len(out), NEW j \in 1 .. Len(q) PROVE out[i] < q[j]
      <3>1. out[i] <= n /\ out[i] \in Nat
        BY <1>3, <1>5 DEF InOrder
      <3>2. CASE j \in 1 .. Len(que)
        BY <1>1, <1>5, <3>2 DEF InOrder
      <3>3. CASE j = Len(que) + 1
        BY <1>1, <3>1, <3>3
      <3>4. QED
        BY <1>4, <3>2, <3>3
    <2>3. ASSUME NEW i \in 1 .. Len(out) PROVE out[i] <= n + 1
      <3>1. out[i] <= n /\ out[i] \in Nat
        BY <1>3, <1>5 DEF InOrder
      <3>2. QED
        BY <3>1
    <2>4. ASSUME NEW j \in 1 .. Len(q) PROVE q[j] <= n + 1
      <3>1. CASE j \in 1 .. Len(que)
        <4>1. q[j] = que[j] /\ que[j] <= n /\ que[j] \in Nat
          BY <1>1, <1>3, <1>5, <3>1 DEF InOrder
        <4>2. QED
          BY <4>1
      <3>2. CASE j = Len(que) + 1
        BY <1>1, <3>2
      <3>3. QED
        BY <1>4, <3>1, <3>2
    <2>5. \A i, j \in 1 .. Len(out) : i < j => out[i] < out[j]
      BY <1>5 DEF InOrder
    <2>6. QED
      BY <2>1, <2>2, <2>3, <2>4, <2>5 DEF InOrder
  <1>6. ASSUME Exact(out, que, n) PROVE Exact(out, q, n + 1)
    <2>1. n = Len(out) + Len(que) /\ n + 1 = Len(out) + Len(q)
      BY <1>1, <1>2, <1>6 DEF Exact
    <2>2. ASSUME NEW j \in 1 .. Len(q) PROVE q[j] = Len(out) + j
      <3>1. CASE j \in 1 .. Len(que)
        BY <1>1, <1>6, <3>1 DEF Exact
      <3>2. CASE j = Len(que) + 1
        BY <1>1, <1>2, <2>1, <3>2
      <3>3. QED
        BY <1>4, <3>1, <3>2
    <2>3. \A i \in 1 .. Len(out) : out[i] = i
      BY <1>6 DEF Exact
    <2>4. QED
      BY <2>1, <2>2, <2>3 DEF Exact
  <1>7. QED
    BY <1>1, <1>5, <1>6 DEF q

\* A record taken from the queue follows all that were written.
LEMMA DrainedNext ==
  ASSUME NEW out \in Seq(Nat), NEW que \in Seq(Nat), NEW n \in Nat, que # <<>>
  PROVE  /\ Tail(que) \in Seq(Nat) /\ Append(out, Head(que)) \in Seq(Nat)
         /\ InOrder(out, que, n) => InOrder(out, Tail(que), n)
         /\ InOrder(out, que, n) => InOrder(Append(out, Head(que)), Tail(que), n)
         /\ Exact(out, que, n) => Exact(Append(out, Head(que)), Tail(que), n)
  <1> DEFINE q == Tail(que)
             o == Append(out, Head(que))
  <1>1. /\ q \in Seq(Nat) /\ Len(q) = Len(que) - 1 /\ Len(que) >= 1
        /\ \A j \in 1 .. Len(q) : q[j] = que[j + 1]
    OBVIOUS
  <1>2. /\ o \in Seq(Nat) /\ Len(o) = Len(out) + 1
        /\ \A i \in 1 .. Len(out) : o[i] = out[i]
        /\ o[Len(out) + 1] = que[1]
    OBVIOUS
  <1>3. Len(que) \in Nat /\ Len(out) \in Nat
    OBVIOUS
  <1>4. /\ \A i \in 1 .. Len(out) : out[i] \in Nat
        /\ \A j \in 1 .. Len(que) : que[j] \in Nat
    OBVIOUS
  <1> HIDE DEF q, o
  <1>5. \A i \in 1 .. Len(o) : i \in 1 .. Len(out) \/ i = Len(out) + 1
    BY <1>2, <1>3
  <1>6. \A j \in 1 .. Len(q) : j \in 1 .. Len(que) /\ j + 1 \in 1 .. Len(que) /\ 1 < j + 1
    BY <1>1, <1>3
  <1>7. 1 \in 1 .. Len(que)
    BY <1>1, <1>3
  <1>8. ASSUME InOrder(out, que, n) PROVE InOrder(out, q, n)
    <2>1. ASSUME NEW i \in 1 .. Len(q), NEW j \in 1 .. Len(q), i < j PROVE q[i] < q[j]
      <3>1. i + 1 \in 1 .. Len(que) /\ j + 1 \in 1 .. Len(que) /\ i + 1 < j + 1
        BY <1>6, <2>1
      <3>2. que[i + 1] < que[j + 1]
        BY <1>8, <3>1 DEF InOrder
      <3>3. QED
        BY <1>1, <3>2
    <2>2. ASSUME NEW i \in 1 .. Len(out), NEW j \in 1 .. Len(q) PROVE out[i] < q[j]
      <3>1. j + 1 \in 1 .. Len(que)
        BY <1>6
      <3>2. out[i] < que[j + 1]
        BY <1>8, <3>1 DEF InOrder
      <3>3. QED
        BY <1>1, <3>2
    <2>3. ASSUME NEW j \in 1 .. Len(q) PROVE q[j] <= n
      <3>1. j + 1 \in 1 .. Len(que)
        BY <1>6
      <3>2. que[j + 1] <= n
        BY <1>8, <3>1 DEF InOrder
      <3>3. QED
        BY <1>1, <3>2
    <2>4. /\ \A i, j \in 1 .. Len(out) : i < j => out[i] < out[j]
          /\ \A i \in 1 .. Len(out) : out[i] <= n
      BY <1>8 DEF InOrder
    <2>5. QED
      BY <2>1, <2>2, <2>3, <2>4 DEF InOrder
  <1>9. ASSUME InOrder(out, que, n) PROVE InOrder(o, q, n)
    <2>1. /\ \A i, j \in 1 .. Len(q) : i < j => q[i] < q[j]
          /\ \A i \in 1 .. Len(out), j \in 1 .. Len(q) : out[i] < q[j]
          /\ \A j \in 1 .. Len(q) : q[j] <= n
      BY <1>8, <1>9 DEF InOrder
    <2>2. ASSUME NEW i \in 1 .. Len(o), NEW j \in 1 .. Len(o), i < j PROVE o[i] < o[j]
      <3>1. i \in 1 .. Len(out) /\ o[i] = out[i]
        BY <1>2, <1>3, <1>5, <2>2
      <3>2. CASE j \in 1 .. Len(out)
        <4>1. out[i] < out[j]
          BY <1>9, <2>2, <3>1, <3>2 DEF InOrder
        <4>2. QED
          BY <1>2, <3>1, <3>2, <4>1
      <3>3. CASE j = Len(out) + 1
        <4>1. out[i] < que[1]
          BY <1>7, <1>9, <3>1 DEF InOrder
        <4>2. QED
          BY <1>2, <3>1, <3>3, <4>1
      <3>4. QED
        BY <1>5, <3>2, <3>3
    <2>3. ASSUME NEW i \in 1 .. Len(o), NEW j \in 1 .. Len(q) PROVE o[i] < q[j]
      <3>1. CASE i \in 1 .. Len(out)
        BY <1>2, <2>1, <3>1
      <3>2. CASE i = Len(out) + 1
        <4>1. j + 1 \in 1 .. Len(que) /\ 1 < j + 1
          BY <1>6
        <4>2. que[1] < que[j + 1]
          BY <1>7, <1>9, <4>1 DEF InOrder
        <4>3. QED
          BY <1>1, <1>2, <3>2, <4>2
      <3>3. QED
        BY <1>5, <3>1, <3>2
    <2>4. ASSUME NEW i \in 1 .. Len(o) PROVE o[i] <= n
      <3>1. CASE i \in 1 .. Len(out)
        <4>1. out[i] <= n
          BY <1>9, <3>1 DEF InOrder
        <4>2. QED
          BY <1>2, <3>1, <4>1
      <3>2. CASE i = Len(out) + 1
        <4>1. que[1] <= n
          BY <1>7, <1>9 DEF InOrder
        <4>2. QED
          BY <1>2, <3>2, <4>1
      <3>3. QED
        BY <1>5, <3>1, <3>2
    <2>5. QED
      BY <2>1, <2>2, <2>3, <2>4 DEF InOrder
  <1>10. ASSUME Exact(out, que, n) PROVE Exact(o, q, n)
    <2>1. n = Len(o) + Len(q)
      BY <1>1, <1>2, <1>3, <1>10 DEF Exact
    <2>2. ASSUME NEW i \in 1 .. Len(o) PROVE o[i] = i
      <3>1. CASE i \in 1 .. Len(out)
        BY <1>2, <1>10, <3>1 DEF Exact
      <3>2. CASE i = Len(out) + 1
        <4>1. que[1] = Len(out) + 1
          BY <1>7, <1>10 DEF Exact
        <4>2. QED
          BY <1>2, <3>2, <4>1
      <3>3. QED
        BY <1>5, <3>1, <3>2
    <2>3. ASSUME NEW j \in 1 .. Len(q) PROVE q[j] = Len(o) + j
      <3>1. j + 1 \in 1 .. Len(que)
        BY <1>6
      <3>2. que[j + 1] = Len(out) + (j + 1)
        BY <1>10, <3>1 DEF Exact
      <3>3. QED
        BY <1>1, <1>2, <1>3, <3>2
    <2>4. QED
      BY <2>1, <2>2, <2>3 DEF Exact
  <1>11. QED
    BY <1>1, <1>2, <1>8, <1>9, <1>10 DEF q, o

\* Every step keeps the records in order.
LEMMA HiveKept ==
  ASSUME HiveInv, [Next]_vars
  PROVE  HiveInv'
  <1> USE DEF HiveInv, HiveAt
  <1>1. CASE UNCHANGED hiveVars
    BY <1>1 DEF hiveVars
  <1>2. CASE HiveConstruct
    BY <1>2 DEF HiveConstruct
  <1>3. CASE Restart
    <2>1. /\ hivePc' = "off" /\ hiveAt' = 0 /\ hiveQue' = [w \in Workers |-> <<>>]
          /\ UNCHANGED <<hivePushed, hiveOut>>
      BY <1>3 DEF Restart
    <2>2. ASSUME NEW w \in Workers PROVE InOrder(hiveOut[w], <<>>, hivePushed[w])
      BY DEF InOrder
    <2>3. QED
      BY <2>1, <2>2, DayAssumption
  <1>4. ASSUME NEW w \in Workers, HivePush(w) PROVE HiveInv'
    <2>1. /\ hivePushed' = [hivePushed EXCEPT ![w] = @ + 1]
          /\ hiveQue' = [hiveQue EXCEPT ![w] = Append(@, hivePushed[w] + 1)]
          /\ UNCHANGED <<hivePc, hiveAt, hiveOut>>
      BY <1>4 DEF HivePush
    <2>2. /\ Append(hiveQue[w], hivePushed[w] + 1) \in Seq(Nat)
          /\ InOrder(hiveOut[w], Append(hiveQue[w], hivePushed[w] + 1), hivePushed[w] + 1)
      BY PushedLast
    <2>3. QED
      BY <2>1, <2>2
  <1>5. CASE HiveOpenFile
    BY <1>5, DayAssumption DEF HiveOpenFile
  <1>6. ASSUME NEW w \in Workers, HiveDrain(w) PROVE HiveInv'
    <2>1. /\ hiveQue[w] # <<>> /\ hiveQue' = [hiveQue EXCEPT ![w] = Tail(@)]
          /\ UNCHANGED <<hivePc, hiveAt, hivePushed>>
          /\ \/ hiveOut' = [hiveOut EXCEPT ![w] = Append(@, Head(hiveQue[w]))]
             \/ hiveOut' = hiveOut
      BY <1>6 DEF HiveDrain
    <2>2. /\ Tail(hiveQue[w]) \in Seq(Nat) /\ Append(hiveOut[w], Head(hiveQue[w])) \in Seq(Nat)
          /\ InOrder(hiveOut[w], Tail(hiveQue[w]), hivePushed[w])
          /\ InOrder(Append(hiveOut[w], Head(hiveQue[w])), Tail(hiveQue[w]), hivePushed[w])
      BY <2>1, DrainedNext
    <2>3. QED
      BY <2>1, <2>2
  <1>7. ASSUME NEW w \in Workers, HiveNextQue(w) PROVE HiveInv'
    <2>1. w + 1 \in 0 .. N
      BY DayAssumption DEF Workers
    <2>2. QED
      BY <1>7, <2>1 DEF HiveNextQue
  <1>8. CASE HiveFlush
    BY <1>8 DEF HiveFlush
  <1>9. QED
    BY <1>1, <1>2, <1>3, <1>4, <1>5, <1>6, <1>7, <1>8, HiveChanges DEF HiveStep

\* Every step keeps all records while the process lives.
LEMMA NoneLostKept ==
  ASSUME HiveInv, NoneLost, [Next]_vars
  PROVE  NoneLost'
  <1>1. CASE Restart
    BY <1>1 DEF Restart, NoneLost
  <1>2. SUFFICES ASSUME ~Restart, alive', ~died'
                 PROVE  \A w \in Workers : Exact(hiveOut'[w], hiveQue'[w], hivePushed'[w])
    BY <1>1 DEF NoneLost
  <1>3. ~died
    BY <1>2 DEF Next, vars, LogPart, StartLog, StartCount, StartHive, Request, WorkPart,
                CountPart, Record, HivePart, ClockTicks
  <1>4. alive
    BY <1>2, AliveBefore DEF vars, dayVars
  <1>5. \A w \in Workers : Exact(hiveOut[w], hiveQue[w], hivePushed[w])
    BY <1>3, <1>4 DEF NoneLost
  <1>6. CASE UNCHANGED <<hiveQue, hiveOut, hivePushed>>
    BY <1>5, <1>6
  <1>7. ASSUME NEW w \in Workers, HivePush(w)
        PROVE  \A x \in Workers : Exact(hiveOut'[x], hiveQue'[x], hivePushed'[x])
    <2>1. /\ hivePushed' = [hivePushed EXCEPT ![w] = @ + 1]
          /\ hiveQue' = [hiveQue EXCEPT ![w] = Append(@, hivePushed[w] + 1)]
          /\ hiveOut' = hiveOut
      BY <1>7 DEF HivePush, HiveInv
    <2>2. Exact(hiveOut[w], Append(hiveQue[w], hivePushed[w] + 1), hivePushed[w] + 1)
      BY <1>5, PushedLast DEF HiveInv
    <2>3. QED
      BY <1>5, <2>1, <2>2 DEF HiveInv
  <1>8. ASSUME NEW w \in Workers, HiveDrain(w)
        PROVE  \A x \in Workers : Exact(hiveOut'[x], hiveQue'[x], hivePushed'[x])
    <2>1. /\ hiveQue[w] # <<>> /\ hiveQue' = [hiveQue EXCEPT ![w] = Tail(@)]
          /\ hivePushed' = hivePushed
          /\ hiveOut' = [hiveOut EXCEPT ![w] = Append(@, Head(hiveQue[w]))]
      BY <1>2, <1>8, Zenon DEF HiveDrain, Dies
    <2>2. Exact(Append(hiveOut[w], Head(hiveQue[w])), Tail(hiveQue[w]), hivePushed[w])
      BY <1>5, <2>1, DrainedNext DEF HiveInv
    <2>3. QED
      BY <1>5, <2>1, <2>2 DEF HiveInv
  <1>9. CASE HiveConstruct \/ HiveOpenFile \/ HiveFlush \/ UNCHANGED hiveVars
    BY <1>6, <1>9 DEF HiveConstruct, HiveOpenFile, HiveFlush, hiveVars
  <1>10. ASSUME NEW w \in Workers, HiveNextQue(w) PROVE UNCHANGED <<hiveQue, hiveOut, hivePushed>>
    BY <1>10 DEF HiveNextQue
  <1>11. QED
    BY <1>2, <1>6, <1>7, <1>8, <1>9, <1>10, HiveChanges DEF HiveStep

\* No record is there at the start.
LEMMA HiveStart == Init => HiveInv /\ NoneLost
  <1> SUFFICES ASSUME Init PROVE HiveInv /\ NoneLost
    OBVIOUS
  <1>1. /\ hivePc = "off" /\ hiveAt = 0
        /\ hiveQue = [w \in Workers |-> <<>>] /\ hiveOut = [w \in Workers |-> <<>>]
        /\ hivePushed = [w \in Workers |-> 0]
    BY DEF Init, HiveInit
  <1>2. InOrder(<<>>, <<>>, 0) /\ Exact(<<>>, <<>>, 0)
    BY DEF InOrder, Exact
  <1>3. HiveInv
    BY <1>1, <1>2, DayAssumption DEF HiveInv
  <1>4. NoneLost
    BY <1>1, <1>2 DEF NoneLost
  <1>5. QED
    BY <1>3, <1>4

\* So the two hold in every reachable state.
LEMMA HiveAlways == Spec => [](HiveInv /\ NoneLost)
  <1>1. HiveInv /\ NoneLost /\ [Next]_vars => HiveInv' /\ NoneLost'
    BY HiveKept, NoneLostKept
  <1>2. QED
    BY <1>1, HiveStart, PTL DEF Spec

\* Records of one worker reach the files in the order pushed, none twice, and none is lost while
\* the process lives.
THEOREM HiveIsInOrder == Spec => []HiveInOrder
  <1>1. HiveInv /\ NoneLost => HiveInOrder
    <2> SUFFICES ASSUME HiveInv, NoneLost, NEW w \in Workers
                 PROVE  /\ \A i, j \in DOMAIN hiveOut[w] : i < j => hiveOut[w][i] < hiveOut[w][j]
                        /\ alive /\ ~died =>
                              hiveOut[w] \o hiveQue[w] = [i \in 1 .. hivePushed[w] |-> i]
      BY DEF HiveInOrder
    <2>1. \A i, j \in DOMAIN hiveOut[w] : i < j => hiveOut[w][i] < hiveOut[w][j]
      <3>1. hiveOut[w] \in Seq(Nat) /\ DOMAIN hiveOut[w] = 1 .. Len(hiveOut[w])
        BY DEF HiveInv
      <3>2. InOrder(hiveOut[w], hiveQue[w], hivePushed[w])
        BY DEF HiveInv
      <3>3. QED
        BY <3>1, <3>2 DEF InOrder
    <2>2. ASSUME alive, ~died
          PROVE  hiveOut[w] \o hiveQue[w] = [i \in 1 .. hivePushed[w] |-> i]
      <3>1. hiveOut[w] \in Seq(Nat) /\ hiveQue[w] \in Seq(Nat)
        BY DEF HiveInv
      <3>2. Exact(hiveOut[w], hiveQue[w], hivePushed[w])
        BY <2>2 DEF NoneLost
      <3> DEFINE o == hiveOut[w]
                 q == hiveQue[w]
                 s == o \o q
      <3>3. /\ s \in Seq(Nat) /\ Len(s) = Len(o) + Len(q)
            /\ \A i \in 1 .. Len(s) : s[i] = IF i <= Len(o) THEN o[i] ELSE q[i - Len(o)]
        BY <3>1, ConcatProperties
      <3>4. Len(o) \in Nat /\ Len(q) \in Nat
        BY <3>1, LenProperties
      <3> HIDE DEF s, o, q
      <3>5. ASSUME NEW i \in 1 .. Len(s) PROVE s[i] = i
        <4>1. CASE i <= Len(o)
          <5>1. i \in 1 .. Len(o)
            BY <3>3, <3>4, <4>1
          <5>2. QED
            BY <3>2, <3>3, <4>1, <5>1 DEF Exact, o, q
        <4>2. CASE ~(i <= Len(o))
          <5>1. i - Len(o) \in 1 .. Len(q)
            BY <3>3, <3>4, <4>2
          <5>2. q[i - Len(o)] = Len(o) + (i - Len(o))
            BY <3>2, <5>1 DEF Exact, o, q
          <5>3. QED
            BY <3>3, <3>4, <4>2, <5>2
        <4>3. QED
          BY <4>1, <4>2
      <3>6. s = [i \in 1 .. Len(s) |-> s[i]]
        BY <3>3
      <3> USE DEF s, o, q
      <3>7. QED
        BY <3>2, <3>3, <3>5, <3>6 DEF Exact
    <2>3. QED
      BY <2>1, <2>2
  <1>2. QED
    BY <1>1, HiveAlways, PTL

-----------------------------------------------------------------------------
(* Directories and files                                                   *)

\* Later hours are of the same or of later days.
LEMMA DayOfMonotone ==
  ASSUME NEW a \in Nat, NEW b \in Nat, a <= b
  PROVE  DayOf(a) \in Nat /\ DayOf(a) <= DayOf(b)
  <1>1. \A c \in Nat \ {0} : a \div c <= b \div c /\ a \div c \in Nat
    OBVIOUS
  <1>2. QED
    BY <1>1, DayAssumption DEF DayOf

\* Today is one of the days.
LEMMA TodayInDays ==
  ASSUME hour \in 0 .. MaxHour
  PROVE  Today \in Days /\ Today \in Nat
  <1>1. hour \in Nat /\ MaxHour \in Nat /\ hour <= MaxHour
    BY DayAssumption
  <1>2. DayOf(hour) \in Nat /\ DayOf(MaxHour) \in Nat /\ DayOf(hour) <= DayOf(MaxHour)
    BY <1>1, DayOfMonotone
  <1>3. QED
    BY <1>2 DEF Today, Days

\* The names the three parts open are files, not NULL.
LEMMA Names ==
  ASSUME DirsInv
  PROVE  /\ \A n \in Nat : <<Today, LogName(n)>> \in AllFiles
         /\ StatusFile \in AllFiles
         /\ HiveFile(hour) \in AllFiles /\ HiveFile(hour) \in HiveFiles
         /\ HiveFile(hour)[1] = Today /\ StatusFile[1] = Today
         /\ \A d \in Days : Cardinality(LogFileListFiles(d)) \in Nat
  <1>1. Today \in Nat /\ hour \in Nat
    BY TodayInDays, DayAssumption DEF DirsInv
  <1>2. \A n \in Nat : <<Today, LogName(n)>> \in AllFiles
    BY <1>1 DEF AllFiles, LogName
  <1>3. StatusFile \in AllFiles /\ StatusFile[1] = Today
    BY <1>1 DEF AllFiles, StatusFile
  <1>4. HiveFile(hour) \in AllFiles /\ HiveFile(hour)[1] = Today
    BY <1>1 DEF AllFiles, HiveFile, Today
  <1>5. HiveFile(hour) \in HiveFiles
    BY DEF HiveFiles, Hours, DirsInv
  <1>6. ASSUME NEW d \in Days PROVE Cardinality(LogFileListFiles(d)) \in Nat
    <2>1. LogFileListFiles(d) \subseteq files
      BY DEF LogFileListFiles
    <2>2. QED
      BY <2>1, FS_Subset, FS_CardinalityType DEF DirsInv
  <1>7. QED
    BY <1>2, <1>3, <1>4, <1>5, <1>6

\* A step that makes today's directory or a file in a directory, and moves streams to files.
LEMMA DirsGrow ==
  ASSUME DirsInv, hour' = hour, alive' \in BOOLEAN, starved' \in BOOLEAN,
         dirs' \in {dirs, dirs \cup {Today}},
         NEW f \in AllFiles, files' = files \/ (files' = files \cup {f} /\ f[1] \in dirs'),
         logFile' = logFile \/ logFile' = NULL \/ logFile' \in files',
         cntFile' = cntFile \/ cntFile' = NULL \/ cntFile' \in files',
         hiveFile' = hiveFile \/ hiveFile' = NULL \/ hiveFile' \in files',
         logNext' \in AllFiles, logNext'[1] \in Days
  PROVE  DirsInv'
  <1>1. Today \in Days /\ Today \in Nat /\ Today' = Today
    BY TodayInDays DEF DirsInv, Today
  <1>2. dirs' \subseteq Days /\ \A d \in dirs' : d <= Today'
    BY <1>1 DEF DirsInv
  <1>3. IsFiniteSet(files') /\ files' \subseteq AllFiles
    BY FS_AddElement DEF DirsInv
  <1>4. \A g \in files' : g[1] \in dirs'
    BY DEF DirsInv
  <1>5. files \subseteq files'
    OBVIOUS
  <1>6. QED
    BY <1>2, <1>3, <1>4, <1>5 DEF DirsInv

\* fopen opens the file or returns NULL.
LEMMA Opened ==
  ASSUME NEW f, NEW n, NEW got, f # NULL, Fopen(f, n, got)
  PROVE  \/ /\ got = f /\ files' = files \cup {f} /\ f[1] \in dirs
            /\ n < MaxFds /\ fds' = n + 1 /\ starved' = starved
         \/ /\ got = NULL /\ files' = files /\ fds' = n
            /\ starved' = (starved \/ f[1] \in dirs)
  BY DEF Fopen

\* Every step keeps them.
LEMMA DirsKept ==
  ASSUME DirsInv, [Next]_vars
  PROVE  DirsInv'
  <1>0. /\ \A n \in Nat : <<Today, LogName(n)>> \in AllFiles
        /\ StatusFile \in AllFiles /\ StatusFile[1] = Today
        /\ HiveFile(hour) \in AllFiles /\ HiveFile(hour)[1] = Today
        /\ Today \in Days /\ \A d \in Days : Cardinality(LogFileListFiles(d)) \in Nat
    BY Names, TodayInDays DEF DirsInv
  <1>a. \A d, n : <<d, LogName(n)>>[1] = d
    OBVIOUS
  <1>b. logNext \in AllFiles /\ logNext[1] \in Days /\ alive \in BOOLEAN /\ starved \in BOOLEAN
    BY DEF DirsInv
  <1>c. NULL \notin AllFiles
    BY NullAssumption
  <1> USE DEF LogHolds, HiveAt, CntAt, FileCreatDir
  <1>1. CASE UNCHANGED <<hour, dirs, files, starved, logFile, cntFile, hiveFile, logNext>>
             /\ alive' \in BOOLEAN
    BY <1>b, <1>1, DirsGrow
  <1>2. CASE Tick /\ UNCHANGED <<logFile, cntFile, hiveFile, logNext>>
    <2>1. hour \in Nat /\ hour' = hour + 1 /\ hour' \in 0 .. MaxHour
      BY <1>2, DayAssumption DEF Tick, DirsInv
    <2>2. Today <= Today' /\ Today \in Nat /\ Today' \in Nat
      BY <2>1, DayOfMonotone DEF Today
    <2>3. UNCHANGED <<dirs, files, alive, starved>>
      BY <1>2 DEF Tick
    <2>4. \A d \in dirs : d <= Today'
      BY <2>2 DEF DirsInv, Days
    <2>5. QED
      BY <1>2, <2>1, <2>3, <2>4 DEF DirsInv
  <1>3. CASE LogConstruct /\ UNCHANGED <<cntFile, hiveFile>>
    <2> DEFINE f == <<Today, LogName(Cardinality(LogFileListFiles(Today)))>>
    <2>1. f \in AllFiles /\ f[1] = Today
      BY <1>0, <1>a
    <2>2. UNCHANGED <<hour, starved, logNext>>
      BY <1>3 DEF LogConstruct
    <2>3. CASE /\ dirs' = dirs \cup {Today} /\ files' = files \cup {f}
               /\ logFile' = f /\ alive' = alive
      <3> HIDE DEF f
      <3>1. QED
        BY <1>3, <1>b, <2>1, <2>2, <2>3, DirsGrow
    <2>4. CASE alive' = FALSE /\ UNCHANGED <<dirs, files, logFile>>
      BY <1>1, <1>3, <2>2, <2>4
    <2>5. QED
      BY <1>3, <2>3, <2>4 DEF LogConstruct, Dies
  <1>4. ASSUME NEW t \in Threads, LogNewDay(t), UNCHANGED <<cntFile, hiveFile>> PROVE DirsInv'
    <2>1. UNCHANGED <<hour, files, starved>> /\ logNext' = <<Today, LogName(0)>>
      BY <1>4 DEF LogNewDay
    <2>2. logNext' \in AllFiles /\ logNext'[1] \in Days
      BY <1>0, <1>a, <2>1
    <2>3. dirs' \in {dirs, dirs \cup {Today}} /\ logFile' \in {logFile, NULL}
      BY <1>4 DEF LogNewDay, LogCloseOld
    <2>4. alive' \in BOOLEAN
      BY <1>4, <1>b, Zenon DEF LogNewDay, LogCloseOld, Dies
    <2>5. QED
      BY <1>4, <1>b, <2>1, <2>2, <2>3, <2>4, DirsGrow
  <1>5. ASSUME NEW t \in Threads, LogSameDay(t), UNCHANGED <<cntFile, hiveFile>> PROVE DirsInv'
    <2>1. /\ UNCHANGED <<hour, dirs, files>>
          /\ logNext' = <<Today, LogName(Cardinality(LogFileListFiles(Today)))>>
      BY <1>5 DEF LogSameDay
    <2>2. logNext' \in AllFiles /\ logNext'[1] \in Days
      BY <1>0, <1>a, <2>1
    <2>3. logFile' \in {logFile, NULL}
      BY <1>5 DEF LogSameDay, LogCloseOld
    <2>4. alive' \in BOOLEAN
      BY <1>5, <1>b, Zenon DEF LogSameDay, LogCloseOld, Dies
    <2>5. starved' \in BOOLEAN
      BY <1>5, <1>b, Zenon DEF LogSameDay
    <2>6. QED
      BY <1>5, <1>b, <2>1, <2>2, <2>3, <2>4, <2>5, DirsGrow
  <1>6. ASSUME NEW t \in Threads, LogOpen(t), UNCHANGED <<cntFile, hiveFile>> PROVE DirsInv'
    <2>1. UNCHANGED <<hour, dirs, alive, logNext>> /\ Fopen(logNext, fds, logFile')
      BY <1>6 DEF LogOpen
    <2>2. \/ /\ logFile' = logNext /\ files' = files \cup {logNext} /\ logNext[1] \in dirs
             /\ starved' = starved
          \/ /\ logFile' = NULL /\ files' = files
             /\ starved' = (starved \/ logNext[1] \in dirs)
      BY <1>b, <1>c, <2>1, Opened
    <2>3. starved' \in BOOLEAN
      BY <1>b, <2>2
    <2>4. QED
      BY <1>6, <1>b, <2>1, <2>2, <2>3, DirsGrow
  <1>7. CASE CountConstruct /\ UNCHANGED <<logFile, hiveFile, logNext>>
    <2>1. UNCHANGED <<hour, alive>>
      BY <1>7 DEF CountConstruct
    <2>2. /\ dirs' \in {dirs, dirs \cup {Today}}
          /\ \/ files' = files /\ cntFile' = NULL
             \/ files' = files \cup {StatusFile} /\ Today \in dirs' /\ cntFile' = StatusFile
      BY <1>7 DEF CountConstruct
    <2>3. starved' \in BOOLEAN
      BY <1>7, <1>b, Zenon DEF CountConstruct
    <2>4. QED
      BY <1>7, <1>0, <1>b, <2>1, <2>2, <2>3, DirsGrow
  <1>8. CASE CountOpenFile /\ UNCHANGED <<logFile, hiveFile, logNext>>
    <2>1. UNCHANGED <<hour, dirs, alive>>
      BY <1>8 DEF CountOpenFile
    <2>2. CASE UNCHANGED <<files, starved, cntFile>>
      BY <1>8, <1>b, <2>1, <2>2, DirsGrow
    <2>3. CASE Fopen(StatusFile, IF cntFile = NULL THEN fds ELSE fds - 1, cntFile')
      <3>1. \/ /\ cntFile' = StatusFile /\ files' = files \cup {StatusFile}
               /\ Today \in dirs /\ starved' = starved
            \/ /\ cntFile' = NULL /\ files' = files
               /\ starved' = (starved \/ Today \in dirs)
        BY <1>0, <1>c, <2>3, Opened
      <3>2. starved' \in BOOLEAN
        BY <1>b, <3>1
      <3>3. QED
        BY <1>8, <1>0, <1>b, <2>1, <3>1, <3>2, DirsGrow
    <2>4. QED
      BY <1>8, <2>2, <2>3 DEF CountOpenFile
  <1>9. CASE HiveConstruct /\ UNCHANGED <<logFile, cntFile, logNext>>
    <2>1. UNCHANGED <<hour, alive>>
      BY <1>9 DEF HiveConstruct
    <2>2. dirs' \in {dirs, dirs \cup {Today}}
      BY <1>9 DEF HiveConstruct
    <2>3. \/ files' = files /\ hiveFile' = NULL
          \/ /\ files' = files \cup {HiveFile(hour)} /\ Today \in dirs'
             /\ hiveFile' = HiveFile(hour)
      BY <1>9 DEF HiveConstruct
    <2>4. starved' \in BOOLEAN
      BY <1>9, <1>b, Zenon DEF HiveConstruct
    <2>5. QED
      BY <1>9, <1>0, <1>b, <2>1, <2>2, <2>3, <2>4, DirsGrow
  <1>10. CASE HiveOpenFile /\ UNCHANGED <<logFile, cntFile, logNext>>
    <2>1. UNCHANGED <<hour, alive, dirs>>
      BY <1>10 DEF HiveOpenFile
    <2>2. \E n : Fopen(HiveFile(hour), n, hiveFile')
      BY <1>10 DEF HiveOpenFile, HiveFopen
    <2>3. \/ /\ hiveFile' = HiveFile(hour) /\ files' = files \cup {HiveFile(hour)}
             /\ Today \in dirs /\ starved' = starved
          \/ /\ hiveFile' = NULL /\ files' = files
             /\ starved' = (starved \/ Today \in dirs)
      BY <1>0, <1>c, <2>2, Opened
    <2>4. starved' \in BOOLEAN
      BY <1>b, <2>3
    <2>5. QED
      BY <1>10, <1>0, <1>b, <2>1, <2>3, <2>4, DirsGrow
  <1>11. CASE Restart
    <2>1. /\ UNCHANGED <<hour, dirs, files>> /\ alive' \in BOOLEAN /\ starved' \in BOOLEAN
          /\ logFile' = NULL /\ cntFile' = NULL /\ hiveFile' = NULL
          /\ logNext' = <<0, LogName(0)>>
      BY <1>11 DEF Restart, LogReset
    <2>2. logNext' \in AllFiles /\ logNext'[1] \in Days
      <3>1. DayOf(MaxHour) \in Nat
        BY DayOfMonotone, DayAssumption
      <3>2. QED
        BY <2>1, <3>1 DEF AllFiles, LogName, Days
    <2>3. QED
      BY <1>0, <2>1, <2>2, DirsGrow
  <1>12. ASSUME NEW t \in Threads,
                \/ LogCall(t) \/ LogLock(t) \/ LogWrite(t) \/ LogWriteFails(t)
                \/ LogCrash(t) \/ LogFclose(t),
                UNCHANGED <<cntFile, hiveFile>>
         PROVE  DirsInv'
    <2>1. UNCHANGED <<hour, dirs, files, starved, logFile, logNext>>
      BY <1>12 DEF LogCall, LogLock, LogWrite, LogWriteFails, LogCrash, LogFclose, dayVars, logVars
    <2>2. alive' \in BOOLEAN
      BY <1>12, <1>b, Zenon DEF LogCall, LogLock, LogWrite, LogWriteFails, LogCrash, LogFclose,
         dayVars, Dies
    <2>3. QED
      BY <1>1, <1>12, <2>1, <2>2
  <1>13. ASSUME NEW w \in Workers,
                StatsWorkerStep(w) \/ \E u \in Users : CountRequest(w, u),
                UNCHANGED <<logFile, hiveFile, logNext>>
         PROVE  DirsInv'
    <2>1. UNCHANGED <<hour, dirs, files, starved, cntFile>>
      BY <1>13 DEF StatsWorkerStep, CountRequest, CountReq, FoundResult, EmptyResult, EmptyUncounted,
         EmptyLocate, CountEmpty, CountRes, SendRespones, SendFails, dayVars, fileVars
    <2>2. alive' \in BOOLEAN
      BY <1>13, <1>b, Zenon DEF StatsWorkerStep, CountRequest, CountReq, FoundResult, EmptyResult,
         EmptyUncounted, EmptyLocate, CountEmpty, CountRes, SendRespones, SendFails, dayVars, Bump,
         Dies
    <2>3. QED
      BY <1>1, <1>13, <2>1, <2>2
  <1>14. CASE (CountAdd \/ CountClear \/ CountWrite) /\ UNCHANGED <<logFile, hiveFile, logNext>>
    <2>1. UNCHANGED <<hour, dirs, files, starved, cntFile>>
      BY <1>14 DEF CountAdd, CountClear, CountWrite, dayVars, fileVars
    <2>2. alive' \in BOOLEAN
      BY <1>14, <1>b, Zenon DEF CountAdd, CountClear, CountWrite, dayVars, Dies
    <2>3. QED
      BY <1>1, <1>14, <2>1, <2>2
  <1>15. ASSUME NEW w \in Workers, HivePush(w) \/ HiveDrain(w) \/ HiveNextQue(w) \/ HiveFlush,
                UNCHANGED <<logFile, cntFile, logNext>>
         PROVE  DirsInv'
    <2>1. UNCHANGED <<hour, dirs, files, starved, hiveFile>>
      BY <1>15 DEF HivePush, HiveDrain, HiveNextQue, HiveFlush, dayVars
    <2>2. alive' \in BOOLEAN
      BY <1>15, <1>b, Zenon DEF HivePush, HiveDrain, HiveNextQue, HiveFlush, dayVars, Dies
    <2>3. QED
      BY <1>1, <1>15, <2>1, <2>2
  <1>16. CASE UNCHANGED vars
    BY <1>1, <1>16, <1>b DEF vars, dayVars, logVars, statsVars, hiveVars
  <1>17. 0 \in Workers
    BY DayAssumption DEF Workers
  <1>18. QED
    <2>1. CASE ClockTicks \/ StartLog \/ StartCount \/ StartHive
      BY <1>2, <1>3, <1>7, <1>9, <2>1 DEF ClockTicks, StartLog, StartCount, StartHive, logVars,
         statsVars, hiveVars
    <2>2. ASSUME NEW t \in Threads, LogPart(t) PROVE DirsInv'
      BY <1>4, <1>5, <1>6, <1>12, <2>2 DEF LogPart, LogStep, statsVars, hiveVars
    <2>3. ASSUME NEW w \in Workers, Request(w) \/ WorkPart(w) \/ Record(w) PROVE DirsInv'
      BY <1>13, <1>15, <2>3 DEF Request, WorkPart, Record, logVars, statsVars, hiveVars
    <2>4. CASE CountPart
      BY <1>8, <1>14, <2>4 DEF CountPart, CountStep, logVars, hiveVars
    <2>5. CASE HivePart
      BY <1>10, <1>15, <1>17, <2>5 DEF HivePart, HiveStep, logVars, statsVars
    <2>6. QED
      BY <1>11, <1>16, <2>1, <2>2, <2>3, <2>4, <2>5 DEF Next

-----------------------------------------------------------------------------
(* Descriptors                                                             *)

HeldTypes == [HiveFiles -> 0 .. MaxFds]

\* The streams of the hive log are finitely many.
LEMMA StreamsFinite ==
  ASSUME NEW h
  PROVE  IsFiniteSet(HiveStreams(h)) /\ Cardinality(HiveStreams(h)) \in Nat
  <1> DEFINE file == [n \in Hours |-> HiveFile(n)]
  <1>1. file \in Surjection(Hours, HiveFiles)
    BY DEF Surjection, HiveFiles
  <1>2. IsFiniteSet(Hours)
    BY FS_Interval, DayAssumption DEF Hours
  <1>3. IsFiniteSet(HiveFiles)
    BY <1>1, <1>2, FS_Surjection
  <1>4. IsFiniteSet(1 .. MaxFds)
    BY FS_Interval, DayAssumption
  <1>5. IsFiniteSet(HiveFiles \X (1 .. MaxFds))
    BY <1>3, <1>4, FS_Product
  <1>6. HiveStreams(h) \subseteq HiveFiles \X (1 .. MaxFds)
    BY DEF HiveStreams
  <1>7. QED
    BY <1>5, <1>6, FS_Subset, FS_CardinalityType

\* Which streams there are.
LEMMA StreamsHas ==
  ASSUME NEW h, NEW f, NEW i
  PROVE  <<f, i>> \in HiveStreams(h) <=> f \in HiveFiles /\ i \in 1 .. MaxFds /\ i <= h[f]
  BY DEF HiveStreams

\* A file has no more streams than there are.
LEMMA StreamsOfFile ==
  ASSUME NEW h \in HeldTypes, NEW f \in HiveFiles
  PROVE  h[f] <= Cardinality(HiveStreams(h))
  <1>1. h[f] \in 0 .. MaxFds /\ h[f] \in Nat
    BY DayAssumption DEF HeldTypes
  <1>2. {f} \X (1 .. h[f]) \subseteq HiveStreams(h)
    BY <1>1, DayAssumption DEF HiveStreams
  <1>3. IsFiniteSet({f}) /\ Cardinality({f}) = 1
    BY FS_Singleton
  <1>4. IsFiniteSet(1 .. h[f]) /\ Cardinality(1 .. h[f]) = h[f]
    BY <1>1, FS_Interval
  <1>a. Cardinality({f} \X (1 .. h[f])) = Cardinality({f}) * Cardinality(1 .. h[f])
    BY <1>3, <1>4, FS_Product, Zenon
  <1>5. Cardinality({f} \X (1 .. h[f])) = 1 * h[f]
    BY <1>3, <1>4, <1>a
  <1>6. Cardinality({f} \X (1 .. h[f])) <= Cardinality(HiveStreams(h))
    BY <1>2, StreamsFinite, FS_Subset
  <1>7. QED
    BY <1>1, <1>5, <1>6

\* One more stream of a file.
LEMMA StreamOpened ==
  ASSUME NEW h \in HeldTypes, NEW f \in HiveFiles, Cardinality(HiveStreams(h)) < MaxFds
  PROVE  LET g == [h EXCEPT ![f] = @ + 1]
         IN /\ g \in HeldTypes /\ g[f] # 0
            /\ Cardinality(HiveStreams(g)) = Cardinality(HiveStreams(h)) + 1
  <1> DEFINE g == [h EXCEPT ![f] = @ + 1]
  <1>1. h[f] \in Nat /\ h[f] < MaxFds
    BY StreamsOfFile, StreamsFinite, DayAssumption DEF HeldTypes
  <1>2. g \in HeldTypes /\ g[f] = h[f] + 1 /\ \A e \in HiveFiles : e # f => g[e] = h[e]
    BY <1>1, DayAssumption DEF HeldTypes
  <1> HIDE DEF g
  <1>3. HiveStreams(g) = HiveStreams(h) \cup {<<f, h[f] + 1>>}
    <2>1. ASSUME NEW e \in HiveFiles, NEW i \in 1 .. MaxFds
          PROVE  i <= g[e] <=> i <= h[e] \/ (e = f /\ i = h[f] + 1)
      BY <1>1, <1>2, DayAssumption DEF HeldTypes
    <2>2. h[f] + 1 \in 1 .. MaxFds
      BY <1>1, DayAssumption
    <2>3. QED
      BY <2>1, <2>2 DEF HiveStreams
  <1>4. <<f, h[f] + 1>> \notin HiveStreams(h)
    BY <1>1, StreamsHas
  <1>5. Cardinality(HiveStreams(g)) = Cardinality(HiveStreams(h)) + 1
    BY <1>3, <1>4, StreamsFinite, FS_AddElement
  <1>6. QED
    BY <1>1, <1>2, <1>5 DEF g

\* One stream of a file less.
LEMMA StreamClosed ==
  ASSUME NEW h \in HeldTypes, NEW f \in HiveFiles, h[f] # 0
  PROVE  LET g == [h EXCEPT ![f] = @ - 1]
         IN /\ g \in HeldTypes
            /\ Cardinality(HiveStreams(g)) = Cardinality(HiveStreams(h)) - 1
  <1> DEFINE g == [h EXCEPT ![f] = @ - 1]
  <1>1. h[f] \in Nat /\ h[f] <= MaxFds
    BY DayAssumption DEF HeldTypes
  <1>2. g \in HeldTypes /\ g[f] = h[f] - 1 /\ \A e \in HiveFiles : e # f => g[e] = h[e]
    BY <1>1, DayAssumption DEF HeldTypes
  <1> HIDE DEF g
  <1>3. HiveStreams(g) = HiveStreams(h) \ {<<f, h[f]>>}
    <2>1. ASSUME NEW e \in HiveFiles, NEW i \in 1 .. MaxFds
          PROVE  i <= g[e] <=> i <= h[e] /\ ~(e = f /\ i = h[f])
      BY <1>1, <1>2, DayAssumption DEF HeldTypes
    <2>2. QED
      BY <2>1 DEF HiveStreams
  <1>4. <<f, h[f]>> \in HiveStreams(h)
    BY <1>1, StreamsHas
  <1>5. Cardinality(HiveStreams(g)) = Cardinality(HiveStreams(h)) - 1
    BY <1>3, <1>4, StreamsFinite, FS_RemoveElement
  <1>6. QED
    BY <1>2, <1>5 DEF g

\* No stream is open in a new process.
LEMMA StreamsNone ==
  LET zero == [f \in HiveFiles |-> 0]
  IN  zero \in HeldTypes /\ Cardinality(HiveStreams(zero)) = 0
  <1> DEFINE zero == [f \in HiveFiles |-> 0]
  <1>1. zero \in HeldTypes
    BY DayAssumption DEF HeldTypes
  <1>2. HiveStreams(zero) = {}
    BY DEF HiveStreams
  <1>3. QED
    BY <1>1, <1>2, FS_EmptySet

\* What the accounting gives.
LEMMA FdsCounted ==
  ASSUME FdsInv
  PROVE  /\ LogStreams \in {0, 1} /\ CntStreams \in {0, 1}
         /\ Cardinality(HiveStreams(hiveHeld)) \in Nat /\ MaxFds \in Nat \ {0}
         /\ fds \in Nat /\ fds <= MaxFds /\ hiveHeld \in HeldTypes
         /\ fds = LogStreams + CntStreams + Cardinality(HiveStreams(hiveHeld))
  BY StreamsFinite, DayAssumption DEF FdsInv, LogStreams, CntStreams, HeldTypes

\* Closing what LogCreatLogDir had open.
LEMMA OldClosed ==
  ASSUME LogInv, FdsInv, LogCloseOld
  PROVE  fds' = fds - LogStreams /\ LogStreams' = 0 /\ fds' \in Nat /\ fds' <= MaxFds
  <1>1. fds' = fds - LogStreams
    BY FdsCounted DEF LogCloseOld, LogStreams, LogInv
  <1>2. LogStreams' = 0
    BY DEF LogCloseOld, LogStreams
  <1>3. QED
    BY <1>1, <1>2, FdsCounted

\* A step that changes the log's stream only.
LEMMA LogFds ==
  ASSUME FdsInv, UNCHANGED <<cntFile, cntPc, hivePc, hiveFile, hiveHeld, logOn>>,
         fds' \in Nat, fds' <= MaxFds, fds' - LogStreams' = fds - LogStreams
  PROVE  FdsInv'
  <1>1. CntStreams' = CntStreams
    BY DEF CntStreams
  <1>2. LogStreams' \in {0, 1}
    BY DEF LogStreams
  <1>3. fds' = LogStreams' + CntStreams + Cardinality(HiveStreams(hiveHeld))
    BY <1>2, FdsCounted
  <1>4. fds' \in 0 .. MaxFds
    BY FdsCounted
  <1>5. QED
    BY <1>1, <1>3, <1>4 DEF FdsInv

\* A step of the log keeps the accounting.
LEMMA LogFdsKept ==
  ASSUME LogInv, DirsInv, FdsInv, NEW t \in Threads, LogCall(t) \/ LogStep(t),
         UNCHANGED <<cntFile, cntPc, hivePc, hiveFile, hiveHeld>>
  PROVE  FdsInv'
  <1> USE DEF LogHolds
  <1>1. logOn' = logOn
    BY DEF LogCall, LogStep, LogLock, LogNewDay, LogSameDay, LogOpen, LogWrite, LogWriteFails,
           LogCrash, LogFclose, logVars
  <1>2. SUFFICES fds' \in Nat /\ fds' <= MaxFds /\ fds' - LogStreams' = fds - LogStreams
    BY <1>1, LogFds
  <1>3. CASE LogCloseOld
    BY <1>3, OldClosed, FdsCounted
  <1>4. CASE UNCHANGED <<fds, logFile, logClosed>>
    BY <1>4, FdsCounted DEF LogStreams
  <1>5. CASE LogOpen(t)
    <2>1. logFile = NULL /\ ~logClosed /\ logClosed' = logClosed
      BY <1>5 DEF LogOpen, LogInv
    <2>2. Fopen(logNext, fds, logFile') /\ logNext # NULL
      BY <1>5, NullAssumption DEF LogOpen, DirsInv
    <2>3. LogStreams = 0
      BY <2>1 DEF LogStreams
    <2>4. CASE logFile' = logNext /\ fds < MaxFds /\ fds' = fds + 1
      <3>1. LogStreams' = 1
        BY <2>1, <2>2, <2>4 DEF LogStreams
      <3>2. QED
        BY <2>3, <2>4, <3>1, FdsCounted
    <2>5. CASE logFile' = NULL /\ fds' = fds
      <3>1. LogStreams' = 0
        BY <2>5 DEF LogStreams
      <3>2. QED
        BY <2>3, <2>5, <3>1, FdsCounted
    <2>6. QED
      BY <2>2, <2>4, <2>5, Opened
  <1>6. CASE LogFclose(t)
    <2>1. logFile' = logFile /\ logClosed' = (logFile # NULL)
      BY <1>6 DEF LogFclose
    <2>2. LogStreams' = 0
      BY <2>1 DEF LogStreams
    <2>3. \/ (logFile # NULL /\ ~logClosed) /\ fds' = fds - 1
          \/ ~(logFile # NULL /\ ~logClosed) /\ fds' = fds
      BY <1>6, Zenon DEF LogFclose
    <2>4. CASE (logFile # NULL /\ ~logClosed) /\ fds' = fds - 1
      <3>1. LogStreams = 1
        BY <2>4 DEF LogStreams
      <3>2. QED
        BY <2>2, <2>4, <3>1, FdsCounted
    <2>5. CASE ~(logFile # NULL /\ ~logClosed) /\ fds' = fds
      <3>1. LogStreams = 0
        BY <2>5 DEF LogStreams
      <3>2. QED
        BY <2>2, <2>5, <3>1, FdsCounted
    <2>6. QED
      BY <2>3, <2>4, <2>5
  <1>7. QED
    BY <1>3, <1>4, <1>5, <1>6 DEF LogCall, LogStep, LogLock, LogNewDay, LogSameDay, LogWrite,
       LogWriteFails, LogCrash, logVars, dayVars

\* Every step keeps the accounting.
LEMMA FdsKept ==
  ASSUME LogInv, DirsInv, FdsInv, StatsInv, [Next]_vars
  PROVE  FdsInv'
  <1> USE DEF HiveAt, CntAt
  <1>0. /\ StatusFile # NULL /\ HiveFile(hour) # NULL /\ HiveFile(hour) \in HiveFiles
        /\ \A n \in Nat : <<Today, LogName(n)>> # NULL
        /\ Cardinality(LogFileListFiles(Today)) \in Nat
    BY Names, TodayInDays, NullAssumption DEF DirsInv
  <1>a. /\ LogStreams \in {0, 1} /\ CntStreams \in {0, 1}
        /\ Cardinality(HiveStreams(hiveHeld)) \in Nat /\ MaxFds \in Nat \ {0}
        /\ fds \in Nat /\ fds <= MaxFds /\ hiveHeld \in HeldTypes
        /\ fds = LogStreams + CntStreams + Cardinality(HiveStreams(hiveHeld))
    BY FdsCounted
  <1>1. CASE /\ UNCHANGED <<fds, logFile, logClosed, logOn, cntFile, hiveFile, hiveHeld>>
             /\ cntPc' = "off" <=> cntPc = "off"
             /\ hivePc' = "off" <=> hivePc = "off"
    BY <1>1 DEF FdsInv, LogStreams, CntStreams
  <1>2. CASE LogConstruct /\ UNCHANGED <<cntPc, cntFile, hivePc, hiveFile, hiveHeld>>
    <2> DEFINE f == <<Today, LogName(Cardinality(LogFileListFiles(Today)))>>
    <2>1. f # NULL
      BY <1>0
    <2>2. ~logOn /\ LogStreams = 0 /\ CntStreams = 0 /\ fds = 0
      <3>1. ~logOn /\ logFile = NULL /\ cntFile = NULL /\ hivePc = "off"
        BY <1>2 DEF LogConstruct, LogInv, FdsInv
      <3>2. hiveHeld = [e \in HiveFiles |-> 0]
        BY <3>1 DEF FdsInv
      <3>3. LogStreams = 0 /\ CntStreams = 0
        BY <3>1 DEF LogStreams, CntStreams
      <3>4. QED
        BY <1>a, <3>1, <3>2, <3>3, StreamsNone
    <2> HIDE DEF f
    <2>3. CASE /\ fds' = fds + 1 /\ logFile' = f /\ logOn' = TRUE /\ logClosed' = FALSE
      <3>1. LogStreams' = 1
        BY <2>1, <2>3 DEF LogStreams
      <3>2. CntStreams' = CntStreams /\ Cardinality(HiveStreams(hiveHeld')) = Cardinality(HiveStreams(hiveHeld))
        BY <1>2 DEF CntStreams
      <3>3. fds' \in 0 .. MaxFds
        BY <1>a, <2>2, <2>3
      <3>4. fds' = LogStreams' + CntStreams' + Cardinality(HiveStreams(hiveHeld'))
        BY <1>a, <2>2, <2>3, <3>1, <3>2
      <3>5. QED
        BY <1>2, <2>3, <3>3, <3>4 DEF FdsInv
    <2>4. CASE UNCHANGED <<fds, logOn, logFile, logClosed>>
      BY <1>1, <1>2, <2>4
    <2>5. QED
      BY <1>2, <2>3, <2>4 DEF LogConstruct, f
  <1>3. ASSUME NEW t \in Threads, LogCall(t) \/ LogStep(t),
               UNCHANGED <<cntFile, cntPc, hivePc, hiveFile, hiveHeld>>
        PROVE  FdsInv'
    BY <1>3, LogFdsKept
  <1>4. CASE logOn /\ CountConstruct /\ UNCHANGED <<logOn, logFile, logClosed, hivePc, hiveFile, hiveHeld>>
    <2>1. cntFile = NULL /\ cntPc' = "open" /\ CntStreams = 0 /\ LogStreams' = LogStreams
      BY <1>4 DEF CountConstruct, FdsInv, CntStreams, LogStreams
    <2>2. CASE cntFile' = StatusFile /\ fds < MaxFds /\ fds' = fds + 1
      <3>1. CntStreams' = 1
        BY <1>0, <2>2 DEF CntStreams
      <3>2. fds' = LogStreams' + CntStreams' + Cardinality(HiveStreams(hiveHeld)) /\ fds' \in 0 .. MaxFds
        BY <1>a, <2>1, <2>2, <3>1
      <3>3. QED
        BY <1>4, <2>1, <3>2 DEF FdsInv
    <2>3. CASE cntFile' = NULL /\ fds' = fds
      <3>1. CntStreams' = 0
        BY <2>3 DEF CntStreams
      <3>2. fds' = LogStreams' + CntStreams' + Cardinality(HiveStreams(hiveHeld)) /\ fds' \in 0 .. MaxFds
        BY <1>a, <2>1, <2>3, <3>1
      <3>3. QED
        BY <1>4, <2>1, <3>2 DEF FdsInv
    <2>4. QED
      BY <1>4, <2>2, <2>3 DEF CountConstruct
  <1>5. CASE CountOpenFile /\ UNCHANGED <<logOn, logFile, logClosed, hivePc, hiveFile, hiveHeld>>
    <2>1. cntPc' = "add" /\ cntPc = "open" /\ LogStreams' = LogStreams
      BY <1>5 DEF CountOpenFile, LogStreams
    <2>2. CASE UNCHANGED <<fds, cntFile>>
      BY <1>1, <1>5, <2>1, <2>2
    <2>3. CASE Fopen(StatusFile, IF cntFile = NULL THEN fds ELSE fds - 1, cntFile')
      <3> DEFINE n == IF cntFile = NULL THEN fds ELSE fds - 1
      <3>1. n = fds - CntStreams /\ n \in Nat
        BY <1>a DEF CntStreams
      <3>2. Fopen(StatusFile, n, cntFile')
        BY <2>3
      <3> HIDE DEF n
      <3>3. CASE cntFile' = StatusFile /\ n < MaxFds /\ fds' = n + 1
        <4>1. CntStreams' = 1
          BY <1>0, <3>3 DEF CntStreams
        <4>2. fds' = LogStreams' + CntStreams' + Cardinality(HiveStreams(hiveHeld)) /\ fds' \in 0 .. MaxFds
          BY <1>a, <2>1, <3>1, <3>3, <4>1
        <4>3. QED
          BY <1>5, <2>1, <4>2 DEF FdsInv
      <3>4. CASE cntFile' = NULL /\ fds' = n
        <4>1. CntStreams' = 0
          BY <3>4 DEF CntStreams
        <4>2. fds' = LogStreams' + CntStreams' + Cardinality(HiveStreams(hiveHeld)) /\ fds' \in 0 .. MaxFds
          BY <1>a, <2>1, <3>1, <3>4, <4>1
        <4>3. QED
          BY <1>5, <2>1, <4>2 DEF FdsInv
      <3>5. QED
        BY <1>0, <3>2, <3>3, <3>4, Opened
    <2>4. QED
      BY <1>5, <2>2, <2>3 DEF CountOpenFile
  <1>6. CASE HiveConstruct /\ cntPc # "off" /\ UNCHANGED <<logOn, logFile, logClosed, cntPc, cntFile>>
    <2>1. hiveFile = NULL /\ hivePc' = "open" /\ LogStreams' = LogStreams /\ CntStreams' = CntStreams
      BY <1>6 DEF HiveConstruct, FdsInv, LogStreams, CntStreams
    <2>2. CASE /\ hiveFile' = HiveFile(hour) /\ fds < MaxFds /\ fds' = fds + 1
               /\ hiveHeld' = [hiveHeld EXCEPT ![HiveFile(hour)] = @ + 1]
      <3>1. Cardinality(HiveStreams(hiveHeld)) < MaxFds
        BY <1>a, <2>2
      <3>2. /\ hiveHeld' \in HeldTypes /\ hiveHeld'[HiveFile(hour)] # 0
            /\ Cardinality(HiveStreams(hiveHeld')) = Cardinality(HiveStreams(hiveHeld)) + 1
        BY <1>0, <1>a, <2>2, <3>1, StreamOpened
      <3>3. fds' = LogStreams' + CntStreams' + Cardinality(HiveStreams(hiveHeld')) /\ fds' \in 0 .. MaxFds
        BY <1>a, <2>1, <2>2, <3>2
      <3>4. QED
        BY <1>0, <1>6, <2>1, <2>2, <3>2, <3>3 DEF FdsInv, HeldTypes
    <2>3. CASE hiveFile' = NULL /\ UNCHANGED <<fds, hiveHeld>>
      BY <1>6, <2>1, <2>3 DEF FdsInv
    <2>4. QED
      BY <1>6, <2>2, <2>3 DEF HiveConstruct
  <1>7. CASE HiveOpenFile /\ UNCHANGED <<logOn, logFile, logClosed, cntPc, cntFile>>
    <2>1. hivePc = "open" /\ hivePc' = "drain" /\ LogStreams' = LogStreams /\ CntStreams' = CntStreams
      BY <1>7 DEF HiveOpenFile, LogStreams, CntStreams
    <2> DEFINE closes == ~FileBeExists(HiveFile(hour)) /\ hiveFile # NULL
               n == IF closes THEN fds - 1 ELSE fds
               held == IF closes THEN [hiveHeld EXCEPT ![hiveFile] = @ - 1] ELSE hiveHeld
    <2>2. /\ Fopen(HiveFile(hour), n, hiveFile')
          /\ hiveHeld' = IF hiveFile' = NULL THEN held ELSE [held EXCEPT ![HiveFile(hour)] = @ + 1]
      BY <1>7 DEF HiveOpenFile, HiveFopen
    <2>3. /\ held \in HeldTypes /\ n \in Nat /\ n <= MaxFds
          /\ n = LogStreams + CntStreams + Cardinality(HiveStreams(held))
      <3>1. CASE closes
        <4>1. hiveFile \in HiveFiles /\ hiveHeld[hiveFile] # 0
          BY <3>1 DEF FdsInv
        <4>2. /\ held \in HeldTypes
              /\ Cardinality(HiveStreams(held)) = Cardinality(HiveStreams(hiveHeld)) - 1
          BY <1>a, <3>1, <4>1, StreamClosed
        <4>3. Cardinality(HiveStreams(held)) \in Nat
          BY StreamsFinite
        <4>4. n = fds - 1
          BY <3>1
        <4> HIDE DEF closes, n, held
        <4>5. QED
          BY <1>a, <4>2, <4>3, <4>4
      <3>2. CASE ~closes
        BY <1>a, <3>2
      <3>3. QED
        BY <3>1, <3>2
    <2> HIDE DEF closes, n, held
    <2>4. CASE hiveFile' = HiveFile(hour) /\ n < MaxFds /\ fds' = n + 1
      <3>1. Cardinality(HiveStreams(held)) < MaxFds /\ Cardinality(HiveStreams(held)) \in Nat
        BY <1>a, <2>3, <2>4, StreamsFinite
      <3>2. hiveHeld' = [held EXCEPT ![HiveFile(hour)] = @ + 1]
        BY <1>0, <2>2, <2>4
      <3>3. /\ hiveHeld' \in HeldTypes /\ hiveHeld'[HiveFile(hour)] # 0
            /\ Cardinality(HiveStreams(hiveHeld')) = Cardinality(HiveStreams(held)) + 1
        BY <1>0, <2>3, <3>1, <3>2, StreamOpened
      <3>4. fds' = LogStreams' + CntStreams' + Cardinality(HiveStreams(hiveHeld')) /\ fds' \in 0 .. MaxFds
        BY <1>a, <2>1, <2>3, <2>4, <3>1, <3>3
      <3>5. QED
        BY <1>0, <1>7, <2>1, <2>4, <3>3, <3>4 DEF FdsInv, HeldTypes
    <2>5. CASE hiveFile' = NULL /\ fds' = n
      <3>1. hiveHeld' = held
        BY <2>2, <2>5
      <3>2. fds' = LogStreams' + CntStreams' + Cardinality(HiveStreams(hiveHeld')) /\ fds' \in 0 .. MaxFds
        BY <1>a, <2>1, <2>3, <2>5, <3>1
      <3>3. QED
        BY <1>7, <2>1, <2>3, <2>5, <3>1, <3>2 DEF FdsInv, HeldTypes
    <2>6. QED
      BY <1>0, <2>2, <2>4, <2>5, Opened
  <1>8. CASE Restart
    <2>1. /\ fds' = 0 /\ logFile' = NULL /\ cntFile' = NULL /\ hiveFile' = NULL
          /\ hiveHeld' = [f \in HiveFiles |-> 0]
          /\ cntPc' = "off" /\ hivePc' = "off"
      BY <1>8 DEF Restart, LogReset
    <2>2. LogStreams' = 0 /\ CntStreams' = 0
      BY <2>1 DEF LogStreams, CntStreams
    <2>3. hiveHeld' \in HeldTypes /\ Cardinality(HiveStreams(hiveHeld')) = 0
      BY <2>1, StreamsNone
    <2>4. fds' \in 0 .. MaxFds
      BY <1>a, <2>1
    <2>5. QED
      BY <2>1, <2>2, <2>3, <2>4 DEF FdsInv, HeldTypes
  <1>9. ASSUME NEW w \in Workers,
               StatsWorkerStep(w) \/ (\E u \in Users : CountRequest(w, u)),
               UNCHANGED <<logFile, logClosed, logOn, hivePc, hiveFile, hiveHeld>>
        PROVE  FdsInv'
    <2>1. UNCHANGED <<fds, cntFile, cntPc>>
      BY <1>9 DEF StatsWorkerStep, CountRequest, CountReq, FoundResult, EmptyResult, EmptyUncounted,
         EmptyLocate, CountEmpty, CountRes, SendRespones, SendFails, dayVars, fileVars
    <2>2. QED
      BY <1>1, <1>9, <2>1
  <1>10. CASE /\ CountAdd \/ CountClear \/ CountWrite
              /\ UNCHANGED <<logFile, logClosed, logOn, hivePc, hiveFile, hiveHeld>>
    <2>1. UNCHANGED <<fds, cntFile>> /\ cntPc # "off" /\ cntPc' # "off"
      BY <1>10 DEF CountAdd, CountClear, CountWrite, dayVars, fileVars
    <2>2. QED
      BY <1>1, <1>10, <2>1
  <1>11. ASSUME NEW w \in Workers, HivePush(w) \/ HiveDrain(w) \/ HiveNextQue(w) \/ HiveFlush,
                UNCHANGED <<logFile, logClosed, logOn, cntPc, cntFile>>
         PROVE  FdsInv'
    <2>1. UNCHANGED <<fds, hiveFile, hiveHeld>> /\ (hivePc' = "off" <=> hivePc = "off")
      BY <1>11 DEF HivePush, HiveDrain, HiveNextQue, HiveFlush, dayVars
    <2>2. QED
      BY <1>1, <1>11, <2>1
  <1>12. CASE UNCHANGED vars \/ ClockTicks
    BY <1>1, <1>12 DEF vars, dayVars, logVars, statsVars, hiveVars, ClockTicks, Tick
  <1>13. 0 \in Workers
    BY DayAssumption DEF Workers
  <1>14. QED
    <2>1. CASE StartLog \/ StartCount \/ StartHive
      BY <1>2, <1>4, <1>6, <2>1 DEF StartLog, StartCount, StartHive, logVars, statsVars, hiveVars
    <2>2. ASSUME NEW t \in Threads, LogPart(t) PROVE FdsInv'
      BY <1>3, <2>2 DEF LogPart, statsVars, hiveVars
    <2>3. ASSUME NEW w \in Workers, Request(w) \/ WorkPart(w) \/ Record(w) PROVE FdsInv'
      BY <1>9, <1>11, <2>3 DEF Request, WorkPart, Record, logVars, statsVars, hiveVars
    <2>4. CASE CountPart
      BY <1>5, <1>10, <2>4 DEF CountPart, CountStep, logVars, hiveVars
    <2>5. CASE HivePart
      BY <1>7, <1>11, <1>13, <2>5 DEF HivePart, HiveStep, logVars, statsVars
    <2>6. QED
      BY <1>8, <1>12, <2>1, <2>2, <2>3, <2>4, <2>5 DEF Next

\* The directories and the descriptors, from the start on.
LEMMA FilesStart == Init => DirsInv /\ FdsInv
  <1> SUFFICES ASSUME Init PROVE DirsInv /\ FdsInv
    OBVIOUS
  <1>1. DirsInv
    <2>1. DayOf(MaxHour) \in Nat
      BY DayOfMonotone, DayAssumption
    <2>2. logNext \in AllFiles /\ logNext[1] \in Days
      BY <2>1 DEF Init, LogInit, AllFiles, LogName, Days
    <2>3. IsFiniteSet({})
      BY FS_EmptySet
    <2>4. hour \in 0 .. MaxHour
      BY DayAssumption DEF Init, DayInit
    <2>5. QED
      BY <2>2, <2>3, <2>4 DEF Init, DayInit, LogInit, StatsInit, HiveInit, DirsInv
  <1>2. FdsInv
    <2>1. LogStreams = 0 /\ CntStreams = 0
      BY DEF Init, LogInit, StatsInit, LogStreams, CntStreams
    <2>2. hiveHeld \in HeldTypes /\ Cardinality(HiveStreams(hiveHeld)) = 0
      BY StreamsNone DEF Init, HiveInit
    <2>3. fds = 0 /\ fds \in 0 .. MaxFds
      BY DayAssumption DEF Init, DayInit
    <2>4. QED
      BY <2>1, <2>2, <2>3 DEF Init, LogInit, StatsInit, HiveInit, FdsInv, HeldTypes
  <1>3. QED
    BY <1>1, <1>2

LEMMA FilesAlways == Spec => [](DirsInv /\ FdsInv)
  <1>1. LogInv /\ StatsInv /\ DirsInv /\ FdsInv /\ [Next]_vars => DirsInv' /\ FdsInv'
    BY DirsKept, FdsKept
  <1>2. QED
    BY <1>1, FilesStart, LogAlways, StatsAlways, PTL DEF Spec

\* Every open stream has an owner that knows it, whichever parts open, close and fail when.
THEOREM FdsAreAccounted == Spec => []FdsAccounted
  <1>1. FdsInv => FdsAccounted
    BY DEF FdsInv, FdsAccounted, LogStreams, CntStreams
  <1>2. QED
    BY <1>1, FilesAlways, PTL

\* Every variable keeps its type.
THEOREM TypeCorrect == Spec => []TypeOK
  <1>1. ASSUME LogInv, StatsInv, HiveInv, DirsInv, FdsInv PROVE TypeOK
    <2>1. DayTypeOK
      BY <1>1 DEF DirsInv, FdsInv, DayTypeOK
    <2>2. QED
      BY <1>1, <2>1 DEF LogInv, StatsInv, HiveInv, DirsInv, TypeOK
  <1>2. QED
    BY <1>1, LogAlways, StatsAlways, HiveAlways, FilesAlways, PTL

-----------------------------------------------------------------------------
(* Causes of death                                                         *)

\* fopen may add to the causes, and takes none away.
LEMMA OpenedStarves ==
  ASSUME NEW f, NEW n, NEW got, Fopen(f, n, got), starved
  PROVE  starved'
  BY Zenon DEF Fopen

\* Until a restart the causes stay, and no directory goes away.
LEMMA CausesStay ==
  ASSUME Next, ~Restart
  PROVE  /\ starved => starved'
         /\ faulted => faulted'
         /\ mkdirFailed => mkdirFailed'
         /\ raced => raced'
         /\ blind => blind'
         /\ hiveBlind => hiveBlind'
         /\ dirs \subseteq dirs'
  <1> USE DEF dayVars, logVars, statsVars, fileVars, workerVars, hiveVars
  <1>1. CASE ClockTicks
    BY <1>1 DEF ClockTicks, Tick
  <1>2. CASE StartLog
    <2>1. /\ dirs \subseteq dirs' /\ UNCHANGED <<starved, faulted, raced, blind, hiveBlind>>
          /\ mkdirFailed' = mkdirFailed \/ mkdirFailed'
      BY <1>2 DEF StartLog, LogConstruct, FileCreatDir
    <2>2. QED
      BY <2>1
  <1>3. CASE StartCount
    <2>1. /\ dirs \subseteq dirs' /\ UNCHANGED <<faulted, mkdirFailed, raced, hiveBlind>>
          /\ starved' = starved \/ starved'
          /\ blind' = blind \/ blind'
      BY <1>3 DEF StartCount, CountConstruct, FileCreatDir
    <2>2. QED
      BY <2>1
  <1>4. CASE StartHive
    <2>1. /\ dirs \subseteq dirs' /\ UNCHANGED <<faulted, mkdirFailed, raced, blind>>
      BY <1>4 DEF StartHive, HiveConstruct, FileCreatDir
    <2>2. HiveConstruct
      BY <1>4 DEF StartHive
    <2>3. (starved => starved') /\ (hiveBlind => hiveBlind')
      <3> HIDE DEF dayVars, logVars, statsVars, fileVars, workerVars, hiveVars
      <3>1. QED
        BY <2>2, Zenon DEF HiveConstruct
    <2>4. QED
      BY <2>1, <2>3
  <1>5. ASSUME NEW t \in Threads, LogPart(t)
        PROVE  /\ starved => starved'
               /\ faulted' = faulted \/ faulted'
               /\ mkdirFailed' = mkdirFailed \/ mkdirFailed'
               /\ UNCHANGED <<raced, blind, hiveBlind>> /\ dirs \subseteq dirs'
    <2>1. /\ dirs \subseteq dirs' /\ UNCHANGED <<raced, blind, hiveBlind>>
          /\ faulted' = faulted \/ faulted'
          /\ mkdirFailed' = mkdirFailed \/ mkdirFailed'
      BY <1>5 DEF LogPart, LogCall, LogStep, LogLock, LogNewDay, LogSameDay, LogOpen, LogWrite,
         LogWriteFails, LogCrash, LogFclose, FileCreatDir
    <2>2. starved' = starved \/ starved' \/ Fopen(logNext, fds, logFile')
      BY <1>5 DEF LogPart, LogCall, LogStep, LogLock, LogNewDay, LogSameDay, LogOpen, LogWrite,
         LogWriteFails, LogCrash, LogFclose
    <2>3. starved => starved'
      BY <2>2, OpenedStarves, Zenon
    <2>4. QED
      BY <2>1, <2>3
  <1>6. ASSUME NEW w \in Workers, Request(w) \/ WorkPart(w) \/ Record(w)
        PROVE  /\ UNCHANGED <<starved, faulted, mkdirFailed, blind, hiveBlind, dirs>>
               /\ raced => raced'
    <2>1. UNCHANGED <<starved, faulted, mkdirFailed, blind, hiveBlind, dirs>>
      BY <1>6 DEF Request, WorkPart, Record, CountRequest, StatsWorkerStep, CountReq,
         FoundResult, EmptyResult, EmptyUncounted, EmptyLocate, CountEmpty, CountRes, SendRespones,
         SendFails, HivePush
    <2>2. \/ raced' = raced
          \/ \E c \in Counters : Bump(w, c)
      BY <1>6 DEF Request, WorkPart, Record, CountRequest, StatsWorkerStep, CountReq,
         FoundResult, EmptyResult, EmptyUncounted, EmptyLocate, CountEmpty, CountRes, SendRespones,
         SendFails, HivePush, Counters
    <2>3. (\E c \in Counters : Bump(w, c)) => (raced => raced')
      BY Zenon DEF Bump
    <2>4. QED
      BY <2>1, <2>2, <2>3
  <1>7. CASE CountPart
    <2>1. UNCHANGED <<faulted, mkdirFailed, raced, hiveBlind, dirs>>
      BY <1>7 DEF CountPart, CountStep, CountOpenFile, CountAdd, CountClear, CountWrite
    <2>2. \/ CountOpenFile
          \/ UNCHANGED <<starved, blind>>
      BY <1>7 DEF CountPart, CountStep, CountAdd, CountClear, CountWrite
    <2>3. CASE CountOpenFile
      <3>1. \/ UNCHANGED <<starved, blind>>
            \/ /\ Fopen(StatusFile, IF cntFile = NULL THEN fds ELSE fds - 1, cntFile')
               /\ blind' = (blind \/ Today \notin dirs)
        BY <2>3 DEF CountOpenFile
      <3>2. CASE UNCHANGED <<starved, blind>>
        BY <2>1, <3>2
      <3>3. CASE /\ Fopen(StatusFile, IF cntFile = NULL THEN fds ELSE fds - 1, cntFile')
                 /\ blind' = (blind \/ Today \notin dirs)
        <4>1. (starved => starved') /\ (blind => blind')
          BY <3>3, OpenedStarves, Zenon
        <4>2. QED
          BY <2>1, <4>1
      <3>4. QED
        BY <3>1, <3>2, <3>3
    <2>4. QED
      BY <2>1, <2>2, <2>3
  <1>8. CASE HivePart
    <2>1. UNCHANGED <<faulted, mkdirFailed, raced, blind, dirs>>
      BY <1>8 DEF HivePart, HiveStep, HiveOpenFile, HiveDrain, HiveNextQue, HiveFlush
    <2>2. \/ HiveOpenFile
          \/ UNCHANGED <<starved, hiveBlind>>
      BY <1>8 DEF HivePart, HiveStep, HiveDrain, HiveNextQue, HiveFlush
    <2>3. HiveOpenFile => (starved => starved') /\ (hiveBlind => hiveBlind')
      <3> HIDE DEF dayVars, logVars, statsVars, fileVars, workerVars, hiveVars
      <3>1. QED
        BY OpenedStarves, Zenon DEF HiveOpenFile, HiveFopen
    <2>4. QED
      BY <2>1, <2>2, <2>3
  <1>9. QED
    BY <1>1, <1>2, <1>3, <1>4, <1>5, <1>6, <1>7, <1>8, Zenon DEF Next

\* The causes of a NULL stream in the log.
LogCauses ==
    /\ \A t \in Threads : logPc[t] = "open" => logNext[1] \in dirs
    /\ \A t \in Threads : logPc[t] = "write" /\ logFile = NULL => starved \/ mkdirFailed

\* In a step of the log, the other threads are where they were, and outside of the mutex.
LEMMA OthersOutside ==
  ASSUME LogInv, NEW t \in Threads, NEW pc, LogGoto(t, pc),
         logPc[t] \in {"dir", "open", "write"}
  PROVE  /\ logPc'[t] = pc
         /\ \A s \in Threads : s # t => logPc'[s] = logPc[s] /\ logPc[s] \notin {"dir", "open", "write"}
  BY DEF LogInv, LogGuarded, LogMutexHeld, LogGoto

LEMMA LogCausesKept ==
  ASSUME LogInv, DirsInv, CauseInv, [Next]_vars
  PROVE  LogCauses'
  <1> USE DEF LogHolds
  <1>0. LogCauses /\ logPc \in [Threads -> {"idle", "lock", "dir", "open", "write", "fclose"}]
    BY DEF CauseInv, LogCauses, LogInv
  <1>1. CASE UNCHANGED vars
    BY <1>0, <1>1 DEF LogCauses, vars, dayVars, logVars
  <1>2. CASE Restart
    BY <1>2 DEF Restart, LogReset, LogCauses
  <1>3. SUFFICES ASSUME Next, ~Restart PROVE LogCauses'
    BY <1>1, <1>2
  <1>4. /\ starved => starved'
        /\ mkdirFailed => mkdirFailed'
        /\ dirs \subseteq dirs'
    BY <1>3, CausesStay
  <1>5. CASE UNCHANGED <<logPc, logNext, logFile>>
    BY <1>0, <1>4, <1>5 DEF LogCauses
  <1>6. CASE LogConstruct
    BY <1>6 DEF LogConstruct, LogInv, LogCauses
  <1>7. ASSUME NEW t \in Threads, LogNewDay(t) PROVE LogCauses'
    <2>1. CASE FileCreatDir(Today) /\ LogGoto(t, "open")
      <3>1. logNext'[1] \in dirs'
        BY <1>7, <2>1 DEF LogNewDay, FileCreatDir
      <3>2. \A s \in Threads : logPc'[s] # "write"
        BY <1>7, <2>1, OthersOutside DEF LogNewDay
      <3>3. QED
        BY <3>1, <3>2 DEF LogCauses
    <2>2. CASE mkdirFailed' /\ LogGoto(t, "write")
      <3>1. \A s \in Threads : logPc'[s] # "open"
        BY <1>7, <2>2, OthersOutside DEF LogNewDay
      <3>2. QED
        BY <2>2, <3>1 DEF LogCauses
    <2>3. QED
      BY <1>7, <2>1, <2>2 DEF LogNewDay
  <1>8. ASSUME NEW t \in Threads, LogSameDay(t) PROVE LogCauses'
    <2>1. CASE LogGoto(t, "open")
      <3>1. logNext'[1] \in dirs'
        BY <1>8, <2>1 DEF LogSameDay
      <3>2. \A s \in Threads : logPc'[s] # "write"
        BY <1>8, <2>1, OthersOutside DEF LogSameDay
      <3>3. QED
        BY <3>1, <3>2 DEF LogCauses
    <2>2. CASE LogGoto(t, "write") /\ (starved' \/ logFile' # NULL)
      <3>1. \A s \in Threads : logPc'[s] # "open"
        BY <1>8, <2>2, OthersOutside DEF LogSameDay
      <3>2. QED
        BY <2>2, <3>1 DEF LogCauses
    <2>3. QED
      BY <1>8, <2>1, <2>2 DEF LogSameDay, NeedsFile
  <1>9. ASSUME NEW t \in Threads, LogOpen(t) PROVE LogCauses'
    <2>1. logNext[1] \in dirs /\ logNext # NULL
      BY <1>0, <1>9, NullAssumption DEF LogOpen, LogCauses, DirsInv
    <2>2. \A s \in Threads : logPc'[s] # "open"
      BY <1>9, OthersOutside DEF LogOpen
    <2>3. Fopen(logNext, fds, logFile')
      BY <1>9 DEF LogOpen
    <2>4. logFile' # NULL \/ starved' = (starved \/ logNext[1] \in dirs)
      BY <2>1, <2>3, Opened
    <2>5. logFile' # NULL \/ starved'
      BY <2>1, <2>4, Zenon
    <2>6. QED
      BY <2>2, <2>5 DEF LogCauses
  <1>10. ASSUME NEW t \in Threads,
                \/ LogCall(t) \/ LogLock(t) \/ LogWrite(t) \/ LogWriteFails(t)
                \/ LogCrash(t) \/ LogFclose(t)
         PROVE  LogCauses'
    <2>1. UNCHANGED <<logNext, logFile>>
      BY <1>10 DEF LogCall, LogLock, LogWrite, LogWriteFails, LogCrash, LogFclose, logVars
    <2>2. \A s \in Threads : logPc'[s] \in {"open", "write"} => logPc'[s] = logPc[s]
      BY <1>0, <1>10 DEF LogCall, LogLock, LogWrite, LogWriteFails, LogCrash, LogFclose, logVars,
         LogGoto
    <2>3. QED
      BY <1>0, <1>4, <2>1, <2>2 DEF LogCauses
  <1>11. QED
    BY <1>3, <1>5, <1>6, <1>7, <1>8, <1>9, <1>10, LogChanges DEF LogStep, logVars

\* The causes of a NULL stream in the report.
LEMMA CountCausesKept ==
  ASSUME DirsInv, CauseInv, [Next]_vars, cntPc' # "off", cntFile' = NULL
  PROVE  starved' \/ blind'
  <1>0. cntPc # "off" /\ cntFile = NULL => starved \/ blind
    BY DEF CauseInv
  <1>1. CASE UNCHANGED vars
    BY <1>0, <1>1 DEF vars, dayVars, statsVars, fileVars
  <1>2. CASE Restart
    BY <1>2 DEF Restart
  <1>3. SUFFICES ASSUME Next, ~Restart PROVE starved' \/ blind'
    BY <1>1, <1>2
  <1>4. (starved => starved') /\ (blind => blind')
    BY <1>3, CausesStay
  <1>5. CASE (cntPc # "off" <=> cntPc' # "off") /\ UNCHANGED cntFile
    BY <1>0, <1>4, <1>5
  <1>6. CASE CountConstruct
    BY <1>6, Names, NullAssumption DEF CountConstruct
  <1>7. CASE CountOpenFile
    <2>1. CASE UNCHANGED cntFile
      BY <1>5, <1>7, <2>1 DEF CountOpenFile, CntAt
    <2>2. CASE /\ Fopen(StatusFile, IF cntFile = NULL THEN fds ELSE fds - 1, cntFile')
               /\ blind' = (blind \/ Today \notin dirs)
      <3>1. starved' = (starved \/ Today \in dirs)
        BY <2>2, Names, NullAssumption, Opened
      <3>2. QED
        BY <2>2, <3>1, Zenon
    <2>3. QED
      BY <1>7, <2>1, <2>2 DEF CountOpenFile
  <1>8. CASE CountAdd \/ CountClear \/ CountWrite
    BY <1>5, <1>8 DEF CountAdd, CountClear, CountWrite, CntAt, fileVars
  <1>9. ASSUME NEW w \in Workers, StatsWorkerStep(w) \/ \E u \in Users : CountRequest(w, u)
        PROVE  UNCHANGED <<cntPc, cntFile>>
    BY <1>9 DEF StatsWorkerStep, CountRequest, CountReq, FoundResult, EmptyResult, EmptyUncounted,
       EmptyLocate, CountEmpty, CountRes, SendRespones, SendFails, fileVars
  <1>10. QED
    BY <1>3, <1>5, <1>6, <1>7, <1>8, <1>9, StatsChange DEF CountStep, statsVars, fileVars

\* The causes of a NULL stream in the hive log.
LEMMA HiveCausesKept ==
  ASSUME DirsInv, CauseInv, [Next]_vars, hivePc' # "off", hiveFile' = NULL
  PROVE  starved' \/ hiveBlind'
  <1>0. hivePc # "off" /\ hiveFile = NULL => starved \/ hiveBlind
    BY DEF CauseInv
  <1>a. /\ HiveFile(hour) # NULL /\ HiveFile(hour)[1] = Today
    BY Names, NullAssumption
  <1>1. CASE UNCHANGED vars
    BY <1>0, <1>1 DEF vars, dayVars, hiveVars
  <1>2. CASE Restart
    BY <1>2 DEF Restart
  <1>3. SUFFICES ASSUME Next, ~Restart PROVE starved' \/ hiveBlind'
    BY <1>1, <1>2
  <1>4. (starved => starved') /\ (hiveBlind => hiveBlind')
    BY <1>3, CausesStay
  <1>5. CASE (hivePc # "off" <=> hivePc' # "off") /\ UNCHANGED hiveFile
    BY <1>0, <1>4, <1>5
  <1>6. CASE HiveConstruct
    <2>1. ~(Today \in dirs' /\ fds < MaxFds)
      BY <1>a, <1>6 DEF HiveConstruct
    <2>2. starved' = (starved \/ Today \in dirs')
      BY <1>6, <2>1 DEF HiveConstruct
    <2>3. hiveBlind' = (hiveBlind \/ Today \notin dirs')
      BY <1>6 DEF HiveConstruct
    <2>4. QED
      BY <2>2, <2>3, Zenon
  <1>7. CASE HiveOpenFile
    <2>1. /\ \E n : Fopen(HiveFile(hour), n, hiveFile')
          /\ hiveBlind' = (hiveBlind \/ HiveFile(hour)[1] \notin dirs')
          /\ dirs' = dirs
      BY <1>7 DEF HiveOpenFile, HiveFopen
    <2>2. starved' = (starved \/ HiveFile(hour)[1] \in dirs)
      BY <1>a, <2>1, Opened
    <2>3. HiveFile(hour)[1] \in dirs => HiveFile(hour)[1] \in dirs'
      BY <2>1
    <2>4. HiveFile(hour)[1] \in dirs => starved'
      BY <2>2, Zenon
    <2>5. HiveFile(hour)[1] \notin dirs' => hiveBlind'
      BY <2>1, Zenon
    <2>6. QED
      BY <2>1, <2>4, <2>5
  <1>8. ASSUME NEW w \in Workers, HivePush(w) \/ HiveDrain(w) \/ HiveNextQue(w) \/ HiveFlush
        PROVE  (hivePc # "off" <=> hivePc' # "off") /\ UNCHANGED hiveFile
    BY <1>8 DEF HivePush, HiveDrain, HiveNextQue, HiveFlush, HiveAt
  <1>9. 0 \in Workers
    BY DayAssumption DEF Workers
  <1>10. QED
    BY <1>3, <1>5, <1>6, <1>7, <1>8, <1>9, HiveChanges DEF HiveStep, hiveVars

\* The process dies in a use of a NULL or a freed pointer, and each has its cause.
LEMMA DeathHasCause ==
  ASSUME LogInv, CauseInv, [Next]_vars
  PROVE  DeathExplained'
  <1> USE DEF LogHolds
  <1>0. /\ \A t \in Threads : logPc[t] = "write" /\ logFile = NULL => starved \/ mkdirFailed
        /\ cntPc # "off" /\ cntFile = NULL => starved \/ blind
        /\ hivePc # "off" /\ hiveFile = NULL => starved \/ hiveBlind
        /\ logClosed => faulted
        /\ \A t \in Threads : logPc[t] = "fclose" => faulted
    BY DEF CauseInv, LogInv, LogGuarded, NoClosedStream
  <1>1. CASE UNCHANGED vars
    BY <1>1 DEF CauseInv, DeathExplained, vars, dayVars, logVars, statsVars, fileVars, hiveVars
  <1>2. CASE Restart
    BY <1>2 DEF Restart, DeathExplained
  <1>3. SUFFICES ASSUME Next, ~Restart PROVE DeathExplained'
    BY <1>1, <1>2
  <1>4. /\ starved => starved'
        /\ faulted => faulted'
        /\ mkdirFailed => mkdirFailed'
        /\ blind => blind'
        /\ hiveBlind => hiveBlind'
    BY <1>3, CausesStay
  <1>5. alive
    BY <1>3, AliveBefore
  <1>6. CASE alive' = alive
    BY <1>5, <1>6 DEF DeathExplained
  <1>7. CASE starved \/ faulted \/ mkdirFailed \/ blind \/ hiveBlind
    BY <1>4, <1>7, Zenon DEF DeathExplained
  <1>8. CASE raced' \/ mkdirFailed'
    BY <1>8, Zenon DEF DeathExplained
  <1>9. ASSUME NEW t \in Threads, LogPart(t) PROVE DeathExplained'
    <2>1. alive' = alive \/ logClosed \/ logPc[t] = "fclose" \/ (logPc[t] = "write" /\ logFile = NULL)
      BY <1>9 DEF LogPart, LogCall, LogStep, LogLock, LogNewDay, LogSameDay, LogOpen, LogWrite,
         LogWriteFails, LogCrash, LogFclose, LogCloseOld, dayVars
    <2>2. QED
      BY <1>0, <1>6, <1>7, <2>1
  <1>10. ASSUME NEW w \in Workers, Request(w) \/ WorkPart(w) \/ Record(w) PROVE DeathExplained'
    <2>1. \/ alive' = alive
          \/ freed[w] /\ raced' = (raced \/ freed[w] \/ Visiting(w))
      BY <1>10 DEF Request, WorkPart, Record, CountRequest, StatsWorkerStep, CountReq,
         FoundResult, EmptyResult, EmptyUncounted, EmptyLocate, CountEmpty, CountRes, SendRespones,
         SendFails, HivePush, Bump, dayVars
    <2>2. alive' = alive \/ raced'
      BY <2>1, Zenon
    <2>3. QED
      BY <1>6, <1>8, <2>2
  <1>11. CASE StartLog
    BY <1>6, <1>8, <1>11 DEF StartLog, LogConstruct
  <1>12. CASE ClockTicks \/ StartCount \/ StartHive
    BY <1>6, <1>12 DEF ClockTicks, Tick, StartCount, CountConstruct, StartHive, HiveConstruct
  <1>13. CASE CountPart
    <2>1. alive' = alive \/ (cntPc # "off" /\ cntFile = NULL)
      BY <1>13 DEF CountPart, CountStep, CountOpenFile, CountAdd, CountClear, CountWrite, CntAt,
         dayVars
    <2>2. QED
      BY <1>0, <1>6, <1>7, <2>1
  <1>14. CASE HivePart
    <2>1. alive' = alive \/ (hivePc # "off" /\ hiveFile = NULL)
      BY <1>14 DEF HivePart, HiveStep, HiveOpenFile, HiveDrain, HiveNextQue, HiveFlush, HiveAt,
         dayVars
    <2>2. QED
      BY <1>0, <1>6, <1>7, <2>1
  <1>15. QED
    BY <1>3, <1>9, <1>10, <1>11, <1>12, <1>13, <1>14 DEF Next

LEMMA CauseAlways == Spec => []CauseInv
  <1>1. Init => CauseInv
    BY DEF Init, DayInit, LogInit, StatsInit, HiveInit, CauseInv, DeathExplained
  <1>2. LogInv /\ DirsInv /\ CauseInv /\ [Next]_vars => CauseInv'
    BY LogCausesKept, CountCausesKept, HiveCausesKept, DeathHasCause DEF CauseInv, LogCauses
  <1>3. QED
    BY <1>1, <1>2, LogAlways, FilesAlways, PTL DEF Spec

\* The process dies of one of the causes only; a new day, a restart or a second file is none.
THEOREM DeathIsExplained == Spec => []DeathExplained
  <1>1. CauseInv => DeathExplained
    BY DEF CauseInv
  <1>2. QED
    BY <1>1, CauseAlways, PTL

-----------------------------------------------------------------------------
(* The day of a line                                                       *)

\* What the others do gives the log no directory of its own, and a new day has none.
LEMMA OwnDays ==
  ASSUME DirsInv,
         \/ ClockTicks \/ StartCount \/ StartHive \/ CountPart \/ HivePart
         \/ \E w \in Workers : Request(w) \/ WorkPart(w) \/ Record(w)
  PROVE  /\ dirs' \ foreign' \subseteq dirs \ foreign
         /\ Today' \in dirs' \ foreign' => Today' = Today
         /\ UNCHANGED <<logPc, logFile, logNext>>
  <1>1. CASE ClockTicks
    <2>1. UNCHANGED <<dirs, foreign, logPc, logFile, logNext>>
      BY <1>1 DEF ClockTicks, Tick, logVars
    <2>2. hour' = hour + 1 /\ hour \in Nat /\ hour' \in Nat
      BY <1>1, DayAssumption DEF ClockTicks, Tick, DirsInv
    <2>3. Today <= Today' /\ Today \in Nat /\ Today' \in Nat
      BY <2>2, DayOfMonotone DEF Today
    <2>4. Today' \in dirs => Today' <= Today
      BY DEF DirsInv
    <2>5. QED
      BY <2>1, <2>3, <2>4
  <1>2. CASE StartCount \/ StartHive
    <2>1. UNCHANGED <<hour, logPc, logFile, logNext>> /\ foreign' = foreign \cup (dirs' \ dirs)
      BY <1>2 DEF StartCount, CountConstruct, StartHive, HiveConstruct, logVars
    <2>2. QED
      BY <2>1 DEF Today
  <1>3. ASSUME NEW w \in Workers, Request(w) \/ WorkPart(w) \/ Record(w)
        PROVE UNCHANGED <<hour, dirs, foreign, logPc, logFile, logNext>>
    BY <1>3 DEF Request, WorkPart, Record, CountRequest, StatsWorkerStep, CountReq, FoundResult,
       EmptyResult, EmptyUncounted, EmptyLocate, CountEmpty, CountRes, SendRespones, SendFails,
       HivePush, dayVars, logVars
  <1>4. CASE CountPart \/ HivePart
    <2>1. UNCHANGED <<hour, dirs, foreign, logPc, logFile, logNext>>
      BY <1>4 DEF CountPart, CountStep, CountOpenFile, CountAdd, CountClear, CountWrite, HivePart,
         HiveStep, HiveOpenFile, HiveDrain, HiveNextQue, HiveFlush, dayVars, logVars
    <2>2. QED
      BY <2>1 DEF Today
  <1>5. QED
    BY <1>1, <1>2, <1>3, <1>4 DEF Today

\* Every step keeps the days together.
LEMMA DayKept ==
  ASSUME LogInv, DirsInv, DayInv, [Next]_vars
  PROVE  DayInv'
  <1> USE DEF LogHolds
  <1>0. logPc \in [Threads -> {"idle", "lock", "dir", "open", "write", "fclose"}]
    BY DEF LogInv
  <1>1. CASE /\ dirs' \ foreign' \subseteq dirs \ foreign
             /\ Today' \in dirs' \ foreign' => Today' = Today
             /\ UNCHANGED <<logPc, logFile, logNext>>
    <2> DEFINE own == dirs \ foreign
    <2>1. own' \subseteq own /\ (Today' \in own' => Today' = Today)
      BY <1>1
    <2>2. DayInv <=>
            /\ \A t \in Threads : logPc[t] = "open" /\ Today \in own => logNext[1] = Today
            /\ (\A t \in Threads : logPc[t] # "open") /\ logFile # NULL /\ Today \in own
                  => logFile[1] = Today
            /\ \A t \in Threads : logPc[t] = "write" /\ logFile # NULL /\ logNext[1] \in own
                  => logFile[1] = logNext[1]
      BY DEF DayInv
    <2>3. DayInv' <=>
            /\ \A t \in Threads : logPc[t] = "open" /\ Today' \in own' => logNext[1] = Today'
            /\ (\A t \in Threads : logPc[t] # "open") /\ logFile # NULL /\ Today' \in own'
                  => logFile[1] = Today'
            /\ \A t \in Threads : logPc[t] = "write" /\ logFile # NULL /\ logNext[1] \in own'
                  => logFile[1] = logNext[1]
      BY <1>1 DEF DayInv
    <2> HIDE DEF own
    <2>4. QED
      BY <2>1, <2>2, <2>3
  <1>2. CASE UNCHANGED vars
    BY <1>1, <1>2 DEF vars, dayVars, logVars, Today
  <1>3. CASE Restart
    BY <1>3 DEF Restart, LogReset, DayInv
  <1>4. CASE StartLog
    <2>1. \A t \in Threads : logPc'[t] = "idle"
      BY <1>4 DEF StartLog, LogConstruct, LogInv
    <2>2. Today' = Today
      BY <1>4 DEF StartLog, LogConstruct, Today
    <2>3. logFile' = NULL \/ logFile'[1] = Today
      <3>1. logFile = NULL
        BY <1>4 DEF StartLog, LogConstruct, LogInv
      <3>2. logFile' = logFile \/ \E n : logFile' = <<Today, LogName(n)>>
        BY <1>4, Zenon DEF StartLog, LogConstruct
      <3>3. \A n : <<Today, LogName(n)>>[1] = Today
        OBVIOUS
      <3>4. QED
        BY <3>1, <3>2, <3>3
    <2>4. \A t \in Threads : logPc'[t] # "open" /\ logPc'[t] # "write"
      BY <2>1
    <2>5. logFile' # NULL => logFile'[1] = Today'
      BY <2>2, <2>3
    <2>6. QED
      BY <2>4, <2>5 DEF DayInv
  <1>5. ASSUME NEW t \in Threads, LogNewDay(t), foreign' = foreign PROVE DayInv'
    <2>1. Today' = Today /\ logNext'[1] = Today
      BY <1>5 DEF LogNewDay, Today
    <2>2. CASE LogGoto(t, "open")
      <3>1. \A s \in Threads : logPc'[s] # "write"
        BY <1>5, <2>2, OthersOutside DEF LogNewDay
      <3>2. logPc'[t] = "open"
        BY <1>5, <2>2, OthersOutside DEF LogNewDay
      <3>3. QED
        BY <2>1, <3>1, <3>2 DEF DayInv
    <2>3. CASE LogGoto(t, "write") /\ UNCHANGED dirs
      <3>1. \A s \in Threads : logPc'[s] # "open"
        BY <1>5, <2>3, OthersOutside DEF LogNewDay
      <3>2. Today \notin dirs'
        BY <1>5, <2>3 DEF LogNewDay
      <3>3. QED
        BY <2>1, <3>1, <3>2 DEF DayInv
    <2>4. QED
      BY <1>5, <2>2, <2>3 DEF LogNewDay
  <1>6. ASSUME NEW t \in Threads, LogSameDay(t), foreign' = foreign PROVE DayInv'
    <2>1. Today' = Today /\ logNext'[1] = Today /\ dirs' = dirs
      BY <1>6 DEF LogSameDay, Today
    <2>2. CASE LogGoto(t, "open")
      <3>1. \A s \in Threads : logPc'[s] # "write"
        BY <1>6, <2>2, OthersOutside DEF LogSameDay
      <3>2. logPc'[t] = "open"
        BY <1>6, <2>2, OthersOutside DEF LogSameDay
      <3>3. QED
        BY <2>1, <3>1, <3>2 DEF DayInv
    <2>3. CASE LogGoto(t, "write") /\ UNCHANGED logFile
      <3>1. \A s \in Threads : logPc'[s] # "open" /\ logPc[s] # "open"
        BY <1>6, <2>3, OthersOutside DEF LogSameDay
      <3>2. logFile # NULL /\ Today \in dirs \ foreign => logFile[1] = Today
        BY <3>1 DEF DayInv
      <3>3. QED
        BY <1>6, <2>1, <2>3, <3>1, <3>2 DEF DayInv
    <2>4. QED
      BY <1>6, <2>2, <2>3 DEF LogSameDay
  <1>7. ASSUME NEW t \in Threads, LogOpen(t), foreign' = foreign PROVE DayInv'
    <2>1. Today' = Today /\ logNext' = logNext /\ dirs' = dirs
      BY <1>7 DEF LogOpen, Today
    <2>2. Today \in dirs \ foreign => logNext[1] = Today
      BY <1>7 DEF LogOpen, DayInv
    <2>3. logFile' = NULL \/ logFile' = logNext
      BY <1>7 DEF LogOpen, Fopen
    <2>4. \A s \in Threads : logPc'[s] # "open"
      BY <1>7, OthersOutside DEF LogOpen
    <2>5. QED
      BY <1>7, <2>1, <2>2, <2>3, <2>4 DEF DayInv
  <1>8. ASSUME NEW t \in Threads, foreign' = foreign,
               \/ LogCall(t) \/ LogLock(t) \/ LogWrite(t) \/ LogWriteFails(t)
               \/ LogCrash(t) \/ LogFclose(t)
        PROVE  DayInv'
    <2>1. UNCHANGED <<hour, dirs, logNext, logFile>>
      BY <1>8 DEF LogCall, LogLock, LogWrite, LogWriteFails, LogCrash, LogFclose, logVars, dayVars
    <2>2. \A s \in Threads : /\ logPc'[s] = "write" => logPc[s] = "write"
                             /\ logPc'[s] = "open" <=> logPc[s] = "open"
      BY <1>0, <1>8 DEF LogCall, LogLock, LogWrite, LogWriteFails, LogCrash, LogFclose, logVars,
         LogGoto
    <2>3. Today' = Today
      BY <2>1 DEF Today
    <2>4. QED
      BY <1>8, <2>1, <2>2, <2>3 DEF DayInv
  <1>9. ASSUME NEW t \in Threads, LogPart(t) PROVE DayInv'
    BY <1>5, <1>6, <1>7, <1>8, <1>9 DEF LogPart, LogStep
  <1>10. QED
    BY <1>1, <1>2, <1>3, <1>4, <1>9, OwnDays DEF Next

\* A line goes to the file of the day of its entry, if CLog made the directory of that day.
THEOREM LinesFollowDay == Spec => []LogFollowsDay
  <1>1. Init => DayInv
    BY DEF Init, LogInit, DayInv
  <1>2. LogInv /\ DirsInv /\ DayInv /\ [Next]_vars => DayInv'
    BY DayKept
  <1>3. DayInv => LogFollowsDay
    BY DEF DayInv, LogFollowsDay, LogHolds
  <1>4. QED
    BY <1>1, <1>2, <1>3, LogAlways, FilesAlways, PTL DEF Spec

=============================================================================
