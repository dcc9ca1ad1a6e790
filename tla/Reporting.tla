------------------------------ MODULE Reporting ------------------------------
(***************************************************************************)
(* The log, the statistics report and the hive log in one process: they    *)
(* are constructed in this order while time passes, share the directory of *)
(* the day and the descriptors, and die together.  An operator may start a *)
(* dead process again; one restart is enough to find old files.            *)
(***************************************************************************)
EXTENDS LogFile, StatsReport, HiveLog

CONSTANT
    MayRestart  \* TRUE: an operator starts the process again when it dies (once)

ASSUME ReportingAssumption == MayRestart \in BOOLEAN

(* The files below "./logs": <<day, name>>. *)
AllFiles == Nat \X ({StatusName} \union ({"log", "hive"} \X Nat))

ASSUME NullAssumption == NULL \notin AllFiles

VARIABLES
    foreign,    \* history: days whose directory was not made by CLog
    died        \* history: the process has died before

vars == <<dayVars, logVars, statsVars, hiveVars, foreign, died>>

Init ==
    /\ DayInit
    /\ LogInit
    /\ StatsInit
    /\ HiveInit
    /\ foreign = {}
    /\ died = FALSE

(* The server is constructed last: requests come only then. *)
Up == hivePc # "off"

LogPart(t) ==
    /\ LogCall(t) \/ LogStep(t)
    /\ UNCHANGED <<statsVars, hiveVars, foreign, died>>

StartLog ==
    /\ LogConstruct
    /\ UNCHANGED <<statsVars, hiveVars, foreign, died>>

StartCount ==
    /\ logOn
    /\ CountConstruct
    /\ foreign' = foreign \union (dirs' \ dirs)
    /\ UNCHANGED <<logVars, hiveVars, died>>

StartHive ==
    /\ cntPc # "off"
    /\ HiveConstruct
    /\ foreign' = foreign \union (dirs' \ dirs)
    /\ UNCHANGED <<logVars, statsVars, died>>

Request(w) ==
    /\ Up
    /\ \E u \in Users : CountRequest(w, u)
    /\ UNCHANGED <<logVars, hiveVars, foreign, died>>

WorkPart(w) ==
    /\ StatsWorkerStep(w)
    /\ UNCHANGED <<logVars, hiveVars, foreign, died>>

CountPart ==
    /\ CountStep
    /\ UNCHANGED <<logVars, hiveVars, foreign, died>>

Record(w) ==
    /\ Up
    /\ HivePush(w)
    /\ UNCHANGED <<logVars, statsVars, foreign, died>>

HivePart ==
    /\ HiveStep
    /\ UNCHANGED <<logVars, statsVars, foreign, died>>

ClockTicks ==
    /\ Tick
    /\ UNCHANGED <<logVars, statsVars, hiveVars, foreign, died>>

(* A new process: memory and descriptors are fresh, the files remain.  Counts  *)
(* and records that were not written are gone.                                 *)
Restart ==
    /\ ~alive
    /\ MayRestart
    /\ ~died
    /\ alive' = TRUE
    /\ fds' = 0
    /\ starved' = FALSE
    /\ died' = TRUE
    /\ LogReset
    /\ cntPc' = "off"
    /\ cntFile' = NULL
    /\ cntAt' = 0
    /\ sum' = Cleared
    /\ cells' = [w \in Workers |-> Cleared]
    /\ workPc' = [w \in Workers |-> "idle"]
    /\ workUser' = [w \in Workers |-> NoUser]
    /\ freed' = [w \in Workers |-> FALSE]
    /\ raced' = FALSE
    /\ blind' = FALSE
    /\ hivePc' = "off"
    /\ hiveFile' = NULL
    /\ hiveHeld' = [f \in HiveFiles |-> 0]
    /\ hiveAt' = 0
    /\ hiveQue' = [w \in Workers |-> <<>>]
    /\ hiveBlind' = FALSE
    /\ UNCHANGED <<hour, dirs, files, redis, requests, counted, written, cleared,
                   hivePushed, hiveOut, foreign>>

Next ==
    \/ ClockTicks
    \/ StartLog
    \/ StartCount
    \/ StartHive
    \/ \E t \in Threads : LogPart(t)
    \/ \E w \in Workers : Request(w) \/ WorkPart(w) \/ Record(w)
    \/ CountPart
    \/ HivePart
    \/ Restart

Spec == Init /\ [][Next]_vars

-----------------------------------------------------------------------------
(* Types of all variables. *)
TypeOK ==
    /\ DayTypeOK
    /\ logOn \in BOOLEAN /\ logClosed \in BOOLEAN
    /\ faulted \in BOOLEAN /\ mkdirFailed \in BOOLEAN
    /\ logFile # NULL => logFile \in files
    /\ mutex \in Threads \union {NoOne}
    /\ logPc \in [Threads -> {"idle", "lock", "dir", "open", "write", "fclose"}]
    /\ logNext[1] \in Days
    /\ cntPc \in {"off", "open", "add", "clear"}
    /\ cntFile # NULL => cntFile \in files
    /\ cntAt \in 0 .. N
    /\ workPc \in [Workers -> {"idle", "req", "run", "res", "send", "find", "empty"}]
    /\ workUser \in [Workers -> Users \union {NoUser}]
    /\ freed \in [Workers -> BOOLEAN]
    /\ hivePc \in {"off", "open", "drain"}
    /\ hiveFile # NULL => hiveFile \in files
    /\ hiveAt \in 0 .. N

(* The process dies of five causes only: descriptors ran out, a log write or  *)
(* a mkdir failed, a counter was incremented in a map that was just cleared,  *)
(* or a report was due on a day that nobody had logged on.  In particular a   *)
(* new day, a restart or a second file alone never leads to a NULL FILE.      *)
DeathExplained ==
    alive \/ starved \/ faulted \/ mkdirFailed \/ raced \/ blind \/ hiveBlind

(* write_d never uses or closes a stream that was closed, as long as no write *)
(* has failed: each fclose in LogCreatLogDir is followed by m_pFile = NULL    *)
(* before the mutex is released.  And the mutex is held by the one thread     *)
(* between lock and unlock and by nobody else: no early return and no failed  *)
(* write keeps it.                                                            *)
NoClosedStream == logClosed => faulted
LogMutexHeld == \A t \in Threads : mutex = t <=> logPc[t] \in {"dir", "open", "write"}
LogGuarded == NoClosedStream /\ LogMutexHeld

(* A line goes to the file of the day on which it was logged, whoever made    *)
(* the first entry of that day; except when the directory was made by the     *)
(* constructor of the report or of the hive log (a start at midnight).        *)
LogFollowsDay ==
    \A t \in Threads :
        LogHolds(t, "write") /\ logFile # NULL /\ logNext[1] \in dirs \ foreign
            => logFile[1] = logNext[1]

(* The i-th stream of a file, for each the hive log has open. *)
HiveStreams(held) == {s \in HiveFiles \X (1 .. MaxFds) : s[2] <= held[s[1]]}

(* Every open stream has an owner that knows it: no stream is closed twice    *)
(* and only the hive log's are without a pointer.                             *)
FdsAccounted ==
    alive => fds = (IF logFile # NULL /\ ~logClosed THEN 1 ELSE 0)
                   + (IF cntFile # NULL THEN 1 ELSE 0)
                   + Cardinality(HiveStreams(hiveHeld))

(* What a map counts for a user. *)
Amount(m, u, c) == IF m[u] = Absent THEN 0 ELSE m[u][c]

(* Each count that is in a worker's map, with the worker and a number. *)
Tally(u, c) == UNION {{w} \X (1 .. Amount(cells[w], u, c)) : w \in Workers}

Pending(u, c) == Amount(sum, u, c) + Cardinality(Tally(u, c))

(* A worker's counts that the report thread has added already and is about to *)
(* clear are in two places.                                                   *)
AddedTwice(u, c) == IF cntPc = "clear" THEN Amount(cells[cntAt], u, c) ELSE 0

NeverOvercounted ==
    alive => \A u \in Users, c \in Counters :
        written[u][c] + Pending(u, c) - AddedTwice(u, c) <= counted[u][c]

ExactUnlessRaced ==
    alive /\ ~raced /\ ~died /\ cntPc # "clear" => \A u \in Users, c \in Counters :
        written[u][c] + Pending(u, c) = counted[u][c]

(* The status files never show more than was counted, whatever the threads do *)
(* at the same time: nothing is added twice.  And they show exactly what was  *)
(* counted, unless a worker counted while its map was being read and cleared, *)
(* or the process died.                                                       *)
CountsReported == NeverOvercounted /\ ExactUnlessRaced

InFlight(u) == {w \in Workers : workUser[w] = u /\ workPc[w] \in {"req", "run"}}

(* In Redis every request of a user ends as exactly one result or one empty   *)
(* result, unless its worker's map was cleared while it ran, or the process   *)
(* died.  (Then EmptyRes_ is not incremented.)                                *)
EmptySettled ==
    alive /\ ~cleared /\ ~died => \A u \in Users :
        redis[u]["req"] = redis[u]["res"] + redis[u]["empty"] + Cardinality(InFlight(u))

(* Records of one worker reach the files in the order pushed, none twice, and *)
(* as long as the process lives none is lost.                                 *)
HiveInOrder ==
    \A w \in Workers :
        /\ \A i, j \in DOMAIN hiveOut[w] : i < j => hiveOut[w][i] < hiveOut[w][j]
        /\ alive /\ ~died => hiveOut[w] \o hiveQue[w] = [i \in 1 .. hivePushed[w] |-> i]

=============================================================================
