----------------------------- MODULE StatsReport -----------------------------
(***************************************************************************)
(* The request counters: each worker counts in its own element of          *)
(* m_vecReport, a std::map from a user name to its counters; the report    *)
(* thread adds every worker's map to its own, clears it, and writes the    *)
(* sums to the status file of the day.  None of them takes a lock.         *)
(*                                                                         *)
(* m_strUserInfo[name].x++ is two steps: the element is located (made if   *)
(* there is none), then incremented; clear() in between frees it.  What is *)
(* counted for a request under the name of the remote operator goes the    *)
(* same way and is left out.                                               *)
(***************************************************************************)
EXTENDS DayFiles

CONSTANTS
    Users,          \* the user names requests are counted under
    NoUser,         \* the worker has no request
    MaxRequests     \* bound on the requests of one worker

ASSUME StatsAssumption == NoUser \notin Users /\ MaxRequests \in Nat

VARIABLES
    cntPc,      \* where the report thread is
    cntFile,    \* m_pFile of CUserQueryCount
    cntAt,      \* the worker BdxQueryCountGetReport is at
    sum,        \* m_stReport
    cells,      \* m_vecReport: per worker and user the counters, or Absent
    workPc,     \* where each worker's request is, as far as it is counted
    workUser,   \* stResponseInfo.ssUserName
    freed,      \* the element a worker has located was freed since
    redis,      \* the Req_, Res_ and EmptyRes_ counters of the user in Redis
    requests,   \* history: requests each worker has had
    counted,    \* history: increments of each counter, per user
    written,    \* history: what the status files say, per user
    raced,      \* history: a worker counted while its map was read and cleared
    cleared,    \* history: a map was cleared while its worker had a request
    blind       \* history: the report thread found no directory for its file

statsVars == <<cntPc, cntFile, cntAt, sum, cells, workPc, workUser, freed,
               redis, requests, counted, written, raced, cleared, blind>>

workerVars == <<workPc, workUser, freed, redis, requests>>
fileVars == <<cntFile, written, blind>>

Counters == {"req", "res", "empty"}
Zero == [c \in Counters |-> 0]
Absent == [c \in Counters |-> -1]

Present(m) == {u \in Users : m[u] # Absent}
Value(m, u) == IF m[u] = Absent THEN Zero ELSE m[u]

(* m_strUserInfo[u]: a missing element is made with all counters zero. *)
Located(m, u) == [m EXCEPT ![u] = Value(m, u)]

(* operator += of UserQueryReport. *)
AddReport(a, b) ==
    [u \in Users |-> IF b[u] = Absent THEN a[u]
                     ELSE [c \in Counters |-> Value(a, u)[c] + b[u][c]]]

(* operator = of UserQueryReport. *)
Cleared == [u \in Users |-> Absent]

StatusName == <<"status">>

StatsInit ==
    /\ cntPc = "off"
    /\ cntFile = NULL
    /\ cntAt = 0
    /\ sum = Cleared
    /\ cells = [w \in Workers |-> Cleared]
    /\ workPc = [w \in Workers |-> "idle"]
    /\ workUser = [w \in Workers |-> NoUser]
    /\ freed = [w \in Workers |-> FALSE]
    /\ redis = [u \in Users |-> Zero]
    /\ requests = [w \in Workers |-> 0]
    /\ counted = [u \in Users |-> Zero]
    /\ written = [u \in Users |-> Zero]
    /\ raced = FALSE
    /\ cleared = FALSE
    /\ blind = FALSE

-----------------------------------------------------------------------------
(* The workers                                                               *)

WorkAt(w, pc) == alive /\ workPc[w] = pc
WorkGoto(w, pc) == workPc' = [workPc EXCEPT ![w] = pc]

RedisIncr(u, c) == redis' = [redis EXCEPT ![u][c] = @ + 1]

(* The report thread is between the addition and the clearing of w's map. *)
Visiting(w) == cntPc = "clear" /\ cntAt = w

(* operator[] of w's map for its user. *)
Locate(w, u) ==
    /\ cells' = [cells EXCEPT ![w] = Located(@, u)]
    /\ freed' = [freed EXCEPT ![w] = FALSE]

(* x++ on the located element.  A write to a freed element is lost or ends   *)
(* the process.                                                              *)
Bump(w, c) ==
    LET u == workUser[w]
    IN /\ counted' = [counted EXCEPT ![u][c] = @ + 1]
       /\ \/ /\ ~freed[w]
             /\ cells' = [cells EXCEPT ![w][u][c] = @ + 1]
             /\ UNCHANGED alive
          \/ /\ freed[w]
             /\ UNCHANGED <<cells, alive>>
          \/ /\ freed[w]
             /\ Dies
             /\ UNCHANGED cells
       /\ raced' = (raced \/ freed[w] \/ Visiting(w))
       /\ freed' = [freed EXCEPT ![w] = FALSE]

(* A request passes the tokens: Req_ in Redis, then the element is located. *)
CountRequest(w, u) ==
    /\ WorkAt(w, "idle")
    /\ requests[w] < MaxRequests
    /\ requests' = [requests EXCEPT ![w] = @ + 1]
    /\ workUser' = [workUser EXCEPT ![w] = u]
    /\ RedisIncr(u, "req")
    /\ Locate(w, u)
    /\ WorkGoto(w, "req")
    /\ UNCHANGED <<hour, dirs, files, fds, alive, starved, cntPc, cntAt, sum, fileVars,
                   counted, raced, cleared>>

(* m_ullReqNum++ (m_ullResTagNum goes the same way). *)
CountReq(w) ==
    /\ WorkAt(w, "req")
    /\ Bump(w, "req")
    /\ WorkGoto(w, "run")
    /\ UNCHANGED <<hour, dirs, files, fds, starved, cntPc, cntAt, sum, fileVars,
                   workUser, redis, requests, cleared>>

(* The location was found: Res_ in Redis, locate the element. *)
FoundResult(w) ==
    /\ WorkAt(w, "run")
    /\ RedisIncr(workUser[w], "res")
    /\ Locate(w, workUser[w])
    /\ WorkGoto(w, "res")
    /\ UNCHANGED <<dayVars, cntPc, cntAt, sum, fileVars, workUser, requests,
                   counted, raced, cleared>>

(* Faulty variant: the empty answer is counted in Redis twice, once where it  *)
(* is found and once where it is sent.                                        *)
DoubleEmptyResult(w) ==
    /\ WorkAt(w, "run")
    /\ cells[w][workUser[w]] # Absent
    /\ redis' = [redis EXCEPT ![workUser[w]]["empty"] = @ + 2]
    /\ WorkGoto(w, "find")
    /\ UNCHANGED <<dayVars, cntPc, cntAt, sum, fileVars, cells, workUser, freed, requests,
                   counted, raced, cleared>>

(* The request failed after it was counted: EmptyRes_ is incremented only if  *)
(* the user is still in the worker's map.                                     *)
EmptyResult(w) ==
    /\ WorkAt(w, "run")
    /\ cells[w][workUser[w]] # Absent
    /\ RedisIncr(workUser[w], "empty")
    /\ WorkGoto(w, "find")
    /\ UNCHANGED <<dayVars, cntPc, cntAt, sum, fileVars, cells, workUser, freed, requests,
                   counted, raced, cleared>>

EmptyUncounted(w) ==
    /\ WorkAt(w, "run")
    /\ cells[w][workUser[w]] = Absent
    /\ WorkGoto(w, "idle")
    /\ workUser' = [workUser EXCEPT ![w] = NoUser]
    /\ UNCHANGED <<dayVars, cntPc, cntAt, sum, fileVars, cells, freed, redis, requests,
                   counted, raced, cleared>>

(* m_strUserInfo[...] again, after the Redis command. *)
EmptyLocate(w) ==
    /\ WorkAt(w, "find")
    /\ Locate(w, workUser[w])
    /\ WorkGoto(w, "empty")
    /\ UNCHANGED <<dayVars, cntPc, cntAt, sum, fileVars, workUser, redis, requests,
                   counted, raced, cleared>>

(* m_ullEmptyResNum++; the request ends. *)
CountEmpty(w) ==
    /\ WorkAt(w, "empty")
    /\ Bump(w, "empty")
    /\ WorkGoto(w, "idle")
    /\ workUser' = [workUser EXCEPT ![w] = NoUser]
    /\ UNCHANGED <<hour, dirs, files, fds, starved, cntPc, cntAt, sum, fileVars,
                   redis, requests, cleared>>

(* m_ullResNum++; the answer is sent next. *)
CountRes(w) ==
    /\ WorkAt(w, "res")
    /\ Bump(w, "res")
    /\ WorkGoto(w, "send")
    /\ UNCHANGED <<hour, dirs, files, fds, starved, cntPc, cntAt, sum, fileVars,
                   workUser, redis, requests, cleared>>

(* BdxSendRespones: the answer is written, or the request counts as empty in  *)
(* the report as well (not in Redis).                                         *)
SendRespones(w) ==
    /\ WorkAt(w, "send")
    /\ WorkGoto(w, "idle")
    /\ workUser' = [workUser EXCEPT ![w] = NoUser]
    /\ UNCHANGED <<dayVars, cntPc, cntAt, sum, fileVars, cells, freed, redis, requests,
                   counted, raced, cleared>>

SendFails(w) ==
    /\ WorkAt(w, "send")
    /\ Locate(w, workUser[w])
    /\ WorkGoto(w, "empty")
    /\ UNCHANGED <<dayVars, cntPc, cntAt, sum, fileVars, workUser, redis, requests,
                   counted, raced, cleared>>

StatsWorkerStep(w) ==
    \/ CountReq(w)
    \/ FoundResult(w)
    \/ EmptyResult(w)
    \/ EmptyUncounted(w)
    \/ EmptyLocate(w)
    \/ CountEmpty(w)
    \/ CountRes(w)
    \/ SendRespones(w)
    \/ SendFails(w)

-----------------------------------------------------------------------------
(* The report thread                                                         *)

CntAt(pc) == alive /\ cntPc = pc

StatusFile == <<Today, StatusName>>

(* The constructor makes the directory of the day and opens the file.  The    *)
(* workers run already, but the server does not: there is nothing to count.   *)
CountConstruct ==
    /\ CntAt("off")
    /\ \/ /\ FileCreatDir(Today)
          /\ IF fds < MaxFds
             THEN /\ cntFile' = StatusFile
                  /\ files' = files \union {StatusFile}
                  /\ fds' = fds + 1
                  /\ UNCHANGED <<starved, blind>>
             ELSE /\ cntFile' = NULL
                  /\ starved' = TRUE
                  /\ UNCHANGED <<files, fds, blind>>
       \/ /\ DiskFaults
          /\ Today \notin dirs
          /\ cntFile' = NULL
          /\ blind' = TRUE
          /\ UNCHANGED <<dirs, files, fds, starved>>
    /\ cntPc' = "open"
    /\ UNCHANGED <<hour, alive, cntAt, sum, cells, workerVars, counted, written,
                   raced, cleared>>

(* BdxQueryCountOpenFile: when the file of the day does not exist the old one  *)
(* is closed and the new one opened, without making its directory.             *)
CountOpenFile ==
    /\ CntAt("open")
    /\ cntPc' = "add"
    /\ cntAt' = 0
    /\ \/ /\ FileBeExists(StatusFile)
          /\ UNCHANGED <<files, fds, starved, cntFile, blind>>
       \/ /\ ~FileBeExists(StatusFile)
          /\ Fopen(StatusFile, IF cntFile = NULL THEN fds ELSE fds - 1, cntFile')
          /\ blind' = (blind \/ Today \notin dirs)
    /\ UNCHANGED <<hour, dirs, alive, sum, cells, workerVars, counted, written,
                   raced, cleared>>

(* BdxQueryCountGetReport, the addition of one worker's map. *)
CountAdd ==
    /\ CntAt("add")
    /\ cntAt < N
    /\ sum' = AddReport(sum, cells[cntAt])
    /\ cntPc' = "clear"
    /\ UNCHANGED <<dayVars, cntAt, fileVars, cells, workerVars, counted, raced, cleared>>

(* Faulty variant: the worker's map is not cleared once it was added. *)
KeepingClear ==
    /\ CntAt("clear")
    /\ cntAt' = cntAt + 1
    /\ cntPc' = "add"
    /\ UNCHANGED <<dayVars, cells, sum, fileVars, workerVars, counted, raced, cleared>>

(* ... and its clearing. *)
CountClear ==
    /\ CntAt("clear")
    /\ cells' = [cells EXCEPT ![cntAt] = Cleared]
    /\ freed' = [freed EXCEPT ![cntAt] = workPc[cntAt] \in {"req", "res", "empty"}]
    /\ cleared' = (cleared \/ workPc[cntAt] # "idle")
    /\ cntAt' = cntAt + 1
    /\ cntPc' = "add"
    /\ UNCHANGED <<dayVars, sum, fileVars, workPc, workUser, redis, requests, counted, raced>>

(* Write the sums, m_stReport = 0, sleep.  fprintf(NULL) ends the process;    *)
(* with nothing to write only fflush(NULL) is called, which is harmless.      *)
CountWrite ==
    /\ CntAt("add")
    /\ cntAt = N
    /\ \/ /\ cntFile # NULL \/ Present(sum) = {}
          /\ written' = [u \in Users |-> [c \in Counters |-> written[u][c] + Value(sum, u)[c]]]
          /\ sum' = Cleared
          /\ cntPc' = "open"
          /\ UNCHANGED alive
       \/ /\ cntFile = NULL
          /\ Present(sum) # {}
          /\ Dies
          /\ UNCHANGED <<written, sum, cntPc>>
    /\ UNCHANGED <<hour, dirs, files, fds, starved, cntAt, cntFile, blind,
                   cells, workerVars, counted, raced, cleared>>

CountStep ==
    \/ CountOpenFile
    \/ CountAdd
    \/ CountClear
    \/ CountWrite

=============================================================================
