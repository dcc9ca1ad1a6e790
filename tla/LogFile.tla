------------------------------- MODULE LogFile -------------------------------
(***************************************************************************)
(* CLog, the log library: write_d appends a line to the file of the day    *)
(* under a mutex.  LogCreatLogDir makes the directory of a new day and     *)
(* moves to a new file.  When a write fails the mutex is released first    *)
(* and the file closed afterwards, and m_pFile keeps the closed stream.    *)
(* Calls below the configured rank return at once and are left out.        *)
(***************************************************************************)
EXTENDS DayFiles

CONSTANTS
    Threads,    \* the threads that log
    NoOne       \* the mutex is free

ASSUME LogAssumption == NoOne \notin Threads

VARIABLES
    logOn,      \* gp_log was constructed
    logFile,    \* m_pFile: NULL or the file of the stream
    logClosed,  \* m_pFile is a stream that was closed already
    mutex,      \* m_Mutex: its owner or NoOne
    logPc,      \* where each thread is in write_d
    logNext,    \* strLogDir and m_iLogFileId: the file LogCreatLogDir would open now
    faulted,    \* history: a write has failed
    mkdirFailed \* history: a directory could not be made

logVars == <<logOn, logFile, logClosed, mutex, logPc, logNext, faulted, mkdirFailed>>

LogName(id) == <<"log", id>>

LogInit ==
    /\ logOn = FALSE
    /\ logFile = NULL
    /\ logClosed = FALSE
    /\ mutex = NoOne
    /\ logPc = [t \in Threads |-> "idle"]
    /\ logNext = <<0, LogName(0)>>
    /\ faulted = FALSE
    /\ mkdirFailed = FALSE

LogGoto(t, pc) == logPc' = [logPc EXCEPT ![t] = pc]

LogHolds(t, pc) == alive /\ mutex = t /\ logPc[t] = pc

-----------------------------------------------------------------------------
(* The constructor: LogCreatLogDir with m_pFile = NULL.  A failure is an     *)
(* exception that ends the program.                                          *)
LogConstruct ==
    /\ alive
    /\ ~logOn
    /\ \/ /\ FileCreatDir(Today)
          /\ LET id == Cardinality(LogFileListFiles(Today))
                 f  == <<Today, LogName(id)>>
             IN /\ files' = files \union {f}
                /\ fds' = fds + 1
                /\ logFile' = f
          /\ logOn' = TRUE
          /\ logClosed' = FALSE
          /\ UNCHANGED <<alive, mkdirFailed>>
       \/ /\ DiskFaults
          /\ Today \notin dirs
          /\ mkdirFailed' = TRUE
          /\ Dies
          /\ UNCHANGED <<dirs, files, fds, logOn, logFile, logClosed>>
    /\ UNCHANGED <<hour, starved, mutex, logPc, logNext, faulted>>

(* LOG(rank, ...) with a rank that is written. *)
LogCall(t) ==
    /\ alive
    /\ logOn
    /\ logPc[t] = "idle"
    /\ LogGoto(t, "lock")
    /\ UNCHANGED <<dayVars, logOn, logFile, logClosed, mutex, logNext, faulted, mkdirFailed>>

LogLock(t) ==
    /\ alive
    /\ logPc[t] = "lock"
    /\ mutex = NoOne
    /\ mutex' = t
    /\ LogGoto(t, "dir")
    /\ UNCHANGED <<dayVars, logOn, logFile, logClosed, logNext, faulted, mkdirFailed>>

(* fclose(m_pFile); m_pFile = NULL inside LogCreatLogDir.  Closing a stream  *)
(* that was closed before is undefined: abort, or nothing at all.            *)
LogCloseOld ==
    /\ logFile' = NULL
    /\ logClosed' = FALSE
    /\ \/ logFile = NULL /\ UNCHANGED <<fds, alive>>
       \/ logFile # NULL /\ ~logClosed /\ fds' = fds - 1 /\ UNCHANGED alive
       \/ logClosed /\ UNCHANGED <<fds, alive>>
       \/ logClosed /\ UNCHANGED fds /\ Dies

(* Faulty variant: the directory is made and the old file stays in use. *)
StayingNewDay(t) ==
    /\ LogHolds(t, "dir")
    /\ Today \notin dirs
    /\ logNext' = <<Today, LogName(0)>>
    /\ FileCreatDir(Today)
    /\ LogGoto(t, "write")
    /\ UNCHANGED <<hour, files, fds, alive, starved, logOn, logFile, logClosed, mutex,
                   faulted, mkdirFailed>>

(* Faulty variant: the old file is closed and no new one opened. *)
UnopenedNewDay(t) ==
    /\ LogHolds(t, "dir")
    /\ Today \notin dirs
    /\ logNext' = <<Today, LogName(0)>>
    /\ FileCreatDir(Today)
    /\ LogCloseOld
    /\ LogGoto(t, "write")
    /\ UNCHANGED <<hour, files, starved, logOn, mutex, faulted, mkdirFailed>>

(* Faulty variant: the old stream is closed and m_pFile still points to it. *)
KeepingNewDay(t) ==
    /\ LogHolds(t, "dir")
    /\ Today \notin dirs
    /\ logNext' = <<Today, LogName(0)>>
    /\ FileCreatDir(Today)
    /\ logClosed' = (logFile # NULL)
    /\ fds' = IF logFile # NULL /\ ~logClosed THEN fds - 1 ELSE fds
    /\ LogGoto(t, "write")
    /\ UNCHANGED <<hour, files, alive, starved, logOn, logFile, mutex, faulted, mkdirFailed>>

(* LogCreatLogDir, a new day: make the directory and drop the old file.  If   *)
(* mkdir fails the old file stays in use.                                     *)
LogNewDay(t) ==
    /\ LogHolds(t, "dir")
    /\ Today \notin dirs
    /\ logNext' = <<Today, LogName(0)>>
    /\ \/ /\ FileCreatDir(Today)
          /\ LogCloseOld
          /\ LogGoto(t, "open")
          /\ UNCHANGED mkdirFailed
       \/ /\ DiskFaults
          /\ mkdirFailed' = TRUE
          /\ LogGoto(t, "write")
          /\ UNCHANGED <<dirs, logFile, logClosed, fds, alive>>
    /\ UNCHANGED <<hour, files, starved, logOn, mutex, faulted>>

NeedsFile(d) == logFile = NULL \/ LogFileListFiles(d) = {}

(* LogCreatLogDir, the directory exists: count its files, and move to a file  *)
(* of that number only when there is no stream or no file.  opendir needs a   *)
(* descriptor; without one the function returns early.                        *)
LogSameDay(t) ==
    /\ LogHolds(t, "dir")
    /\ Today \in dirs
    /\ logNext' = <<Today, LogName(Cardinality(LogFileListFiles(Today)))>>
    /\ \/ /\ fds = MaxFds
          /\ starved' = TRUE
          /\ LogGoto(t, "write")
          /\ UNCHANGED <<logFile, logClosed, fds, alive>>
       \/ /\ fds < MaxFds
          /\ ~NeedsFile(Today)
          /\ LogGoto(t, "write")
          /\ UNCHANGED <<logFile, logClosed, fds, alive, starved>>
       \/ /\ fds < MaxFds
          /\ NeedsFile(Today)
          /\ LogCloseOld
          /\ LogGoto(t, "open")
          /\ UNCHANGED starved
    /\ UNCHANGED <<hour, dirs, files, logOn, mutex, faulted, mkdirFailed>>

(* fopen of the new file.  The descriptor just released may be gone. *)
LogOpen(t) ==
    /\ LogHolds(t, "open")
    /\ Fopen(logNext, fds, logFile')
    /\ LogGoto(t, "write")
    /\ UNCHANGED <<hour, dirs, alive, logOn, logClosed, mutex, logNext, faulted, mkdirFailed>>

(* The line is written and flushed, the mutex released. *)
LogWrite(t) ==
    /\ LogHolds(t, "write")
    /\ logFile # NULL
    /\ mutex' = NoOne
    /\ LogGoto(t, "idle")
    /\ UNCHANGED <<dayVars, logOn, logFile, logClosed, logNext, faulted, mkdirFailed>>

(* Faulty variant: the error path returns without releasing the mutex. *)
LockedWriteFails(t) ==
    /\ LogHolds(t, "write")
    /\ logFile # NULL
    /\ DiskFaults \/ logClosed
    /\ faulted' = TRUE
    /\ LogGoto(t, "fclose")
    /\ UNCHANGED <<dayVars, logOn, logFile, logClosed, mutex, logNext, mkdirFailed>>

(* fprintf or vfprintf returns less than 0 (disk full; or the stream is one   *)
(* that was closed): unlock first, close later.                               *)
LogWriteFails(t) ==
    /\ LogHolds(t, "write")
    /\ logFile # NULL
    /\ DiskFaults \/ logClosed
    /\ faulted' = TRUE
    /\ mutex' = NoOne
    /\ LogGoto(t, "fclose")
    /\ UNCHANGED <<dayVars, logOn, logFile, logClosed, logNext, mkdirFailed>>

(* fprintf(m_pFile) with NULL, or with a stream that was freed, may end the   *)
(* process.                                                                   *)
LogCrash(t) ==
    /\ LogHolds(t, "write")
    /\ logFile = NULL \/ logClosed
    /\ Dies
    /\ UNCHANGED <<hour, dirs, files, fds, starved, logVars>>

(* fclose(m_pFile) after the unlock, of whatever m_pFile is by now: the failed *)
(* stream, one another thread has opened since, one that is closed already,    *)
(* or NULL.                                                                    *)
LogFclose(t) ==
    /\ alive
    /\ logPc[t] = "fclose"
    /\ LogGoto(t, "idle")
    /\ logClosed' = (logFile # NULL)
    /\ \/ logFile # NULL /\ ~logClosed /\ fds' = fds - 1 /\ UNCHANGED alive
       \/ logFile # NULL /\ logClosed /\ UNCHANGED <<fds, alive>>
       \/ (logFile = NULL \/ logClosed) /\ Dies /\ UNCHANGED fds
    /\ UNCHANGED <<hour, dirs, files, starved, logOn, logFile, mutex, logNext, faulted, mkdirFailed>>

LogStep(t) ==
    \/ LogLock(t)
    \/ LogNewDay(t)
    \/ LogSameDay(t)
    \/ LogOpen(t)
    \/ LogWrite(t)
    \/ LogWriteFails(t)
    \/ LogCrash(t)
    \/ LogFclose(t)

(* The state of the library in a new process. *)
LogReset ==
    /\ logOn' = FALSE
    /\ logFile' = NULL
    /\ logClosed' = FALSE
    /\ mutex' = NoOne
    /\ logPc' = [t \in Threads |-> "idle"]
    /\ logNext' = <<0, LogName(0)>>
    /\ faulted' = FALSE
    /\ mkdirFailed' = FALSE

=============================================================================
