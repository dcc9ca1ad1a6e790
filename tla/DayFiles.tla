------------------------------ MODULE DayFiles ------------------------------
(***************************************************************************)
(* What the log, the statistics report and the hive log share: the clock,  *)
(* one directory per day (with the settings of userQuery.conf all three    *)
(* write below "./logs"), the files in it, the process's file descriptors, *)
(* and the process itself, which dies when a NULL FILE is used.            *)
(***************************************************************************)
EXTENDS Integers, FiniteSets

CONSTANTS
    N,              \* m_uiThreadsNum, the number of workers
    HoursPerDay,    \* hours after which a new directory is due
    MaxHour,        \* bound: the clock stops here
    MaxFds,         \* descriptors left for files (ulimit -n less the sockets)
    DiskFaults,     \* TRUE: mkdir and fprintf may fail
    NULL            \* a FILE pointer that is NULL

ASSUME DayAssumption ==
    /\ N \in Nat \ {0}
    /\ HoursPerDay \in Nat \ {0}
    /\ MaxHour \in Nat
    /\ MaxFds \in Nat \ {0}
    /\ DiskFaults \in BOOLEAN

Workers == 0 .. N - 1

VARIABLES
    hour,       \* the clock, in hours
    dirs,       \* the days whose directory exists
    files,      \* the files that exist: <<day, name>>
    fds,        \* number of open FILE streams
    alive,      \* FALSE: the process was killed by SIGSEGV, abort() or a failed start
    starved     \* history: a file was not opened for want of descriptors

dayVars == <<hour, dirs, files, fds, alive, starved>>

DayOf(h) == h \div HoursPerDay
Today == DayOf(hour)
Days == 0 .. DayOf(MaxHour)

(* Regular files of a day, as LogFileListFiles counts them. *)
LogFileListFiles(d) == {f \in files : f[1] = d}

FileBeExists(f) == f \in files

DayInit ==
    /\ hour = 0
    /\ dirs = {}
    /\ files = {}
    /\ fds = 0
    /\ alive = TRUE
    /\ starved = FALSE

(* mkdir of a day's directory, with its parents. *)
FileCreatDir(d) ==
    dirs' = dirs \union {d}

(* fopen(file, "a") when n streams are open; got is the FILE it returns. *)
Fopen(f, n, got) ==
    IF f[1] \in dirs /\ n < MaxFds
    THEN /\ got = f
         /\ files' = files \union {f}
         /\ fds' = n + 1
         /\ UNCHANGED starved
    ELSE /\ got = NULL
         /\ fds' = n
         /\ starved' = (starved \/ f[1] \in dirs)
         /\ UNCHANGED files

(* Time passes while the process runs. *)
Tick ==
    /\ alive
    /\ hour < MaxHour
    /\ hour' = hour + 1
    /\ UNCHANGED <<dirs, files, fds, alive, starved>>

(* The process ends: a NULL or freed pointer was used. *)
Dies == alive' = FALSE

DayTypeOK ==
    /\ hour \in 0 .. MaxHour
    /\ dirs \subseteq Days
    /\ \A f \in files : f[1] \in dirs
    /\ fds \in 0 .. MaxFds
    /\ alive \in BOOLEAN
    /\ starved \in BOOLEAN

=============================================================================
