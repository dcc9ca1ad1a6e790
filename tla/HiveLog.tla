------------------------------- MODULE HiveLog -------------------------------
(***************************************************************************)
(* The hive log: workers push a record per request to their own queue, one *)
(* thread drains all queues into the file of the hour.  It opens the file  *)
(* in every pass and closes the stream before only when the file of the    *)
(* hour does not exist yet.  Push and pop are taken as atomic here.        *)
(***************************************************************************)
EXTENDS DayFiles, Sequences

CONSTANT
    MaxRecords      \* bound on the records of one worker

ASSUME HiveAssumption == MaxRecords \in Nat

VARIABLES
    hivePc,     \* where the hive log thread is
    hiveFile,   \* m_pFile of CUserQueryHiveLog
    hiveHeld,   \* the streams it has open, as a function of their file to a number
    hiveAt,     \* the queue it is draining
    hiveQue,    \* m_vecHiveLog: the numbers of the records queued, per worker
    hivePushed, \* history: records each worker has pushed
    hiveOut,    \* history: records in the files, per worker, in the order written
    hiveBlind   \* history: no directory for the file of the hour

hiveVars == <<hivePc, hiveFile, hiveHeld, hiveAt, hiveQue, hivePushed, hiveOut, hiveBlind>>

Hours == 0 .. MaxHour
HiveFile(h) == <<DayOf(h), <<"hive", h>>>>
HiveFiles == {HiveFile(h) : h \in Hours}

HiveInit ==
    /\ hivePc = "off"
    /\ hiveFile = NULL
    /\ hiveHeld = [f \in HiveFiles |-> 0]
    /\ hiveAt = 0
    /\ hiveQue = [w \in Workers |-> <<>>]
    /\ hivePushed = [w \in Workers |-> 0]
    /\ hiveOut = [w \in Workers |-> <<>>]
    /\ hiveBlind = FALSE

HiveAt(pc) == alive /\ hivePc = pc

(* A worker's record: stHiveLog is pushed to its queue. *)
HivePush(w) ==
    /\ alive
    /\ hivePushed[w] < MaxRecords
    /\ hivePushed' = [hivePushed EXCEPT ![w] = @ + 1]
    /\ hiveQue' = [hiveQue EXCEPT ![w] = Append(@, hivePushed'[w])]
    /\ UNCHANGED <<dayVars, hivePc, hiveFile, hiveHeld, hiveAt, hiveOut, hiveBlind>>

(* fopen(file of the hour), with the streams counted by file. *)
HiveFopen(f, n, held) ==
    /\ Fopen(f, n, hiveFile')
    /\ hiveHeld' = IF hiveFile' = NULL THEN held ELSE [held EXCEPT ![f] = @ + 1]
    /\ hiveBlind' = (hiveBlind \/ f[1] \notin dirs')

(* The constructor makes the directory of the day and opens the file. *)
HiveConstruct ==
    /\ HiveAt("off")
    /\ \/ FileCreatDir(Today)
       \/ DiskFaults /\ Today \notin dirs /\ UNCHANGED dirs
    /\ IF Today \in dirs' /\ fds < MaxFds
       THEN /\ hiveFile' = HiveFile(hour)
            /\ files' = files \union {HiveFile(hour)}
            /\ fds' = fds + 1
            /\ hiveHeld' = [hiveHeld EXCEPT ![HiveFile(hour)] = @ + 1]
            /\ UNCHANGED starved
       ELSE /\ hiveFile' = NULL
            /\ starved' = (starved \/ Today \in dirs')
            /\ UNCHANGED <<files, fds, hiveHeld>>
    /\ hiveBlind' = (hiveBlind \/ Today \notin dirs')
    /\ hivePc' = "open"
    /\ UNCHANGED <<hour, alive, hiveAt, hiveQue, hivePushed, hiveOut>>

(* Faulty variant: the stream is closed in every pass, whether or not there is one. *)
ClosingOpenFile ==
    /\ HiveAt("open")
    /\ UNCHANGED dirs
    /\ HiveFopen(HiveFile(hour), fds - 1,
                 [f \in HiveFiles |-> IF f = hiveFile THEN hiveHeld[f] - 1 ELSE hiveHeld[f]])
    /\ hivePc' = "drain"
    /\ hiveAt' = 0
    /\ UNCHANGED <<hour, alive, hiveQue, hivePushed, hiveOut>>

(* BdxQueryHiveLogOpenFile. *)
HiveOpenFile ==
    /\ HiveAt("open")
    /\ UNCHANGED dirs
    /\ LET f == HiveFile(hour)
           closes == ~FileBeExists(f) /\ hiveFile # NULL
       IN HiveFopen(f, IF closes THEN fds - 1 ELSE fds,
                    IF closes THEN [hiveHeld EXCEPT ![hiveFile] = @ - 1] ELSE hiveHeld)
    /\ hivePc' = "drain"
    /\ hiveAt' = 0
    /\ UNCHANGED <<hour, alive, hiveQue, hivePushed, hiveOut>>

(* Faulty variant: a record that cannot be written is dropped, not fatal. *)
DroppingDrain(w) ==
    /\ HiveAt("drain")
    /\ w = hiveAt
    /\ hiveQue[w] # <<>>
    /\ hiveQue' = [hiveQue EXCEPT ![w] = Tail(@)]
    /\ hiveOut' = IF hiveFile = NULL THEN hiveOut
                  ELSE [hiveOut EXCEPT ![w] = Append(@, Head(hiveQue[w]))]
    /\ UNCHANGED <<dayVars, hivePc, hiveFile, hiveHeld, hiveAt, hivePushed, hiveBlind>>

(* One record: front, pop, fprintf.  fprintf(NULL) ends the process. *)
HiveDrain(w) ==
    /\ HiveAt("drain")
    /\ w = hiveAt
    /\ hiveQue[w] # <<>>
    /\ hiveQue' = [hiveQue EXCEPT ![w] = Tail(@)]
    /\ \/ /\ hiveFile # NULL
          /\ hiveOut' = [hiveOut EXCEPT ![w] = Append(@, Head(hiveQue[w]))]
          /\ UNCHANGED alive
       \/ /\ hiveFile = NULL
          /\ Dies
          /\ UNCHANGED hiveOut
    /\ UNCHANGED <<hour, dirs, files, fds, starved, hivePc, hiveFile, hiveHeld, hiveAt,
                   hivePushed, hiveBlind>>

(* The queue of this worker is empty: go to the next. *)
HiveNextQue(w) ==
    /\ HiveAt("drain")
    /\ w = hiveAt
    /\ hiveQue[w] = <<>>
    /\ hiveAt' = w + 1
    /\ UNCHANGED <<dayVars, hivePc, hiveFile, hiveHeld, hiveQue, hivePushed, hiveOut, hiveBlind>>

(* fflush and sleep. *)
HiveFlush ==
    /\ HiveAt("drain")
    /\ hiveAt = N
    /\ hivePc' = "open"
    /\ UNCHANGED <<dayVars, hiveFile, hiveHeld, hiveAt, hiveQue, hivePushed, hiveOut, hiveBlind>>

HiveStep ==
    \/ HiveOpenFile
    \/ \E w \in Workers : HiveDrain(w) \/ HiveNextQue(w)
    \/ HiveFlush

=============================================================================
