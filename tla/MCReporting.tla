---------------------------- MODULE MCReporting ----------------------------
(***************************************************************************)
(* Reporting on a small instance.  In each behaviour one of the three      *)
(* parts has work to do; the threads of the others run all the same, find  *)
(* nothing to do, and share directories, descriptors and the process.      *)
(***************************************************************************)
EXTENDS Reporting, TLC

VARIABLE busy   \* the part that has work: "log", "count" or "hive"

MCInit == Init /\ busy \in {"log", "count", "hive"}

(* The clock runs for the parts that change files with it.  Threads log for   *)
(* the hive log too, which has its directories from the log, but one at a     *)
(* time; the disk fails under the log, the process restarts under the hive    *)
(* log.                                                                       *)
MCNext ==
    /\ Next
    /\ UNCHANGED busy
    /\ logPc' # logPc => \/ busy = "log"
                         \/ busy = "hive" /\ Cardinality({t \in Threads : logPc'[t] # "idle"}) <= 1
    /\ faulted' # faulted \/ mkdirFailed' # mkdirFailed => busy = "log"
    /\ requests' # requests => busy = "count"
    /\ hivePushed' # hivePushed => busy = "hive"
    /\ died' # died => busy = "hive"
    /\ hour' # hour => busy # "count"

MCSpec == MCInit /\ [][MCNext]_<<vars, busy>>

Symmetry == Permutations(Threads) \union Permutations(Users)

============================================================================
