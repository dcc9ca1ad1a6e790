------------------------------ MODULE ConnLife ------------------------------
(***************************************************************************)
(* What the server and its workers promise about one client connection:    *)
(* it is polled, handed over, queued, run by one worker, reported, and     *)
(* then polled again or given up.  A connection that was given up never    *)
(* comes back: its descriptor stays open and is never accepted again.      *)
(* No more connections are being run than there are workers.               *)
(***************************************************************************)
EXTENDS Naturals, FiniteSets

CONSTANTS N, Fds

VARIABLE stage

Stages == {"free", "armed", "dispatched", "queued", "running", "reported",
           "lost"}

Init == stage = [f \in Fds |-> "free"]

Move(f, from, to) ==
  /\ stage[f] = from
  /\ stage' = [stage EXCEPT ![f] = to]

Accepted(f)   == Move(f, "free", "armed")
Dispatched(f) == Move(f, "armed", "dispatched")
QueuedUp(f)   == Move(f, "dispatched", "queued")
Refused(f)    == Move(f, "dispatched", "lost")
Started(f)    == /\ Cardinality({g \in Fds : stage[g] = "running"}) < N
                 /\ Move(f, "queued", "running")
Finished(f)   == Move(f, "running", "reported")
Rearmed(f)    == Move(f, "reported", "armed")
GivenUp(f)    == Move(f, "reported", "lost")

Next == \E f \in Fds :
  \/ Accepted(f) \/ Dispatched(f) \/ QueuedUp(f) \/ Refused(f)
  \/ Started(f) \/ Finished(f) \/ Rearmed(f) \/ GivenUp(f)

Spec == Init /\ [][Next]_stage
=============================================================================
