-------------------------------- MODULE Main --------------------------------
(***************************************************************************)
(* The process from main() on: the configuration is read; then the threads *)
(* are made, as many workers as NUM says; then they run.  Of the running   *)
(* program this module has the queue of statuses between one worker and    *)
(* the server, which no lock protects, and the conversions a worker makes. *)
(* Dispatch, TaskRequest and the others have the rest.                     *)
(***************************************************************************)
EXTENDS ConfigLoad, Startup, StatusQueue, Conversions

vars == <<loadVars, startupVars, queueVars, convVars>>

Init == LoadInit /\ StartInit /\ QueueInit /\ ConvInit

(* BdxInitConfig *)
LoadPart ==
    /\ LoadNext
    /\ UNCHANGED <<startupVars, queueVars, convVars>>

Configured == loadPc = "done" /\ conf[<<"WORKTHREADS", "NUM">>] = N

(* UserQueryMainCore and the workers it has started *)
MainPart ==
    /\ Configured
    /\ MainStep
    /\ UNCHANGED <<loadVars, queueVars, convVars>>

WorkerPart(w) ==
    /\ WorkerStep(w)
    /\ UNCHANGED <<loadVars, queueVars, convVars>>

(* The threads wait for work. *)
Up ==
    /\ mPc = "join"
    /\ Running(<<"Server", 0>>)
    /\ \A w \in Workers : Running(<<"Worker", w>>) /\ wPc[w] = "wait"

(* A worker reports the status of a task. *)
StatusPart ==
    /\ Up
    /\ Push
    /\ UNCHANGED <<loadVars, startupVars, convVars>>

PushPart ==
    /\ PushStep
    /\ UNCHANGED <<loadVars, startupVars, convVars>>

TakePart ==
    /\ TakeStep
    /\ UNCHANGED <<loadVars, startupVars, convVars>>

CallPart ==
    /\ Up
    /\ call = NoCall
    /\ \E c \in Calls : Call(c)
    /\ UNCHANGED <<loadVars, startupVars, queueVars>>

ConvertPart ==
    /\ Convert
    /\ UNCHANGED <<loadVars, startupVars, queueVars>>

Next ==
    \/ LoadPart
    \/ MainPart
    \/ \E w \in Workers : WorkerPart(w)
    \/ StatusPart
    \/ PushPart
    \/ TakePart
    \/ CallPart
    \/ ConvertPart

Spec == Init /\ [][Next]_vars

(* Types of all variables. *)
TypeOK == LoadTypeOK /\ StartTypeOK /\ QueueTypeOK

=============================================================================
