----------------------------- MODULE MainProofs -----------------------------
(***************************************************************************)
(* Main for every number of workers and every size of file and queue:      *)
(* what a thread finds when main has started it, the order in which the    *)
(* server takes statuses without a lock, what the settings are, and that    *)
(* every conversion a worker makes is right (ConversionsProofs).            *)
(***************************************************************************)
EXTENDS Main, ConversionsProofs, FiniteSetTheorems, SequenceTheorems, TLAPS

(* UserQueryMainCore: how many entries a vector has when main is here. *)
Entries(v) ==
    IF next > N THEN N
    ELSE IF mPc \in {"routine", "create"} \/ (mPc = "pushrest" /\ v = "TaskBuf") THEN next
    ELSE next - 1

MakeInv ==
    /\ mPc \in {"new", "push", "grow", "pushrest", "routine", "create", "join", "failed", "exited"}
    /\ next \in 1 .. LastObject + 1
    /\ mPc \in {"push", "grow", "pushrest"} => next <= N
    /\ mPc \notin {"join", "exited"} => next <= LastObject
    /\ size = [v \in Vectors |-> Entries(v)]

(* m_vecTaskBuf: only while it grows the pointer names storage that is freed. *)
GrowInv ==
    /\ cap \in Nat /\ storage \in Nat
    /\ size["TaskBuf"] <= cap
    /\ mPc = "grow" => size["TaskBuf"] = cap
    /\ cap = 0 \/ cap > N \/ cap \in Capacities
    /\ storage <= size["TaskBuf"]
    /\ freed \subseteq 0 .. storage
    /\ mPc # "grow" => storage \notin freed

(* The threads there are, and what each runs. *)
RoutineInv ==
    /\ OwnRoutine
    /\ DOMAIN routine \subseteq {Object(k) : k \in 1 .. next - 1}
    /\ mPc = "create" => m_fpFun = Object(next)[1]

(* A worker holds, or has used, a pointer to freed storage only if the vector *)
(* grew with that worker in it.                                               *)
Crossed(w) == \E c \in Capacities : w < c /\ c < N

ReadInv ==
    /\ wPc \in [Workers -> {"load", "use", "wait", "wild"}]
    /\ ptr \in [Workers -> Nat]
    /\ reads \in [Workers -> 0 .. Reads]
    /\ \A w \in Workers :
          /\ ptr[w] <= storage
          /\ wPc[w] \in {"load", "use"} => reads[w] < Reads
          /\ wPc[w] = "use" => Running(<<"Worker", w>>)
          /\ wPc[w] = "wild" \/ (wPc[w] = "use" /\ ptr[w] \in freed) => Crossed(w)

StartInv == MakeInv /\ GrowInv /\ RoutineInv /\ ReadInv

(* The status queue.  Nodes are numbered as they are allocated, so a place    *)
(* <<node, slot>> says which status belongs there (Before orders them).      *)
Offsets == 0 .. NodeSize - 1
Places == Nodes \X Offsets
Number(c) == (c[1] - 1) * NodeSize + c[2]
After(c) == IF c[2] = NodeSize - 1 THEN <<c[1] + 1, 0>> ELSE <<c[1], c[2] + 1>>

QueueTypes ==
    /\ QueueTypeOK
    /\ Cardinality(DOMAIN map) \in Nat /\ DOMAIN map = 0 .. Cardinality(DOMAIN map) - 1
    /\ slots \in [Nodes -> [Offsets -> Nat]]
    /\ wTo \in Nat
    /\ popped \in Seq(Nat)

(* The worker: finish is behind the last status that is whole. *)
PushInv ==
    /\ nodes <= pushed + 1
    /\ pushPc \in {"advance", "move", "movestart", "movefinish", "newnode"} => nodes <= pushed
    /\ fBuf = IF pushPc = "setcur" THEN fCur[1] + 1 ELSE fCur[1]
    /\ nodes = IF pushPc = "setnode" THEN fBuf + 1 ELSE fBuf
    /\ pushed = IF pushPc = "idle" THEN Number(fCur) ELSE Number(fCur) + 1
    /\ pushPc = "advance" => fCur[2] < NodeSize - 1
    /\ pushPc \notin {"idle", "advance"} => fCur[2] = NodeSize - 1
    /\ pushPc \in {"advance", "setnode", "setcur"} => slots[fCur[1]][fCur[2]] = pushed
    /\ pushPc \in {"movestart", "movefinish", "newnode", "setnode"} => fNode + 1 \in DOMAIN map
    /\ pushPc = "setnode" => map[fNode + 1] = nodes

(* The server: it has taken all statuses before start, and does not change    *)
(* node while the worker moves the nodes.                                     *)
TakeInv ==
    /\ ~broken /\ sPc # "lost"
    /\ sBuf = IF sPc = "nextcur" THEN sCur[1] + 1 ELSE sCur[1]
    /\ Crossing => sCur[2] = NodeSize - 1 /\ ~Moving
    /\ Len(popped) = IF sPc \in {"test", "front"} THEN Number(sCur) ELSE Number(sCur) + 1
    /\ \A i \in 1 .. Len(popped) : popped[i] = i
    /\ Before(sCur, fCur) \/ (sPc = "test" /\ sCur = fCur)

(* The map: the nodes from start to finish in a row, wherever the worker is    *)
(* with moving them and the server with going to the next.                     *)
StartIndex == IF pushPc = "movestart" THEN wTo ELSE sNode
StartNode == IF sPc = "nextbuf" THEN sBuf + 1 ELSE sBuf

MapInv ==
    /\ StartIndex \in Nat /\ StartIndex <= fNode
    /\ fBuf = StartNode + (fNode - StartIndex)
    /\ \A i \in StartIndex .. fNode : map[i] = StartNode + (i - StartIndex)

(* Every status between start and finish is in its place. *)
Waiting(c) == (IF Crossing THEN sCur[1] < c[1] ELSE ~Before(c, sCur)) /\ Before(c, fCur)

SlotInv ==
    \A n \in Nodes, o \in Offsets :
        Waiting(<<n, o>>) => slots[n][o] = Number(<<n, o>>) + 1

QueueInv == QueueTypes /\ (raced \/ (PushInv /\ TakeInv /\ MapInv /\ SlotInv))

(* The file: a header between its brackets has a name ("[]" would end the     *)
(* loop over the sections), or even the name of a section with a getter.      *)
NamedSections == \A l \in Lines : l.kind = "section" => l.name # NoSection
KnownSections == \A l \in Lines : l.kind = "section" => l.name \in Sections

(* The lines read so far that give a setting, and the value it has from them. *)
GivenBy(x) == Giving(x[1], x[2]) \cap (1 .. pos)
LastOf(g) == CHOOSE i \in g : \A j \in g : j <= i
ValueFrom(g) == IF g = {} THEN Unset ELSE file[LastOf(g)].value

(* szSection is the header the line read last belongs to, and it is empty at  *)
(* the end of the file only.                                                  *)
FileInv ==
    /\ LoadTypeOK
    /\ loadPc = "first" => \A j \in 1 .. pos : file[j].kind # "section"
    /\ loadPc \in {"test", "dispatch", "get"} /\ section # NoSection => section = SectionAt(pos)
    /\ loadPc \in {"dispatch", "get"} => section # NoSection
    /\ loadPc = "done" \/ (loadPc = "test" /\ section = NoSection) => pos = Len(file)
    /\ \A x \in Settings : conf[x] = ValueFrom(GivenBy(x))

-----------------------------------------------------------------------------
(* The start                                                               *)

\* The threads' variables change in steps of main and of the workers only.
LEMMA StartChanges ==
  ASSUME [Next]_vars
  PROVE  UNCHANGED startupVars \/ MainStep \/ \E w \in Workers : WorkerStep(w)
  BY DEF Next, vars, LoadPart, MainPart, WorkerPart, StatusPart, PushPart, TakePart, CallPart,
         ConvertPart

\* The workers are the first N objects, the others come after them.
LEMMA Objects ==
  /\ N \in Nat /\ LastObject = N + 4 /\ LastObject \in Nat
  /\ \A k \in 1 .. LastObject :
        /\ k <= N => Object(k) = <<"Worker", k - 1>> /\ k - 1 \in Workers
        /\ k > N => Object(k)[1] \in {"Count", "HiveLog", "Server", "Update"}
        /\ Object(k)[1] = "Worker" <=> k <= N
  <1>1. N \in Nat /\ LastObject = N + 4
    BY NAssumption DEF LastObject, Helpers
  <1>2. ASSUME NEW k \in 1 .. LastObject, k <= N
        PROVE  Object(k) = <<"Worker", k - 1>> /\ k - 1 \in Workers
    BY <1>1, <1>2 DEF Object, Workers
  <1>3. ASSUME NEW k \in 1 .. LastObject, k > N
        PROVE  Object(k)[1] \in {"Count", "HiveLog", "Server", "Update"}
    <2>1. k - N \in 1 .. 4
      BY <1>1, <1>3
    <2>2. Helpers[k - N] \in {"Count", "HiveLog", "Server", "Update"}
      BY <2>1 DEF Helpers
    <2>3. Object(k) = <<Helpers[k - N], 0>>
      BY <1>1, <1>3 DEF Object
    <2>4. QED
      BY <2>2, <2>3
  <1>4. QED
    BY <1>1, <1>2, <1>3

\* The workers that run were made before the object that is made now.
LEMMA RunningMade ==
  ASSUME MakeInv, RoutineInv, NEW w \in Workers, Running(<<"Worker", w>>)
  PROVE  w < next - 1 /\ w \in Nat
  <1>1. PICK k \in 1 .. next - 1 : <<"Worker", w>> = Object(k)
    BY DEF RoutineInv, Running
  <1>2. k \in 1 .. LastObject /\ next \in Nat
    BY <1>1, Objects DEF MakeInv
  <1>3. k <= N
    BY <1>1, <1>2, Objects
  <1>4. <<"Worker", w>> = <<"Worker", k - 1>>
    BY <1>1, <1>2, <1>3, Objects
  <1>5. w = k - 1
    BY <1>4
  <1>6. QED
    BY <1>1, <1>2, <1>5

\* Twice a capacity is one.
LEMMA Doubled ==
  ASSUME NEW c \in Capacities, 2 * c <= N
  PROVE  2 * c \in Capacities
  <1>1. c \in 1 .. N /\ N \in Nat
    BY NAssumption DEF Capacities
  <1>2. ASSUME NEW cs \in SUBSET (1 .. N), Doubling(cs) PROVE 2 * c \in cs
    BY <1>2 DEF Capacities, Doubling
  <1>3. 2 * c \in 1 .. N
    BY <1>1
  <1>4. QED
    BY <1>2, <1>3 DEF Capacities

LEMMA MakeKept ==
  ASSUME MakeInv, MainStep
  PROVE  MakeInv'
  <1>1. N \in Nat /\ LastObject = N + 4 /\ next \in Nat /\ 1 <= next /\ next <= LastObject + 1
    BY Objects DEF MakeInv
  <1>2. \A v \in Vectors : size[v] = Entries(v)
    BY DEF MakeInv
  <1>3. "TaskBuf" \in Vectors
    BY DEF Vectors
  <1>4. CASE /\ UNCHANGED <<size, next>>
             /\ mPc' \in {"new", "push", "grow", "pushrest", "routine", "create", "join", "failed",
                          "exited"}
             /\ mPc' \in {"push", "grow", "pushrest"} => next <= N
             /\ mPc' \notin {"join", "exited"} => next <= LastObject
             /\ next > N \/ (mPc' \in {"routine", "create"} <=> mPc \in {"routine", "create"})
             /\ mPc # "pushrest" /\ mPc' # "pushrest"
    <2>1. \A v \in Vectors : Entries(v)' = Entries(v)
      BY <1>1, <1>4 DEF Entries
    <2>2. size' = [v \in Vectors |-> Entries(v)']
      BY <1>4, <2>1 DEF MakeInv
    <2>3. QED
      BY <1>4, <2>2 DEF MakeInv
  <1>5. CASE NewWorker
    BY <1>1, <1>4, <1>5 DEF NewWorker, MakeInv, vecVars
  <1>6. CASE Append1 \/ GrowInstall
    <2>1. /\ mPc \in {"push", "grow"} /\ mPc' = "pushrest" /\ next' = next /\ next <= N
          /\ size' = [size EXCEPT !["TaskBuf"] = @ + 1]
      BY <1>6 DEF Append1, GrowInstall, MakeInv
    <2>2. \A v \in Vectors : Entries(v) = next - 1
      BY <1>1, <2>1 DEF Entries
    <2>3. \A v \in Vectors : Entries(v)' = IF v = "TaskBuf" THEN next ELSE next - 1
      BY <1>1, <2>1 DEF Entries
    <2>4. size = [v \in Vectors |-> next - 1]
      BY <2>2 DEF MakeInv
    <2>5. size' = [v \in Vectors |-> Entries(v)']
      BY <1>1, <1>3, <2>1, <2>3, <2>4
    <2>6. QED
      BY <1>1, <2>1, <2>5 DEF MakeInv
  <1>7. CASE GrowFree
    BY <1>1, <1>4, <1>7 DEF GrowFree, MakeInv
  <1>8. CASE PushRest
    <2>1. /\ mPc = "pushrest" /\ mPc' = "routine" /\ next' = next /\ next <= N
          /\ size' = [v \in Vectors |-> IF v = "TaskBuf" THEN size[v] ELSE size[v] + 1]
      BY <1>8 DEF PushRest, MakeInv
    <2>2. \A v \in Vectors : Entries(v) = IF v = "TaskBuf" THEN next ELSE next - 1
      BY <1>1, <2>1 DEF Entries
    <2>3. \A v \in Vectors : Entries(v)' = next
      BY <1>1, <2>1 DEF Entries
    <2>4. size' = [v \in Vectors |-> Entries(v)']
      BY <1>1, <1>2, <2>1, <2>2, <2>3
    <2>5. QED
      BY <1>1, <2>1, <2>4 DEF MakeInv
  <1>9. CASE NewHelper
    BY <1>1, <1>4, <1>9 DEF NewHelper, MakeInv, vecVars
  <1>10. CASE SetRoutine
    BY <1>1, <1>4, <1>10 DEF SetRoutine, MakeInv, vecVars
  <1>11. CASE CreateThead
    <2>1. /\ mPc = "create" /\ next' = next + 1 /\ size' = size /\ next <= LastObject
          /\ mPc' = IF next = LastObject THEN "join" ELSE "new"
      BY <1>11 DEF CreateThead, MakeInv, vecVars
    <2>2. \A v \in Vectors : Entries(v)' = Entries(v)
      BY <1>1, <2>1 DEF Entries
    <2>3. size' = [v \in Vectors |-> Entries(v)']
      BY <2>1, <2>2 DEF MakeInv
    <2>4. QED
      BY <1>1, <2>1, <2>3 DEF MakeInv
  <1>12. CASE JoinALL
    BY <1>1, <1>4, <1>12 DEF JoinALL, MakeInv, vecVars
  <1>13. QED
    BY <1>5, <1>6, <1>7, <1>8, <1>9, <1>10, <1>11, <1>12 DEF MainStep

\* What the vectors have: main's own steps keep the storage in use apart from what was freed.
LEMMA GrowKept ==
  ASSUME MakeInv, GrowInv, MainStep
  PROVE  GrowInv'
  <1>1. /\ N \in Nat /\ next \in Nat /\ cap \in Nat /\ storage \in Nat
        /\ size["TaskBuf"] \in Nat /\ "TaskBuf" \in Vectors /\ DOMAIN size = Vectors
        /\ size["TaskBuf"] <= N
    BY Objects DEF MakeInv, GrowInv, Vectors, Entries
  <1>2. CASE UNCHANGED <<cap, storage, freed>> /\ size'["TaskBuf"] = size["TaskBuf"]
             /\ mPc # "grow" /\ mPc' # "grow"
    BY <1>2 DEF GrowInv
  <1>3. CASE Append1
    <2>1. /\ UNCHANGED <<cap, storage, freed>> /\ mPc # "grow" /\ mPc' # "grow"
          /\ size'["TaskBuf"] = size["TaskBuf"] + 1 /\ size["TaskBuf"] < cap
      BY <1>1, <1>3 DEF Append1
    <2>2. QED
      BY <1>1, <2>1 DEF GrowInv
  <1>4. CASE GrowFree
    <2>1. /\ UNCHANGED <<cap, storage, size>> /\ mPc' = "grow" /\ size["TaskBuf"] = cap
          /\ freed' = freed \cup {storage}
      BY <1>4 DEF GrowFree
    <2>2. QED
      BY <1>1, <2>1 DEF GrowInv
  <1>5. CASE GrowInstall
    <2>1. /\ mPc = "grow" /\ mPc' = "pushrest" /\ storage' = storage + 1 /\ freed' = freed
          /\ cap' = IF cap = 0 THEN 1 ELSE 2 * cap
          /\ size'["TaskBuf"] = size["TaskBuf"] + 1
      BY <1>1, <1>5 DEF GrowInstall
    <2>2. size["TaskBuf"] = cap
      BY <2>1 DEF GrowInv
    <2>3. 1 <= N => 1 \in Capacities
      BY <1>1 DEF Capacities, Doubling
    <2>4. cap' = 0 \/ cap' > N \/ cap' \in Capacities
      <3>1. CASE cap = 0
        BY <1>1, <2>1, <2>3, <3>1
      <3>2. CASE cap # 0
        <4>1. cap \in Capacities
          BY <1>1, <2>2, <3>2 DEF GrowInv
        <4>2. cap' = 2 * cap /\ cap' \in Nat
          BY <1>1, <2>1, <3>2
        <4>3. QED
          BY <1>1, <4>1, <4>2, Doubled
      <3>3. QED
        BY <3>1, <3>2
    <2>5. storage' \notin freed' /\ freed' \subseteq 0 .. storage'
      BY <1>1, <2>1 DEF GrowInv
    <2>6. size'["TaskBuf"] <= cap' /\ storage' <= size'["TaskBuf"] /\ cap' \in Nat /\ storage' \in Nat
      BY <1>1, <2>1, <2>2 DEF GrowInv
    <2>7. QED
      BY <2>1, <2>4, <2>5, <2>6 DEF GrowInv
  <1>6. CASE PushRest
    BY <1>1, <1>2, <1>6 DEF PushRest
  <1>7. CASE NewWorker \/ NewHelper \/ SetRoutine \/ CreateThead \/ JoinALL
    <2>1. UNCHANGED <<cap, storage, freed, size>> /\ mPc # "grow" /\ mPc' # "grow"
      BY <1>7 DEF NewWorker, NewHelper, SetRoutine, CreateThead, JoinALL, vecVars
    <2>2. QED
      BY <1>2, <2>1
  <1>8. QED
    BY <1>3, <1>4, <1>5, <1>6, <1>7 DEF MainStep

\* main gives each thread the routine of its object.
LEMMA RoutineKept ==
  ASSUME MakeInv, RoutineInv, MainStep
  PROVE  RoutineInv'
  <1>1. next \in Nat /\ next >= 1
    BY Objects DEF MakeInv
  <1>2. CASE UNCHANGED <<routine, next>> /\ mPc' # "create"
    BY <1>2 DEF RoutineInv, OwnRoutine
  <1>3. CASE SetRoutine
    BY <1>3 DEF SetRoutine, RoutineInv, OwnRoutine
  <1>4. CASE CreateThead
    <2>1. next' = next + 1 /\ mPc' # "create" /\ mPc = "create"
      BY <1>4 DEF CreateThead
    <2>2. CASE UNCHANGED routine
      BY <1>1, <2>1, <2>2 DEF RoutineInv, OwnRoutine
    <2>3. CASE routine' = [p \in DOMAIN routine \cup {Object(next)} |->
                             IF p = Object(next) THEN m_fpFun ELSE routine[p]]
      <3>1. m_fpFun = Object(next)[1]
        BY <2>1 DEF RoutineInv
      <3>2. OwnRoutine'
        BY <2>3, <3>1 DEF RoutineInv, OwnRoutine
      <3>3. DOMAIN routine' = DOMAIN routine \cup {Object(next)}
        BY <2>3
      <3>4. DOMAIN routine' \subseteq {Object(k) : k \in 1 .. next' - 1}
        BY <1>1, <2>1, <3>3 DEF RoutineInv
      <3>5. QED
        BY <2>1, <3>2, <3>4 DEF RoutineInv
    <2>4. QED
      BY <1>4, <2>2, <2>3 DEF CreateThead, threadVars
  <1>5. CASE NewWorker \/ Append1 \/ GrowFree \/ GrowInstall \/ PushRest \/ NewHelper \/ JoinALL
    <2>1. UNCHANGED <<routine, next>> /\ mPc' # "create"
      BY <1>5 DEF NewWorker, Append1, GrowFree, GrowInstall, PushRest, NewHelper, JoinALL, threadVars
    <2>2. QED
      BY <1>2, <2>1
  <1>6. QED
    BY <1>3, <1>4, <1>5 DEF MainStep

\* A worker whose pointer is freed under it was in the vector when that grew.
LEMMA GrowingCrosses ==
  ASSUME MakeInv, GrowInv, RoutineInv, next <= N, size["TaskBuf"] = cap, cap = next - 1,
         NEW w \in Workers, Running(<<"Worker", w>>)
  PROVE  Crossed(w)
  <1>1. w < cap /\ w \in Nat /\ cap \in Nat /\ next \in Nat /\ N \in Nat
    BY RunningMade, Objects DEF MakeInv, GrowInv
  <1>2. cap < N /\ cap # 0
    BY <1>1
  <1>3. cap \in Capacities
    BY <1>1, <1>2 DEF GrowInv
  <1>4. QED
    BY <1>1, <1>2, <1>3 DEF Crossed

\* main's steps keep what the workers hold.
LEMMA ReadKept ==
  ASSUME StartInv, MainStep
  PROVE  ReadInv'
  <1> USE DEF StartInv
  <1>1. UNCHANGED workerVars
    BY DEF MainStep, NewWorker, Append1, GrowFree, GrowInstall, PushRest, NewHelper, SetRoutine,
       CreateThead, JoinALL
  <1>2. \A p : Running(p) => Running(p)'
    BY DEF MainStep, NewWorker, Append1, GrowFree, GrowInstall, PushRest, NewHelper, SetRoutine,
       CreateThead, JoinALL, Running, threadVars
  <1>3. storage' = storage \/ storage' = storage + 1
    BY DEF MainStep, NewWorker, Append1, GrowFree, GrowInstall, PushRest, NewHelper, SetRoutine,
       CreateThead, JoinALL, vecVars
  <1>4. \A w \in Workers : ptr[w] <= storage'
    <2>1. \A w \in Workers : ptr[w] \in Nat /\ ptr[w] <= storage
      BY DEF ReadInv
    <2>2. storage \in Nat
      BY DEF GrowInv
    <2>3. QED
      BY <1>3, <2>1, <2>2
  <1>5. ASSUME NEW w \in Workers, wPc[w] = "use", ptr[w] \in freed' PROVE Crossed(w)
    <2>1. CASE freed' = freed
      BY <1>5, <2>1 DEF ReadInv
    <2>2. CASE GrowFree
      <3>1. mPc = "push" /\ size["TaskBuf"] = cap
        BY <2>2 DEF GrowFree
      <3>2. next <= N /\ next \in Nat /\ size["TaskBuf"] = next - 1
        BY <3>1, Objects DEF MakeInv, Entries, Vectors
      <3>3. Running(<<"Worker", w>>)
        BY <1>5 DEF ReadInv
      <3>4. QED
        BY <3>1, <3>2, <3>3, GrowingCrosses
    <2>3. QED
      BY <2>1, <2>2 DEF MainStep, NewWorker, Append1, GrowInstall, PushRest, NewHelper, SetRoutine,
         CreateThead, JoinALL, vecVars
  <1>6. ASSUME NEW w \in Workers
        PROVE  /\ wPc[w] \in {"load", "use"} => reads[w] < Reads
               /\ wPc[w] = "use" => Running(<<"Worker", w>>)'
               /\ wPc[w] = "wild" \/ (wPc[w] = "use" /\ ptr[w] \in freed') => Crossed(w)
    BY <1>2, <1>5 DEF ReadInv
  <1>7. \A w \in Workers : Crossed(w)' = Crossed(w)
    BY DEF Crossed
  <1>8. QED
    BY <1>1, <1>4, <1>6, <1>7 DEF ReadInv, workerVars

\* A worker's step reads one pointer.
LEMMA WorkerKept ==
  ASSUME StartInv, NEW w \in Workers, WorkerStep(w)
  PROVE  StartInv'
  <1> USE DEF StartInv
  <1>1. UNCHANGED <<mPc, next, vecVars, threadVars>>
    BY DEF WorkerStep, LoadPtr, UsePtr
  <1>2. MakeInv' /\ GrowInv' /\ RoutineInv'
    BY <1>1 DEF MakeInv, Entries, GrowInv, RoutineInv, OwnRoutine, vecVars, threadVars
  <1>3. \A v \in Workers : Crossed(v)' = Crossed(v) /\ Running(<<"Worker", v>>)' = Running(<<"Worker", v>>)
    BY <1>1 DEF Crossed, Running, threadVars
  <1>4. CASE LoadPtr(w)
    <2>1. /\ ptr' = [ptr EXCEPT ![w] = storage] /\ wPc' = [wPc EXCEPT ![w] = "use"]
          /\ reads' = reads /\ wPc[w] = "load" /\ Running(<<"Worker", w>>)
          /\ UNCHANGED <<storage, freed>>
      BY <1>1, <1>4 DEF LoadPtr, Live, vecVars
    <2>2. storage \in freed => Crossed(w)
      <3>1. SUFFICES ASSUME storage \in freed PROVE Crossed(w)
        OBVIOUS
      <3>2. mPc = "grow"
        BY <3>1 DEF GrowInv
      <3>3. next <= N /\ next \in Nat /\ size["TaskBuf"] = next - 1 /\ size["TaskBuf"] = cap
        BY <3>2, Objects DEF MakeInv, Entries, Vectors, GrowInv
      <3>4. QED
        BY <2>1, <3>3, GrowingCrosses
    <2>3. storage \in Nat
      BY DEF GrowInv
    <2>4. ReadInv'
      BY <1>3, <2>1, <2>2, <2>3 DEF ReadInv
    <2>5. QED
      BY <1>2, <2>4
  <1>5. CASE UsePtr(w)
    <2>1. /\ wPc[w] = "use" /\ reads' = [reads EXCEPT ![w] = @ + 1] /\ ptr' = [ptr EXCEPT ![w] = 0]
          /\ wPc' = [wPc EXCEPT ![w] = IF ptr[w] \in freed THEN "wild"
                                       ELSE IF reads[w] + 1 = Reads THEN "wait" ELSE "load"]
          /\ UNCHANGED <<storage, freed>>
      BY <1>1, <1>5 DEF UsePtr, vecVars
    <2>2. ptr[w] \in freed => Crossed(w)
      BY <2>1 DEF ReadInv
    <2>3. storage \in Nat /\ reads[w] \in 0 .. Reads /\ reads[w] < Reads /\ Reads = 3
      BY <2>1 DEF GrowInv, ReadInv, Reads
    <2>4. reads' \in [Workers -> 0 .. Reads] /\ ptr' \in [Workers -> Nat]
          /\ wPc' \in [Workers -> {"load", "use", "wait", "wild"}]
      BY <2>1, <2>3 DEF ReadInv
    <2>5. ASSUME NEW v \in Workers
          PROVE  /\ ptr'[v] <= storage
                 /\ wPc'[v] \in {"load", "use"} => reads'[v] < Reads
                 /\ wPc'[v] = "use" => Running(<<"Worker", v>>)
                 /\ wPc'[v] = "wild" \/ (wPc'[v] = "use" /\ ptr'[v] \in freed) => Crossed(v)
      <3>1. CASE v = w
        BY <2>1, <2>2, <2>3, <3>1 DEF ReadInv
      <3>2. CASE v # w
        BY <2>1, <3>2 DEF ReadInv
      <3>3. QED
        BY <3>1, <3>2
    <2>6. ReadInv'
      BY <1>3, <2>1, <2>4, <2>5 DEF ReadInv
    <2>7. QED
      BY <1>2, <2>6
  <1>6. QED
    BY <1>4, <1>5 DEF WorkerStep

LEMMA StartStart == Init => StartInv
  <1> SUFFICES ASSUME Init PROVE StartInv
    OBVIOUS
  <1>1. /\ mPc = "new" /\ next = 1 /\ size = [v \in Vectors |-> 0] /\ cap = 0 /\ storage = 0
        /\ freed = {} /\ DOMAIN routine = {}
        /\ wPc = [w \in Workers |-> "load"] /\ ptr = [w \in Workers |-> 0]
        /\ reads = [w \in Workers |-> 0]
    BY DEF Init, StartInit
  <1>2. N \in Nat /\ LastObject = N + 4 /\ "TaskBuf" \in Vectors
    BY Objects DEF Vectors
  <1>3. \A v \in Vectors : Entries(v) = 0
    BY <1>1, <1>2 DEF Entries
  <1>4. MakeInv
    BY <1>1, <1>2, <1>3 DEF MakeInv
  <1>5. GrowInv /\ RoutineInv
    BY <1>1, <1>2 DEF GrowInv, RoutineInv, OwnRoutine
  <1>6. ReadInv
    BY <1>1, <1>2 DEF ReadInv, Reads
  <1>7. QED
    BY <1>4, <1>5, <1>6 DEF StartInv

LEMMA StartAlways == Spec => []StartInv
  <1>1. ASSUME StartInv, [Next]_vars PROVE StartInv'
    <2>1. CASE UNCHANGED startupVars
      BY <1>1, <2>1 DEF StartInv, MakeInv, Entries, GrowInv, RoutineInv, OwnRoutine, ReadInv, Crossed,
         Running, startupVars, vecVars, threadVars, workerVars
    <2>2. CASE MainStep
      BY <1>1, <2>2, MakeKept, GrowKept, RoutineKept, ReadKept DEF StartInv
    <2>3. QED
      BY <1>1, <2>1, <2>2, StartChanges, WorkerKept
  <1>2. QED
    BY <1>1, StartStart, PTL DEF Spec

\* No thread indexes a vector beyond its end, every thread runs the routine of its object, and a
\* worker reads freed storage only if the vector grew with that worker in it.
THEOREM StartIsSafe == Spec => []StartSafe
  <1>1. ASSUME StartInv PROVE StartSafe
    <2>1. ASSUME NEW p \in DOMAIN routine, NEW v \in Vectors
          PROVE  IF p[1] = "Worker" THEN p[2] < size[v] ELSE size[v] = N
      <3>1. PICK k \in 1 .. next - 1 : p = Object(k)
        BY <1>1 DEF StartInv, RoutineInv
      <3>2. /\ N \in Nat /\ next \in Nat /\ next <= LastObject + 1 /\ LastObject \in Nat
            /\ k \in 1 .. LastObject /\ k \in Nat /\ k < next
        BY <1>1, <3>1, Objects DEF StartInv, MakeInv
      <3>3. size[v] = Entries(v)
        BY <1>1 DEF StartInv, MakeInv
      <3>4. CASE k <= N
        <4>1. p[1] = "Worker" /\ p[2] = k - 1
          BY <3>1, <3>2, <3>4, Objects
        <4>2. k - 1 < Entries(v)
          BY <3>2, <3>4 DEF Entries
        <4>3. QED
          BY <3>3, <4>1, <4>2
      <3>5. CASE k > N
        <4>1. p[1] # "Worker"
          BY <3>1, <3>2, <3>5, Objects
        <4>2. Entries(v) = N
          BY <3>2, <3>5 DEF Entries
        <4>3. QED
          BY <3>3, <4>1, <4>2
      <3>6. QED
        BY <3>2, <3>4, <3>5
    <2>2. EntriesFirst
      BY <2>1 DEF EntriesFirst
    <2>3. WildOnlyAcrossGrowth /\ OwnRoutine
      BY <1>1 DEF StartInv, ReadInv, RoutineInv, Crossed, WildOnlyAcrossGrowth
    <2>4. QED
      BY <2>2, <2>3 DEF StartSafe
  <1>2. QED
    BY <1>1, StartAlways, PTL

-----------------------------------------------------------------------------
(* The status queue                                                        *)

\* The queue changes in the steps of its worker and of the server only.
LEMMA QueueChanges ==
  ASSUME [Next]_vars
  PROVE  UNCHANGED queueVars \/ Push \/ PushStep \/ TakeStep
  BY DEF Next, vars, LoadPart, MainPart, WorkerPart, StatusPart, PushPart, TakePart, CallPart,
         ConvertPart

\* The numbers of a place and of the next one.
LEMMA NumberNext ==
  ASSUME NEW n \in Nat \ {0}, NEW o \in Offsets
  PROVE  /\ Number(<<n, o>>) \in Nat
         /\ Number(<<n, o + 1>>) = Number(<<n, o>>) + 1
         /\ o = NodeSize - 1 => Number(<<n + 1, 0>>) = Number(<<n, o>>) + 1
  <1>1. /\ NodeSize \in Nat \ {0} /\ n - 1 \in Nat /\ o \in Nat /\ (n - 1) * NodeSize \in Nat
        /\ ((n + 1) - 1) * NodeSize = (n - 1) * NodeSize + NodeSize
    BY NodeAssumption DEF Offsets
  <1>2. Number(<<n, o>>) = (n - 1) * NodeSize + o
    BY DEF Number
  <1>3. Number(<<n, o + 1>>) = (n - 1) * NodeSize + (o + 1)
    BY DEF Number
  <1>4. Number(<<n + 1, 0>>) = ((n + 1) - 1) * NodeSize + 0
    BY DEF Number
  <1>5. QED
    BY <1>1, <1>2, <1>3, <1>4

\* Writing one slot.
LEMMA SlotWritten ==
  ASSUME slots \in [Nodes -> [Offsets -> Nat]], NEW c \in Places, NEW v \in Nat,
         slots' = [slots EXCEPT ![c[1]][c[2]] = v]
  PROVE  /\ slots' \in [Nodes -> [Offsets -> Nat]]
         /\ slots'[c[1]][c[2]] = v
         /\ \A m \in Nodes, p \in Offsets : <<m, p>> # c => slots'[m][p] = slots[m][p]
  <1>1. c[1] \in Nodes /\ c[2] \in Offsets /\ c = <<c[1], c[2]>>
    BY DEF Places
  <1>2. slots' \in [Nodes -> [Offsets -> Nat]] /\ slots'[c[1]][c[2]] = v
    BY <1>1
  <1>3. ASSUME NEW m \in Nodes, NEW p \in Offsets, <<m, p>> # c PROVE slots'[m][p] = slots[m][p]
    <2>1. m # c[1] \/ p # c[2]
      BY <1>1, <1>3
    <2>2. QED
      BY <1>1, <2>1
  <1>4. QED
    BY <1>2, <1>3

\* What the invariant says of the two iterators.
LEMMA QueueFacts ==
  ASSUME QueueInv, ~raced
  PROVE  /\ PushInv /\ TakeInv /\ MapInv /\ SlotInv /\ QueueTypes
         /\ sCur \in Places /\ sCur[1] \in Nodes /\ sCur[2] \in Offsets /\ sCur = <<sCur[1], sCur[2]>>
         /\ fCur \in Places /\ fCur[1] \in Nodes /\ fCur[2] \in Offsets /\ fCur = <<fCur[1], fCur[2]>>
         /\ sBuf \in Nodes /\ fBuf \in Nodes /\ nodes \in Nodes
         /\ sNode \in DOMAIN map /\ fNode \in DOMAIN map /\ sNode \in Nat /\ fNode \in Nat
         /\ pushed \in Nat /\ pushed <= MaxPush
         /\ Nodes \subseteq Nat \ {0} /\ Offsets \subseteq Nat /\ NodeSize \in Nat \ {0}
         /\ MaxPush \in Nat
  <1>1. QueueTypes /\ PushInv /\ TakeInv /\ MapInv /\ SlotInv
    BY DEF QueueInv
  <1>2. /\ sCur \in Places /\ fCur \in Places /\ sBuf \in Nodes /\ fBuf \in Nodes /\ nodes \in Nodes
        /\ sNode \in DOMAIN map /\ fNode \in DOMAIN map /\ pushed \in 0 .. MaxPush
        /\ Cardinality(DOMAIN map) \in Nat /\ DOMAIN map = 0 .. Cardinality(DOMAIN map) - 1
    BY <1>1 DEF QueueTypes, QueueTypeOK, Places, Offsets
  <1>3. sNode \in Nat /\ fNode \in Nat
    BY <1>2
  <1>4. \A c \in Places : c[1] \in Nodes /\ c[2] \in Offsets /\ c = <<c[1], c[2]>>
    BY DEF Places
  <1>5. /\ Nodes \subseteq Nat \ {0} /\ Offsets \subseteq Nat /\ NodeSize \in Nat \ {0}
        /\ MaxPush \in Nat
    BY NodeAssumption DEF Nodes, Offsets
  <1>6. QED
    BY <1>1, <1>2, <1>3, <1>4, <1>5

LEMMA QueueValues ==
  ASSUME QueueTypes
  PROVE  /\ slots \in [Nodes -> [Offsets -> Nat]]
         /\ wTo \in Nat
         /\ popped \in Seq(Nat)
         /\ pushPc \in {"idle", "advance", "move", "movestart", "movefinish", "newnode", "setnode", "setcur"}
         /\ sPc \in {"test", "front", "pop", "nextnode", "nextbuf", "nextcur", "lost"}
         /\ raced \in BOOLEAN /\ broken \in BOOLEAN
  BY Zenon DEF QueueTypes, QueueTypeOK

\* The types of the variables one by one.
LEMMA TypesStay ==
  ASSUME QueueTypes, ~raced,
         slots' \in [Nodes -> [Offsets -> Nat]], wTo' \in Nat, popped' \in Seq(Nat),
         \/ map' = map
         \/ /\ Cardinality(DOMAIN map') \in Nat
            /\ DOMAIN map' = 0 .. Cardinality(DOMAIN map') - 1
            /\ \A i \in DOMAIN map' : map'[i] \in 0 .. nodes',
         nodes' \in Nodes, nodes' >= nodes,
         sNode' \in DOMAIN map', fNode' \in DOMAIN map',
         sBuf' \in Nodes, fBuf' \in Nodes, sCur' \in Places, fCur' \in Places,
         pushPc' \in {"idle", "advance", "move", "movestart", "movefinish", "newnode", "setnode", "setcur"},
         sPc' \in {"test", "front", "pop", "nextnode", "nextbuf", "nextcur", "lost"},
         pushed' \in 0 .. MaxPush, raced' \in BOOLEAN, broken' \in BOOLEAN
  PROVE  QueueTypes'
  <1>1. Nodes \subseteq Nat
    BY NodeAssumption DEF Nodes
  <1>2. \A i \in DOMAIN map' : map'[i] \in 0 .. nodes'
    <2>1. CASE map' = map
      <3>1. (\A i \in DOMAIN map : map[i] \in 0 .. nodes) /\ nodes \in Nodes
        BY DEF QueueTypes, QueueTypeOK
      <3>2. 0 .. nodes \subseteq 0 .. nodes'
        BY <1>1, <3>1
      <3>3. QED
        BY <2>1, <3>1, <3>2
    <2>2. QED
      BY <2>1
  <1>3. Cardinality(DOMAIN map') \in Nat /\ DOMAIN map' = 0 .. Cardinality(DOMAIN map') - 1
    BY DEF QueueTypes
  <1>4. QueueTypeOK'
    BY <1>2 DEF QueueTypeOK, Places, Offsets
  <1>5. QED
    BY <1>3, <1>4 DEF QueueTypes

\* Before is an order.
LEMMA BeforeOrder ==
  ASSUME NEW a \in Places, NEW b \in Places, NEW c \in Places
  PROVE  /\ ~Before(a, a)
         /\ Before(a, b) /\ Before(b, c) => Before(a, c)
         /\ a = b \/ Before(a, b) \/ Before(b, a)
  <1>1. /\ a = <<a[1], a[2]>> /\ b = <<b[1], b[2]>> /\ c = <<c[1], c[2]>>
        /\ a[1] \in Nat /\ b[1] \in Nat /\ a[2] \in Nat /\ b[2] \in Nat /\ c[1] \in Nat /\ c[2] \in Nat
    BY NodeAssumption DEF Places, Nodes, Offsets
  <1>2. QED
    BY <1>1 DEF Before

\* The place after another: nothing is between the two.
LEMMA AfterNext ==
  ASSUME NEW a \in Places
  PROVE  /\ Number(a) \in Nat /\ Number(After(a)) = Number(a) + 1
         /\ Before(a, After(a))
         /\ \A c \in Places : Before(c, After(a)) <=> (Before(c, a) \/ c = a)
         /\ \A c \in Places : ~Before(c, After(a)) /\ a[2] = NodeSize - 1 => a[1] < c[1]
         /\ \A b \in Places : Before(a, b) =>
               /\ After(a) \in Places
               /\ Before(After(a), b) \/ After(a) = b
               /\ a[2] = NodeSize - 1 => a[1] < b[1]
  <1>1. /\ a = <<a[1], a[2]>> /\ a[1] \in 1 .. MaxPush + 1 /\ a[2] \in 0 .. NodeSize - 1
        /\ MaxPush \in Nat /\ NodeSize \in Nat \ {0}
    BY NodeAssumption DEF Places, Nodes, Offsets
  <1>2. Number(a) \in Nat /\ Number(After(a)) = Number(a) + 1
    <2>1. a[1] \in Nat \ {0} /\ a[2] \in Offsets
      BY <1>1 DEF Offsets
    <2>2. Number(a) = Number(<<a[1], a[2]>>)
      BY <1>1
    <2>3. QED
      BY <2>1, <2>2, NumberNext DEF After
  <1>3. Before(a, After(a))
    BY <1>1 DEF Before, After
  <1>4. ASSUME NEW c \in Places
        PROVE  /\ Before(c, After(a)) <=> (Before(c, a) \/ c = a)
               /\ ~Before(c, After(a)) /\ a[2] = NodeSize - 1 => a[1] < c[1]
    <2>1. c = <<c[1], c[2]>> /\ c[1] \in 1 .. MaxPush + 1 /\ c[2] \in 0 .. NodeSize - 1
      BY DEF Places, Nodes, Offsets
    <2>2. c = a <=> c[1] = a[1] /\ c[2] = a[2]
      BY <1>1, <2>1
    <2>3. CASE a[2] = NodeSize - 1
      BY <1>1, <2>1, <2>2, <2>3 DEF Before, After
    <2>4. CASE a[2] # NodeSize - 1
      BY <1>1, <2>1, <2>2, <2>4 DEF Before, After
    <2>5. QED
      BY <2>3, <2>4
  <1>5. ASSUME NEW b \in Places, Before(a, b)
        PROVE  /\ After(a) \in Places
               /\ Before(After(a), b) \/ After(a) = b
               /\ a[2] = NodeSize - 1 => a[1] < b[1]
    <2>1. b = <<b[1], b[2]>> /\ b[1] \in 1 .. MaxPush + 1 /\ b[2] \in 0 .. NodeSize - 1
      BY DEF Places, Nodes, Offsets
    <2>2. a[1] < b[1] \/ (a[1] = b[1] /\ a[2] < b[2])
      BY <1>5 DEF Before
    <2>3. CASE a[2] = NodeSize - 1
      <3>1. a[1] < b[1] /\ After(a) = <<a[1] + 1, 0>>
        BY <1>1, <2>1, <2>2, <2>3 DEF After
      <3>2. After(a) \in Places
        BY <1>1, <2>1, <3>1 DEF Places, Nodes, Offsets
      <3>3. QED
        BY <1>1, <2>1, <3>1, <3>2 DEF Before
    <2>4. CASE a[2] # NodeSize - 1
      <3>1. After(a) = <<a[1], a[2] + 1>>
        BY <2>4 DEF After
      <3>2. After(a) \in Places
        BY <1>1, <2>4, <3>1 DEF Places, Nodes, Offsets
      <3>3. QED
        BY <1>1, <2>1, <2>2, <2>4, <3>1, <3>2 DEF Before
    <2>5. QED
      BY <2>3, <2>4
  <1>6. QED
    BY <1>2, <1>3, <1>4, <1>5

\* A step of the queue keeps the types when what it changes has its type.
LEMMA TypesKept ==
  ASSUME QueueTypes, ~raced,
         slots' = slots \/ slots' \in [Nodes -> [Offsets -> Nat]],
         wTo' = wTo \/ wTo' \in Nat,
         popped' = popped \/ popped' \in Seq(Nat),
         \/ map' = map
         \/ /\ Cardinality(DOMAIN map') \in Nat
            /\ DOMAIN map' = 0 .. Cardinality(DOMAIN map') - 1
            /\ \A i \in DOMAIN map' : map'[i] \in 0 .. nodes',
         nodes' = nodes \/ (nodes' \in Nodes /\ nodes' >= nodes),
         (sNode' = sNode /\ map' = map) \/ sNode' \in DOMAIN map',
         (fNode' = fNode /\ map' = map) \/ fNode' \in DOMAIN map',
         sBuf' = sBuf \/ sBuf' \in Nodes,
         fBuf' = fBuf \/ fBuf' \in Nodes,
         sCur' = sCur \/ sCur' \in Places,
         fCur' = fCur \/ fCur' \in Places,
         pushPc' = pushPc
         \/ pushPc' \in {"idle", "advance", "move", "movestart", "movefinish", "newnode", "setnode", "setcur"},
         sPc' = sPc \/ sPc' \in {"test", "front", "pop", "nextnode", "nextbuf", "nextcur"},
         pushed' = pushed \/ pushed' \in 0 .. MaxPush,
         raced' = raced \/ raced' \in BOOLEAN,
         broken' = broken
  PROVE  QueueTypes'
  <1>1. QueueTypeOK
    BY DEF QueueTypes
  <1>2. slots' \in [Nodes -> [Offsets -> Nat]] /\ wTo' \in Nat /\ popped' \in Seq(Nat)
    BY DEF QueueTypes
  <1>3. nodes' \in Nodes /\ nodes' >= nodes
    BY <1>1, NodeAssumption DEF QueueTypeOK, Nodes
  <1>4. sNode' \in DOMAIN map' /\ fNode' \in DOMAIN map'
    BY <1>1 DEF QueueTypeOK
  <1>5. sBuf' \in Nodes /\ fBuf' \in Nodes
    BY <1>1 DEF QueueTypeOK
  <1>6. sCur' \in Places /\ fCur' \in Places
    BY <1>1 DEF QueueTypeOK, Places, Offsets
  <1>7. pushPc' \in {"idle", "advance", "move", "movestart", "movefinish", "newnode", "setnode", "setcur"}
    BY <1>1 DEF QueueTypeOK
  <1>8. sPc' \in {"test", "front", "pop", "nextnode", "nextbuf", "nextcur", "lost"}
    BY <1>1 DEF QueueTypeOK
  <1>9. pushed' \in 0 .. MaxPush
    BY <1>1 DEF QueueTypeOK
  <1>10. raced' \in BOOLEAN /\ broken' \in BOOLEAN
    BY <1>1 DEF QueueTypeOK
  <1>11. QED
    BY <1>2, <1>3, <1>4, <1>5, <1>6, <1>7, <1>8, <1>9, <1>10, TypesStay

\* Push: the status is put into its slot, or a new node is needed first.
LEMMA PushKept ==
  ASSUME QueueInv, ~raced, Push
  PROVE  QueueInv'
  <1>1. /\ UNCHANGED <<map, nodes, sNode, sBuf, sCur, fNode, fBuf, fCur, wTo, sPc, popped, raced, broken>>
        /\ pushed' = pushed + 1 /\ pushed < MaxPush /\ pushPc = "idle"
    BY DEF Push, startVars, finishVars
  <1>2. PushInv /\ TakeInv /\ MapInv /\ SlotInv /\ QueueTypes
    BY QueueFacts
  <1>a. slots \in [Nodes -> [Offsets -> Nat]]
    BY <1>2, QueueValues
  <1>3. fBuf = fCur[1] /\ nodes = fBuf /\ pushed = Number(fCur) /\ nodes <= pushed + 1
    BY <1>1, <1>2 DEF PushInv
  <1>4. TakeInv' /\ MapInv'
    <2>1. pushPc' \notin {"movestart", "movefinish"}
      BY DEF Push
    <2>2. QED
      BY <1>1, <1>2, <2>1 DEF TakeInv, MapInv, Crossing, Moving, StartIndex, StartNode
  <1>5. CASE LastSlot(fCur, fBuf)
    <2>1. /\ slots' = slots
          /\ pushPc' = IF fNode + 1 \in DOMAIN map THEN "newnode" ELSE "move"
      BY <1>5 DEF Push
    <2>2. fCur[2] = NodeSize - 1
      BY <1>5 DEF LastSlot
    <2>3. PushInv'
      BY <1>1, <1>3, <2>1, <2>2, QueueFacts DEF PushInv
    <2>4. SlotInv'
      BY <1>1, <1>2, <2>1 DEF SlotInv, Waiting, Crossing
    <2>5. QueueTypes'
      <3>1. pushed' \in 0 .. MaxPush
        BY <1>1, QueueFacts
      <3>2. QED
        BY <1>1, <1>2, <2>1, <3>1, TypesKept
    <2>6. QED
      BY <1>4, <2>3, <2>4, <2>5 DEF QueueInv
  <1>6. CASE ~LastSlot(fCur, fBuf)
    <2>1. slots' = [slots EXCEPT ![fCur[1]][fCur[2]] = pushed + 1] /\ pushPc' = "advance"
      BY <1>6 DEF Push
    <2>2. fCur[2] < NodeSize - 1
      BY <1>3, <1>6, QueueFacts DEF LastSlot, Offsets
    <2>3. /\ slots' \in [Nodes -> [Offsets -> Nat]]
          /\ slots'[fCur[1]][fCur[2]] = pushed + 1
          /\ \A m \in Nodes, p \in Offsets : <<m, p>> # fCur => slots'[m][p] = slots[m][p]
      <3>1. pushed + 1 \in Nat /\ fCur \in Places
        BY QueueFacts
      <3>2. QED
        BY <1>a, <2>1, <3>1, SlotWritten
    <2>4. PushInv'
      BY <1>1, <1>3, <2>1, <2>2, <2>3, QueueFacts DEF PushInv
    <2>5. SlotInv'
      <3>1. \A m \in Nodes, p \in Offsets : Before(<<m, p>>, fCur) => <<m, p>> # fCur
        BY QueueFacts, BeforeOrder
      <3>2. QED
        BY <1>1, <1>2, <2>3, <3>1 DEF SlotInv, Waiting, Crossing
    <2>6. QueueTypes'
      <3>1. pushed' \in 0 .. MaxPush
        BY <1>1, QueueFacts
      <3>2. QED
        BY <1>1, <1>2, <2>1, <2>3, <3>1, TypesKept
    <2>7. QED
      BY <1>4, <2>4, <2>5, <2>6 DEF QueueInv
  <1>7. QED
    BY <1>5, <1>6


\* Finish goes to the next slot: the status of the slot it leaves is whole.
LEMMA FinishKept ==
  ASSUME QueueInv, ~raced, PushAdvance \/ SetCur
  PROVE  QueueInv'
  <1>1. /\ UNCHANGED <<map, slots, nodes, sNode, sBuf, sCur, fNode, fBuf, wTo, sPc, pushed, popped, raced, broken>>
        /\ pushPc \in {"advance", "setcur"} /\ pushPc' = "idle"
    BY DEF PushAdvance, SetCur, startVars
  <1>2. PushInv /\ TakeInv /\ MapInv /\ SlotInv /\ QueueTypes /\ fCur \in Places /\ sCur \in Places
    BY QueueFacts
  <1>3. fCur' = After(fCur) /\ fCur'[1] = fBuf
    <2>1. CASE PushAdvance
      <3>1. fCur' = <<fCur[1], fCur[2] + 1>> /\ pushPc = "advance"
        BY <2>1 DEF PushAdvance
      <3>2. fCur[2] < NodeSize - 1 /\ fBuf = fCur[1]
        BY <1>2, <3>1 DEF PushInv
      <3>3. fCur[2] # NodeSize - 1
        BY <3>2, QueueFacts
      <3>4. QED
        BY <3>1, <3>2, <3>3 DEF After
    <2>2. CASE SetCur
      <3>1. fCur' = <<fBuf, 0>> /\ pushPc = "setcur"
        BY <2>2 DEF SetCur
      <3>2. fCur[2] = NodeSize - 1 /\ fBuf = fCur[1] + 1
        BY <1>2, <3>1 DEF PushInv
      <3>3. QED
        BY <3>1, <3>2 DEF After
    <2>3. QED
      BY <2>1, <2>2
  <1>4. /\ Number(fCur') = Number(fCur) + 1 /\ Before(fCur, fCur')
        /\ \A c \in Places : Before(c, fCur') <=> (Before(c, fCur) \/ c = fCur)
    BY <1>2, <1>3, AfterNext
  <1>5. fCur' \in Places
    <2>1. CASE PushAdvance
      <3>1. fCur' = <<fCur[1], fCur[2] + 1>> /\ fCur[2] < NodeSize - 1
        BY <1>2, <2>1 DEF PushAdvance, PushInv
      <3>2. fCur[1] \in Nodes /\ fCur[2] + 1 \in Offsets
        BY <3>1, QueueFacts DEF Offsets
      <3>3. QED
        BY <3>1, <3>2 DEF Places
    <2>2. CASE SetCur
      <3>1. fBuf \in Nodes /\ 0 \in Offsets /\ fCur' = <<fBuf, 0>>
        BY <2>2, QueueFacts DEF SetCur, Offsets
      <3>2. QED
        BY <3>1 DEF Places
    <2>3. QED
      BY <2>1, <2>2
  <1>6. PushInv'
    BY <1>1, <1>2, <1>3, <1>4 DEF PushInv
  <1>7. TakeInv'
    <2>1. Before(sCur, fCur')
      BY <1>2, <1>4 DEF TakeInv
    <2>2. QED
      BY <1>1, <1>2, <2>1 DEF TakeInv, Crossing, Moving
  <1>8. MapInv'
    BY <1>1, <1>2 DEF MapInv, StartIndex, StartNode
  <1>9. SlotInv'
    <2>1. slots[fCur[1]][fCur[2]] = Number(fCur) + 1
      BY <1>1, <1>2 DEF PushInv
    <2>2. ASSUME NEW n \in Nodes, NEW o \in Offsets, Waiting(<<n, o>>)'
          PROVE  slots'[n][o] = Number(<<n, o>>) + 1
      <3>1. <<n, o>> \in Places
        BY DEF Places
      <3>2. CASE <<n, o>> = fCur
        BY <1>1, <2>1, <3>2
      <3>3. CASE <<n, o>> # fCur
        <4>1. Waiting(<<n, o>>)
          BY <1>1, <1>4, <2>2, <3>1, <3>3 DEF Waiting, Crossing
        <4>2. QED
          BY <1>1, <1>2, <4>1 DEF SlotInv
      <3>4. QED
        BY <3>2, <3>3
    <2>3. QED
      BY <2>2 DEF SlotInv, Number
  <1>10. QueueTypes'
    BY <1>1, <1>2, <1>5, TypesKept
  <1>11. QED
    BY <1>6, <1>7, <1>8, <1>9, <1>10 DEF QueueInv


\* A new node behind finish, with the status in the last slot of the old one.
LEMMA NewNodeKept ==
  ASSUME QueueInv, ~raced, NewNode
  PROVE  QueueInv'
  <1>1. /\ UNCHANGED <<sNode, sBuf, sCur, fNode, fBuf, fCur, wTo, sPc, pushed, popped, raced, broken>>
        /\ pushPc = "newnode" /\ pushPc' = "setnode" /\ nodes' = nodes + 1
        /\ map' = [map EXCEPT ![fNode + 1] = nodes + 1]
        /\ slots' = [slots EXCEPT ![fCur[1]][fCur[2]] = pushed]
    BY DEF NewNode, startVars, finishVars
  <1>2. PushInv /\ TakeInv /\ MapInv /\ SlotInv /\ QueueTypes /\ fCur \in Places /\ sCur \in Places
    BY QueueFacts
  <1>3. /\ nodes <= pushed /\ fBuf = fCur[1] /\ nodes = fBuf /\ pushed = Number(fCur) + 1
        /\ fCur[2] = NodeSize - 1 /\ fNode + 1 \in DOMAIN map
    BY <1>1, <1>2 DEF PushInv
  <1>4. /\ DOMAIN map' = DOMAIN map /\ map'[fNode + 1] = nodes + 1
        /\ \A i \in DOMAIN map : i # fNode + 1 => map'[i] = map[i]
    BY <1>1, <1>3
  <1>5. /\ slots' \in [Nodes -> [Offsets -> Nat]]
        /\ slots'[fCur[1]][fCur[2]] = pushed
        /\ \A m \in Nodes, p \in Offsets : <<m, p>> # fCur => slots'[m][p] = slots[m][p]
    <2>1. pushed \in Nat /\ slots \in [Nodes -> [Offsets -> Nat]]
      BY <1>2, QueueFacts, QueueValues
    <2>2. QED
      BY <1>1, <1>2, <2>1, SlotWritten
  <1>6. nodes' \in Nodes /\ nodes' >= nodes
    BY <1>1, <1>3, QueueFacts DEF Nodes
  <1>7. PushInv'
    BY <1>1, <1>3, <1>4, <1>5, QueueFacts DEF PushInv
  <1>8. TakeInv'
    BY <1>1, <1>2 DEF TakeInv, Crossing, Moving
  <1>9. MapInv'
    <2>1. StartIndex = sNode /\ StartIndex' = StartIndex /\ StartNode' = StartNode
      BY <1>1 DEF StartIndex, StartNode
    <2>2. ASSUME NEW i \in StartIndex .. fNode PROVE i \in DOMAIN map /\ i # fNode + 1
      <3>1. Cardinality(DOMAIN map) \in Nat /\ DOMAIN map = 0 .. Cardinality(DOMAIN map) - 1
        BY <1>2 DEF QueueTypes
      <3>2. sNode \in Nat /\ fNode \in Nat /\ fNode \in DOMAIN map /\ i \in sNode .. fNode
        BY <2>1, QueueFacts
      <3>3. QED
        BY <3>1, <3>2
    <2>3. QED
      BY <1>1, <1>2, <1>4, <2>1, <2>2 DEF MapInv
  <1>10. SlotInv'
    <2>1. \A m \in Nodes, p \in Offsets : Before(<<m, p>>, fCur) => <<m, p>> # fCur
      BY <1>2, BeforeOrder
    <2>2. QED
      BY <1>1, <1>2, <1>5, <2>1 DEF SlotInv, Waiting, Crossing
  <1>11. QueueTypes'
    <2>1. /\ Cardinality(DOMAIN map') \in Nat /\ DOMAIN map' = 0 .. Cardinality(DOMAIN map') - 1
      BY <1>2, <1>4 DEF QueueTypes
    <2>2. \A i \in DOMAIN map' : map'[i] \in 0 .. nodes'
      <3>1. \A i \in DOMAIN map : map[i] \in 0 .. nodes
        BY <1>2 DEF QueueTypes, QueueTypeOK
      <3>2. QED
        BY <1>1, <1>4, <3>1, QueueFacts
    <2>3. sNode' \in DOMAIN map' /\ fNode' \in DOMAIN map'
      BY <1>1, <1>4, QueueFacts
    <2>4. QED
      BY <1>1, <1>2, <1>5, <1>6, <2>1, <2>2, <2>3, TypesKept
  <1>12. QED
    BY <1>7, <1>8, <1>9, <1>10, <1>11 DEF QueueInv

\* finish._M_set_node(finish.node + 1): the node is the new one.
LEMMA SetNodeKept ==
  ASSUME QueueInv, ~raced, SetNode
  PROVE  QueueInv'
  <1>1. /\ UNCHANGED <<map, slots, nodes, sNode, sBuf, sCur, fCur, wTo, sPc, pushed, popped, raced, broken>>
        /\ pushPc = "setnode" /\ pushPc' = "setcur" /\ fNode' = fNode + 1 /\ fBuf' = map[fNode + 1]
    BY DEF SetNode, startVars
  <1>2. PushInv /\ TakeInv /\ MapInv /\ SlotInv /\ QueueTypes
    BY QueueFacts
  <1>3. /\ fBuf = fCur[1] /\ nodes = fBuf + 1 /\ fNode + 1 \in DOMAIN map /\ map[fNode + 1] = nodes
        /\ fBuf' = nodes
    BY <1>1, <1>2 DEF PushInv
  <1>4. PushInv'
    BY <1>1, <1>2, <1>3 DEF PushInv
  <1>5. TakeInv'
    BY <1>1, <1>2 DEF TakeInv, Crossing, Moving
  <1>6. MapInv'
    <2>1. StartIndex = sNode /\ StartIndex' = StartIndex /\ StartNode' = StartNode
      BY <1>1 DEF StartIndex, StartNode
    <2>2. StartNode \in Nat
      BY QueueFacts DEF StartNode
    <2>3. /\ StartIndex \in Nat /\ StartIndex <= fNode /\ fBuf = StartNode + (fNode - StartIndex)
          /\ \A i \in StartIndex .. fNode : map[i] = StartNode + (i - StartIndex)
      BY <1>2 DEF MapInv
    <2>4. fNode \in Nat /\ fBuf \in Nat
      BY QueueFacts
    <2>5. ASSUME NEW i \in StartIndex .. fNode + 1 PROVE map[i] = StartNode + (i - StartIndex)
      BY <1>3, <2>2, <2>3, <2>4
    <2>6. StartIndex <= fNode' /\ fBuf' = StartNode + (fNode' - StartIndex)
      BY <1>1, <1>3, <2>2, <2>3, <2>4
    <2>7. QED
      BY <1>1, <2>1, <2>3, <2>5, <2>6 DEF MapInv
  <1>7. SlotInv'
    BY <1>1, <1>2 DEF SlotInv, Waiting, Crossing
  <1>8. QueueTypes'
    <2>1. fNode' \in DOMAIN map' /\ fBuf' \in Nodes
      BY <1>1, <1>3, QueueFacts
    <2>2. QED
      BY <1>1, <1>2, <2>1, TypesKept
  <1>9. QED
    BY <1>4, <1>5, <1>6, <1>7, <1>8 DEF QueueInv

\* start._M_set_node after a move: start names the node it named before.
LEMMA MoveStartKept ==
  ASSUME QueueInv, ~raced, MoveStart \/ MoveFinish
  PROVE  QueueInv'
  <1>1. /\ UNCHANGED <<map, slots, nodes, sCur, fNode, fBuf, fCur, wTo, sPc, pushed, popped, broken>>
        /\ \/ pushPc = "movestart" /\ pushPc' = "movefinish" /\ sNode' = wTo /\ sBuf' = sBuf
           \/ pushPc = "movefinish" /\ pushPc' = "newnode" /\ sNode' = sNode /\ sBuf' = map[sNode]
    BY DEF MoveStart, MoveFinish, finishVars
  <1>2. PushInv /\ TakeInv /\ MapInv /\ SlotInv /\ QueueTypes
    BY QueueFacts
  <1>3. ~Crossing
    BY <1>1, <1>2 DEF TakeInv, Moving
  <1>4. raced' = FALSE
    <2>1. raced' = (raced \/ Crossing)
      BY DEF MoveStart, MoveFinish
    <2>2. QED
      BY <1>3, <2>1, Zenon
  <1>5. sNode' = StartIndex /\ StartIndex' = StartIndex
    BY <1>1 DEF StartIndex
  <1>6. StartNode = sBuf /\ sBuf \in Nat /\ sNode \in Nat
    BY <1>3, QueueFacts DEF StartNode, Crossing
  <1>7. sBuf' = sBuf
    <2>1. CASE pushPc = "movefinish"
      <3>1. StartIndex = sNode /\ sNode <= fNode /\ fNode \in Nat
        BY <1>2, <2>1, QueueFacts DEF MapInv, StartIndex
      <3>2. map[sNode] = StartNode + (sNode - sNode)
        BY <1>2, <1>6, <3>1 DEF MapInv
      <3>3. QED
        BY <1>1, <1>6, <2>1, <3>2
    <2>2. QED
      BY <1>1, <2>1
  <1>8. PushInv'
    BY <1>1, <1>2 DEF PushInv
  <1>9. TakeInv'
    BY <1>1, <1>2, <1>3, <1>7 DEF TakeInv, Crossing, Moving
  <1>10. MapInv'
    <2>1. StartNode' = StartNode
      BY <1>1, <1>7 DEF StartNode
    <2>2. QED
      BY <1>1, <1>2, <1>5, <2>1 DEF MapInv
  <1>11. SlotInv'
    BY <1>1, <1>2 DEF SlotInv, Waiting, Crossing
  <1>12. QueueTypes'
    <2>1. sNode' \in DOMAIN map'
      <3>1. /\ StartIndex \in Nat /\ StartIndex <= fNode /\ fNode \in DOMAIN map /\ fNode \in Nat
            /\ Cardinality(DOMAIN map) \in Nat /\ DOMAIN map = 0 .. Cardinality(DOMAIN map) - 1
        BY <1>2, QueueFacts DEF MapInv, QueueTypes
      <3>2. StartIndex \in DOMAIN map
        BY <3>1
      <3>3. QED
        BY <1>1, <1>5, <3>2
    <2>2. raced' \in BOOLEAN
      BY <1>4
    <2>3. QED
      BY <1>1, <1>2, <1>7, <2>1, <2>2, TypesKept
  <1>13. QED
    BY <1>8, <1>9, <1>10, <1>11, <1>12 DEF QueueInv

\* empty() and front(): the status taken is the next one.
LEMMA FrontKept ==
  ASSUME QueueInv, ~raced, Test \/ TakeFront
  PROVE  QueueInv'
  <1>1. UNCHANGED <<map, slots, nodes, sNode, sBuf, sCur, fNode, fBuf, fCur, pushPc, wTo, pushed, raced, broken>>
    BY DEF Test, TakeFront, startVars, finishVars
  <1>2. PushInv /\ TakeInv /\ MapInv /\ SlotInv /\ QueueTypes /\ fCur \in Places /\ sCur \in Places
    BY QueueFacts
  <1>3. sPc \in {"test", "front"} /\ sPc' \in {"front", "pop"} /\ ~Crossing /\ ~Crossing'
    BY DEF Test, TakeFront, Crossing
  <1>4. PushInv'
    BY <1>1, <1>2 DEF PushInv
  <1>5. MapInv'
    BY <1>1, <1>2, <1>3 DEF MapInv, StartIndex, StartNode
  <1>6. SlotInv'
    <2>1. \A n \in Nodes, o \in Offsets : Waiting(<<n, o>>)' => Waiting(<<n, o>>)
      BY <1>1, <1>3 DEF Waiting, Before
    <2>2. QED
      BY <1>1, <1>2, <2>1 DEF SlotInv, Number
  <1>7. CASE Test
    <2>1. sPc = "test" /\ sPc' = "front" /\ popped' = popped /\ sCur # fCur
      BY <1>7 DEF Test
    <2>2. TakeInv'
      BY <1>1, <1>2, <1>3, <2>1 DEF TakeInv
    <2>3. QueueTypes'
      BY <1>1, <1>2, <2>1, TypesKept
    <2>4. QED
      BY <1>4, <1>5, <1>6, <2>2, <2>3 DEF QueueInv
  <1>8. CASE TakeFront
    <2>1. sPc = "front" /\ sPc' = "pop" /\ popped' = Append(popped, slots[sCur[1]][sCur[2]])
      BY <1>8 DEF TakeFront
    <2>2. Before(sCur, fCur) /\ Len(popped) = Number(sCur) /\ sBuf = sCur[1]
      BY <1>2, <2>1 DEF TakeInv
    <2>3. slots[sCur[1]][sCur[2]] = Number(sCur) + 1 /\ Number(sCur) \in Nat
      <3>1. Waiting(sCur)
        BY <1>2, <1>3, <2>2, BeforeOrder DEF Waiting
      <3>2. sCur = <<sCur[1], sCur[2]>> /\ sCur[1] \in Nodes /\ sCur[2] \in Offsets
        BY QueueFacts
      <3>3. Waiting(<<sCur[1], sCur[2]>>)
        BY <3>1, <3>2
      <3>4. slots[sCur[1]][sCur[2]] = Number(<<sCur[1], sCur[2]>>) + 1
        BY <1>2, <3>2, <3>3 DEF SlotInv
      <3>5. QED
        BY <1>2, <3>2, <3>4, AfterNext
    <2>4. /\ popped' \in Seq(Nat) /\ Len(popped') = Len(popped) + 1
          /\ \A i \in 1 .. Len(popped') : popped'[i] = i
      <3>1. popped \in Seq(Nat) /\ \A i \in 1 .. Len(popped) : popped[i] = i
        BY <1>2, QueueValues DEF TakeInv
      <3>2. popped' = Append(popped, Number(sCur) + 1)
        BY <2>1, <2>3
      <3>3. QED
        BY <2>2, <2>3, <3>1, <3>2
    <2>5. TakeInv'
      BY <1>1, <1>2, <1>3, <2>1, <2>2, <2>4 DEF TakeInv
    <2>6. QueueTypes'
      BY <1>1, <1>2, <2>1, <2>4, TypesKept
    <2>7. QED
      BY <1>4, <1>5, <1>6, <2>5, <2>6 DEF QueueInv
  <1>9. QED
    BY <1>7, <1>8


\* pop(): the next slot, or the old node is freed - nothing that waits is in it.
LEMMA PopKept ==
  ASSUME QueueInv, ~raced, Pop
  PROVE  QueueInv'
  <1>1. /\ UNCHANGED <<map, nodes, sNode, sBuf, fNode, fBuf, fCur, pushPc, wTo, pushed, popped, broken>>
        /\ sPc = "pop"
    BY DEF Pop, finishVars
  <1>2. PushInv /\ TakeInv /\ MapInv /\ SlotInv /\ QueueTypes /\ fCur \in Places /\ sCur \in Places
    BY QueueFacts
  <1>3. Before(sCur, fCur) /\ Len(popped) = Number(sCur) + 1 /\ sBuf = sCur[1] /\ ~Crossing
    BY <1>1, <1>2 DEF TakeInv, Crossing
  <1>4. LastSlot(sCur, sBuf) <=> sCur[2] = NodeSize - 1
    BY <1>3, QueueFacts DEF LastSlot
  <1>5. CASE ~LastSlot(sCur, sBuf)
    <2>a. sCur' = <<sCur[1], sCur[2] + 1>> /\ sPc' = "test" /\ UNCHANGED <<slots, raced>>
      BY <1>5 DEF Pop
    <2>1. sCur' = After(sCur) /\ sPc' = "test" /\ UNCHANGED <<slots, raced>>
      BY <1>4, <1>5, <2>a DEF After
    <2>2. /\ Number(sCur') = Number(sCur) + 1 /\ sCur' \in Places
          /\ Before(sCur', fCur) \/ sCur' = fCur
          /\ \A c \in Places : Before(c, sCur) => Before(c, sCur')
      BY <1>2, <1>3, <2>1, AfterNext
    <2>3. sCur'[1] = sCur[1] /\ ~Crossing'
      BY <2>a DEF Crossing
    <2>4. PushInv'
      BY <1>1, <1>2, <2>1 DEF PushInv
    <2>5. TakeInv'
      BY <1>1, <1>2, <1>3, <2>1, <2>2, <2>3 DEF TakeInv
    <2>6. MapInv'
      BY <1>1, <1>2, <2>1 DEF MapInv, StartIndex, StartNode
    <2>7. SlotInv'
      <3>1. ASSUME NEW n \in Nodes, NEW o \in Offsets, Waiting(<<n, o>>)' PROVE Waiting(<<n, o>>)
        <4>1. <<n, o>> \in Places
          BY DEF Places
        <4>2. ~Before(<<n, o>>, sCur') /\ Before(<<n, o>>, fCur)
          BY <1>1, <2>3, <3>1 DEF Waiting, Before
        <4>3. QED
          BY <1>3, <2>2, <4>1, <4>2 DEF Waiting
      <3>2. QED
        BY <1>2, <2>1, <3>1 DEF SlotInv, Number
    <2>8. QueueTypes'
      BY <1>1, <1>2, <2>1, <2>2, TypesKept
    <2>9. QED
      BY <2>4, <2>5, <2>6, <2>7, <2>8 DEF QueueInv
  <1>6. CASE LastSlot(sCur, sBuf)
    <2>1. slots' = [slots EXCEPT ![sBuf] = EmptyNode] /\ sPc' = "nextnode" /\ sCur' = sCur
      BY <1>6 DEF Pop
    <2>2. raced' = (raced \/ Moving)
      BY <1>6 DEF Pop
    <2>3. sCur[2] = NodeSize - 1 /\ sCur[1] < fCur[1]
      BY <1>2, <1>3, <1>4, <1>6, AfterNext
    <2>4. /\ slots' \in [Nodes -> [Offsets -> Nat]]
          /\ \A m \in Nodes : m # sCur[1] => slots'[m] = slots[m]
      <3>1. EmptyNode \in [Offsets -> Nat] /\ slots \in [Nodes -> [Offsets -> Nat]] /\ sBuf \in Nodes
        BY <1>2, QueueFacts, QueueValues DEF EmptyNode, Offsets
      <3>2. QED
        BY <1>3, <2>1, <3>1
    <2>5. QueueTypes'
      <3>1. raced' \in BOOLEAN
        BY <2>2, Zenon
      <3>2. QED
        BY <1>1, <1>2, <2>1, <2>4, <3>1, TypesKept
    <2>6. CASE Moving
      <3>1. raced'
        BY <2>2, <2>6, Zenon
      <3>2. QED
        BY <2>5, <3>1 DEF QueueInv
    <2>7. CASE ~Moving
      <3>1. PushInv'
        <4>1. slots'[fCur[1]] = slots[fCur[1]]
          <5>1. fCur[1] \in Nodes /\ fCur[1] # sCur[1]
            BY <2>3, QueueFacts
          <5>2. QED
            BY <2>4, <5>1
        <4>2. QED
          BY <1>1, <1>2, <4>1 DEF PushInv
      <3>2. TakeInv'
        BY <1>1, <1>2, <1>3, <2>1, <2>3, <2>7 DEF TakeInv, Crossing, Moving
      <3>3. MapInv'
        BY <1>1, <1>2, <2>1 DEF MapInv, StartIndex, StartNode
      <3>4. SlotInv'
        <4>1. ASSUME NEW n \in Nodes, NEW o \in Offsets, Waiting(<<n, o>>)'
              PROVE  Waiting(<<n, o>>) /\ n # sCur[1]
          <5>1. sCur[1] < n /\ Before(<<n, o>>, fCur)
            BY <1>1, <2>1, <4>1 DEF Waiting, Crossing, Before
          <5>2. ~Before(<<n, o>>, sCur) /\ n # sCur[1]
            BY <5>1, QueueFacts DEF Before
          <5>3. QED
            BY <1>3, <5>1, <5>2 DEF Waiting
        <4>2. QED
          BY <1>2, <2>4, <4>1 DEF SlotInv, Number
      <3>5. QED
        BY <2>5, <3>1, <3>2, <3>3, <3>4 DEF QueueInv
    <2>8. QED
      BY <2>6, <2>7
  <1>7. QED
    BY <1>5, <1>6

\* The server goes to the next node only while the worker does not move the nodes.
LEMMA CrossingFacts ==
  ASSUME QueueInv, ~raced, Crossing, NextNode \/ NextBuf \/ NextCur
  PROVE  /\ raced' = FALSE /\ ~Moving /\ sCur[2] = NodeSize - 1
         /\ Before(sCur, fCur) /\ sCur[1] < fCur[1] /\ Len(popped) = Number(sCur) + 1
         /\ StartIndex = sNode
  <1>1. TakeInv /\ fCur \in Places /\ sCur \in Places
    BY QueueFacts
  <1>2. ~Moving /\ sCur[2] = NodeSize - 1
    BY <1>1 DEF TakeInv
  <1>3. raced' = (raced \/ Moving)
    BY DEF NextNode, NextBuf, NextCur
  <1>4. raced' = FALSE
    BY <1>2, <1>3, Zenon
  <1>5. Before(sCur, fCur) /\ Len(popped) = Number(sCur) + 1
    BY <1>1 DEF TakeInv, Crossing
  <1>6. sCur[1] < fCur[1]
    BY <1>1, <1>2, <1>5, AfterNext
  <1>7. StartIndex = sNode
    BY <1>2 DEF StartIndex, Moving
  <1>8. QED
    BY <1>2, <1>4, <1>5, <1>6, <1>7

\* start.node + 1: there is a next node, since finish is behind the last slot of this one.
LEMMA NextNodeKept ==
  ASSUME QueueInv, ~raced, NextNode
  PROVE  QueueInv'
  <1>1. /\ UNCHANGED <<map, slots, nodes, sBuf, sCur, fNode, fBuf, fCur, pushPc, wTo, pushed, popped, broken>>
        /\ sPc = "nextnode" /\ sPc' = "nextbuf" /\ sNode' = sNode + 1
    BY DEF NextNode, finishVars
  <1>2. PushInv /\ TakeInv /\ MapInv /\ SlotInv /\ QueueTypes
    BY QueueFacts
  <1>3. /\ raced' = FALSE /\ ~Moving /\ sCur[2] = NodeSize - 1 /\ Before(sCur, fCur)
        /\ sCur[1] < fCur[1] /\ StartIndex = sNode
    BY <1>1, CrossingFacts DEF Crossing
  <1>4. PushInv'
    BY <1>1, <1>2 DEF PushInv
  <1>5. TakeInv'
    BY <1>1, <1>2, <1>3 DEF TakeInv, Crossing, Moving
  <1>6. MapInv' /\ sNode' \in DOMAIN map'
    <2>1. StartNode = sBuf /\ StartNode' = sBuf + 1 /\ StartIndex' = sNode + 1
      BY <1>1, <1>3 DEF StartNode, StartIndex, Moving
    <2>2. /\ sNode <= fNode /\ fBuf = sBuf + (fNode - sNode)
          /\ \A i \in sNode .. fNode : map[i] = sBuf + (i - sNode)
      BY <1>2, <1>3, <2>1 DEF MapInv
    <2>3. sBuf = sCur[1] /\ (fBuf = fCur[1] \/ fBuf = fCur[1] + 1)
      BY <1>1, <1>2 DEF TakeInv, PushInv
    <2>4. /\ sBuf \in Nat /\ fBuf \in Nat /\ sNode \in Nat /\ fNode \in Nat /\ sCur[1] \in Nat
          /\ fCur[1] \in Nat /\ fNode \in DOMAIN map
      BY QueueFacts
    <2>5. sNode + 1 <= fNode /\ sNode + 1 \in Nat
      BY <1>3, <2>2, <2>3, <2>4
    <2>6. fBuf = (sBuf + 1) + (fNode - (sNode + 1))
      BY <2>2, <2>4
    <2>7. \A i \in sNode + 1 .. fNode : map[i] = (sBuf + 1) + (i - (sNode + 1))
      BY <2>2, <2>4
    <2>8. MapInv'
      BY <1>1, <2>1, <2>5, <2>6, <2>7 DEF MapInv
    <2>9. Cardinality(DOMAIN map) \in Nat /\ DOMAIN map = 0 .. Cardinality(DOMAIN map) - 1
      BY <1>2 DEF QueueTypes
    <2>10. sNode + 1 \in DOMAIN map
      BY <2>4, <2>5, <2>9
    <2>11. QED
      BY <1>1, <2>8, <2>10
  <1>7. SlotInv'
    BY <1>1, <1>2 DEF SlotInv, Waiting, Crossing
  <1>8. QueueTypes'
    <2>1. raced' \in BOOLEAN
      BY <1>3
    <2>2. QED
      BY <1>1, <1>2, <1>6, <2>1, TypesKept
  <1>9. QED
    BY <1>4, <1>5, <1>6, <1>7, <1>8 DEF QueueInv

\* start.first and start.last of the next node: its entry of the map holds it.
LEMMA NextBufKept ==
  ASSUME QueueInv, ~raced, NextBuf
  PROVE  QueueInv'
  <1>1. /\ UNCHANGED <<map, slots, nodes, sNode, sCur, fNode, fBuf, fCur, pushPc, wTo, pushed, popped>>
        /\ sPc = "nextbuf"
    BY DEF NextBuf, finishVars
  <1>2. PushInv /\ TakeInv /\ MapInv /\ SlotInv /\ QueueTypes
    BY QueueFacts
  <1>3. /\ raced' = FALSE /\ ~Moving /\ sCur[2] = NodeSize - 1 /\ Before(sCur, fCur)
        /\ StartIndex = sNode
    BY <1>1, CrossingFacts DEF Crossing
  <1>4. sNode \in DOMAIN map /\ map[sNode] = sBuf + 1 /\ map[sNode] # 0
    <2>1. StartNode = sBuf + 1
      BY <1>1 DEF StartNode
    <2>2. /\ sNode \in DOMAIN map /\ sNode \in Nat /\ fNode \in Nat /\ sBuf \in Nat
      BY QueueFacts
    <2>3. sNode <= fNode /\ \A i \in sNode .. fNode : map[i] = StartNode + (i - sNode)
      BY <1>2, <1>3 DEF MapInv
    <2>4. QED
      BY <2>1, <2>2, <2>3
  <1>5. sBuf' = sBuf + 1 /\ sPc' = "nextcur" /\ broken' = broken
    BY <1>4 DEF NextBuf
  <1>6. PushInv'
    BY <1>1, <1>2 DEF PushInv
  <1>7. TakeInv'
    BY <1>1, <1>2, <1>3, <1>5 DEF TakeInv, Crossing, Moving
  <1>8. MapInv'
    <2>1. StartNode' = StartNode /\ StartIndex' = StartIndex
      BY <1>1, <1>5 DEF StartNode, StartIndex
    <2>2. QED
      BY <1>1, <1>2, <2>1 DEF MapInv
  <1>9. SlotInv'
    BY <1>1, <1>2, <1>5 DEF SlotInv, Waiting, Crossing
  <1>10. QueueTypes'
    <2>1. raced' \in BOOLEAN
      BY <1>3
    <2>2. sBuf' \in Nodes
      <3>1. map[sNode] \in 0 .. nodes
        BY <1>2, <1>4 DEF QueueTypes, QueueTypeOK
      <3>2. nodes \in 1 .. MaxPush + 1 /\ MaxPush \in Nat
        BY QueueFacts DEF Nodes
      <3>3. QED
        BY <1>4, <1>5, <3>1, <3>2 DEF Nodes
    <2>3. QED
      BY <1>1, <1>2, <1>5, <2>1, <2>2, TypesKept
  <1>11. QED
    BY <1>6, <1>7, <1>8, <1>9, <1>10 DEF QueueInv

\* start.cur: the first slot of the next node.
LEMMA NextCurKept ==
  ASSUME QueueInv, ~raced, NextCur
  PROVE  QueueInv'
  <1>1. /\ UNCHANGED <<map, slots, nodes, sNode, sBuf, fNode, fBuf, fCur, pushPc, wTo, pushed, popped, broken>>
        /\ sPc = "nextcur" /\ sPc' = "test" /\ sCur' = <<sBuf, 0>>
    BY DEF NextCur, finishVars
  <1>2. PushInv /\ TakeInv /\ MapInv /\ SlotInv /\ QueueTypes /\ fCur \in Places /\ sCur \in Places
    BY QueueFacts
  <1>3. /\ raced' = FALSE /\ sCur[2] = NodeSize - 1 /\ Before(sCur, fCur)
        /\ Len(popped) = Number(sCur) + 1
    BY <1>1, CrossingFacts DEF Crossing
  <1>4. sBuf = sCur[1] + 1
    BY <1>1, <1>2 DEF TakeInv
  <1>5. sCur' = After(sCur) /\ sCur'[1] = sBuf
    BY <1>1, <1>3, <1>4 DEF After
  <1>6. /\ Number(sCur') = Number(sCur) + 1 /\ sCur' \in Places
        /\ Before(sCur', fCur) \/ sCur' = fCur
        /\ \A c \in Places : ~Before(c, sCur') => sCur[1] < c[1]
    BY <1>2, <1>3, <1>5, AfterNext
  <1>7. PushInv'
    BY <1>1, <1>2 DEF PushInv
  <1>8. TakeInv'
    BY <1>1, <1>2, <1>3, <1>5, <1>6 DEF TakeInv, Crossing
  <1>9. MapInv'
    BY <1>1, <1>2 DEF MapInv, StartIndex, StartNode
  <1>10. SlotInv'
    <2>1. Crossing /\ ~Crossing'
      BY <1>1 DEF Crossing
    <2>2. ASSUME NEW n \in Nodes, NEW o \in Offsets, Waiting(<<n, o>>)' PROVE Waiting(<<n, o>>)
      <3>1. ~Before(<<n, o>>, sCur') /\ Before(<<n, o>>, fCur)
        BY <1>1, <2>1, <2>2 DEF Waiting, Before
      <3>2. <<n, o>> \in Places
        BY DEF Places
      <3>3. sCur[1] < <<n, o>>[1]
        BY <1>6, <3>1, <3>2
      <3>4. QED
        BY <2>1, <3>1, <3>3 DEF Waiting
    <2>3. QED
      BY <1>1, <1>2, <2>2 DEF SlotInv, Number
  <1>11. QueueTypes'
    <2>1. raced' \in BOOLEAN
      BY <1>3
    <2>2. QED
      BY <1>1, <1>2, <1>6, <2>1, TypesKept
  <1>12. QED
    BY <1>7, <1>8, <1>9, <1>10, <1>11 DEF QueueInv


\* The sizes in _M_reallocate_map: the nodes and one more fit behind new_nstart.
LEMMA MoveFits ==
  ASSUME NEW c \in Nat, NEW used \in Nat, 1 <= used, used <= c,
         NEW room \in Nat,
         (room = c /\ c > 2 * (used + 1)) \/ room = 2 * c + 2,
         NEW to, to = (room - (used + 1)) \div 2
  PROVE  to \in Nat /\ to + used <= room - 1 /\ c <= room
  <1>1. room - (used + 1) \in Nat /\ c <= room
    OBVIOUS
  <1>2. to \in Nat /\ 2 * to <= room - (used + 1)
    BY <1>1
  <1>3. QED
    BY <1>1, <1>2

\* The worker copies the nodes from start to finish: the server, if it is not between two
\* nodes, notices nothing.
LEMMA MoveKept ==
  ASSUME QueueInv, ~raced, Move
  PROVE  QueueInv'
  <1> DEFINE c    == Cardinality(DOMAIN map)
             used == fNode - sNode + 1
             wide == c > 2 * (used + 1)
             big  == IF wide THEN c ELSE 2 * c + 2
             to   == (big - (used + 1)) \div 2
  <1>1. /\ UNCHANGED <<slots, nodes, sNode, sBuf, sCur, fBuf, fCur, sPc, pushed, popped, broken>>
        /\ pushPc = "move" /\ pushPc' = "movestart"
    BY DEF Move, startVars
  <1>2. /\ map' = [i \in 0 .. big - 1 |-> IF i \in to .. to + used - 1 THEN map[sNode + i - to]
                                          ELSE IF wide THEN map[i] ELSE 0]
        /\ wTo' = to /\ fNode' = to + used - 1
    BY DEF Move
  <1>3. raced' = (raced \/ Crossing)
    BY DEF Move
  <1>4. PushInv /\ TakeInv /\ MapInv /\ SlotInv /\ QueueTypes
    BY QueueFacts
  <1>5. c \in Nat /\ DOMAIN map = 0 .. c - 1
    BY <1>4 DEF QueueTypes
  <1>6. /\ sNode <= fNode /\ fBuf = StartNode + (fNode - sNode)
        /\ \A i \in sNode .. fNode : map[i] = StartNode + (i - sNode)
    BY <1>1, <1>4 DEF MapInv, StartIndex
  <1>7. sNode \in Nat /\ fNode \in Nat /\ fNode \in DOMAIN map /\ fBuf \in Nat /\ sBuf \in Nat /\ nodes \in Nat
    BY QueueFacts
  <1>8. StartNode \in Nat
    BY <1>7 DEF StartNode
  <1>9. used \in Nat /\ 1 <= used /\ used <= c
    BY <1>5, <1>6, <1>7
  <1>10. big \in Nat /\ ((big = c /\ c > 2 * (used + 1)) \/ big = 2 * c + 2)
    BY <1>5, <1>9
  <1>11. to \in Nat /\ to + used <= big - 1 /\ c <= big
    <2>1. to = (big - (used + 1)) \div 2
      OBVIOUS
    <2> HIDE DEF c, used, big, to
    <2>2. QED
      BY <1>5, <1>9, <1>10, <2>1, MoveFits
  <1>12. \A i \in DOMAIN map : map[i] \in 0 .. nodes
    BY <1>4 DEF QueueTypes, QueueTypeOK
  <1>13. wide => big = c
    OBVIOUS
  <1>14. used = fNode - sNode + 1
    OBVIOUS
  <1> HIDE DEF c, used, wide, big, to
  <1>15. Cardinality(DOMAIN map') = big /\ DOMAIN map' = 0 .. big - 1
    <2>1. DOMAIN map' = 0 .. big - 1
      BY <1>2
    <2>2. Cardinality(0 .. big - 1) = big
      <3>1. big - 1 \in Int /\ 0 \in Int
        BY <1>10
      <3>2. Cardinality(0 .. big - 1) = IF 0 > big - 1 THEN 0 ELSE big - 1 - 0 + 1
        BY <3>1, FS_Interval
      <3>3. QED
        BY <1>10, <3>2
    <2>3. QED
      BY <2>1, <2>2
  <1>16. QueueTypes'
    <2>1. ASSUME NEW i \in 0 .. big - 1 PROVE map'[i] \in 0 .. nodes
      <3>1. CASE i \in to .. to + used - 1
        <4>1. map'[i] = map[sNode + i - to]
          BY <1>2, <3>1
        <4>2. sNode + i - to \in DOMAIN map
          BY <1>5, <1>7, <1>9, <1>11, <1>14, <3>1
        <4>3. QED
          BY <1>12, <4>1, <4>2
      <3>2. CASE i \notin to .. to + used - 1 /\ wide
        <4>1. map'[i] = map[i] /\ i \in DOMAIN map
          BY <1>2, <1>5, <1>13, <3>2
        <4>2. QED
          BY <1>12, <4>1
      <3>3. CASE i \notin to .. to + used - 1 /\ ~wide
        <4>1. map'[i] = 0
          BY <1>2, <3>3
        <4>2. QED
          BY <1>7, <4>1
      <3>4. QED
        BY <3>1, <3>2, <3>3
    <2>2. /\ Cardinality(DOMAIN map') \in Nat /\ DOMAIN map' = 0 .. Cardinality(DOMAIN map') - 1
          /\ \A i \in DOMAIN map' : map'[i] \in 0 .. nodes'
      BY <1>1, <1>10, <1>15, <2>1
    <2>3. sNode \in DOMAIN map
      BY QueueFacts
    <2>4. sNode' \in DOMAIN map' /\ fNode' \in DOMAIN map'
      BY <1>1, <1>2, <1>5, <1>7, <1>9, <1>10, <1>11, <1>15, <2>3
    <2>5. raced' \in BOOLEAN
      BY <1>3, Zenon
    <2>6. wTo' \in Nat
      BY <1>2, <1>11
    <2>7. QED
      BY <1>1, <1>4, <2>2, <2>4, <2>5, <2>6, TypesKept
  <1>17. CASE Crossing
    <2>1. raced'
      BY <1>3, <1>17, Zenon
    <2>2. QED
      BY <1>16, <2>1 DEF QueueInv
  <1>18. CASE ~Crossing
    <2>1. PushInv'
      <3>1. fNode' + 1 \in DOMAIN map'
        BY <1>2, <1>9, <1>10, <1>11, <1>15
      <3>2. QED
        BY <1>1, <1>4, <3>1 DEF PushInv
    <2>2. TakeInv'
      BY <1>1, <1>4, <1>18 DEF TakeInv, Crossing
    <2>3. MapInv'
      <3>1. StartNode' = StartNode /\ StartIndex' = to
        BY <1>1, <1>2 DEF StartNode, StartIndex
      <3>2. to <= fNode' /\ fBuf = StartNode + (fNode' - to)
        BY <1>2, <1>6, <1>7, <1>8, <1>9, <1>11, <1>14
      <3>3. ASSUME NEW i \in to .. fNode' PROVE map'[i] = StartNode + (i - to)
        <4>1. i \in to .. to + used - 1 /\ i \in 0 .. big - 1
          BY <1>2, <1>9, <1>10, <1>11, <3>3
        <4>2. map'[i] = map[sNode + i - to]
          BY <1>2, <4>1
        <4>3. sNode + i - to \in sNode .. fNode
          BY <1>7, <1>9, <1>11, <1>14, <4>1
        <4>4. map[sNode + i - to] = StartNode + ((sNode + i - to) - sNode)
          BY <1>6, <4>3
        <4>5. QED
          BY <1>7, <1>8, <1>11, <4>1, <4>2, <4>4
      <3>4. QED
        BY <1>1, <1>11, <3>1, <3>2, <3>3 DEF MapInv
    <2>4. SlotInv'
      BY <1>1, <1>4 DEF SlotInv, Waiting, Crossing
    <2>5. QED
      BY <1>16, <2>1, <2>2, <2>3, <2>4 DEF QueueInv
  <1>19. QED
    BY <1>17, <1>18

LEMMA QueueStart == Init => QueueInv
  <1> SUFFICES ASSUME QueueInit PROVE QueueInv
    BY DEF Init
  <1> DEFINE mid == (MapSize - 1) \div 2
  <1>1. /\ map = [i \in 0 .. MapSize - 1 |-> IF i = mid THEN 1 ELSE 0] /\ sNode = mid /\ fNode = mid
        /\ slots = [n \in Nodes |-> EmptyNode] /\ nodes = 1
        /\ sBuf = 1 /\ sCur = <<1, 0>> /\ fBuf = 1 /\ fCur = <<1, 0>>
        /\ pushPc = "idle" /\ wTo = 0 /\ sPc = "test" /\ pushed = 0 /\ popped = <<>>
        /\ raced = FALSE /\ broken = FALSE
    BY DEF QueueInit
  <1>2. NodeSize \in Nat \ {0} /\ MapSize \in Nat \ {0} /\ MaxPush \in Nat
    BY NodeAssumption
  <1>3. mid \in Nat /\ mid <= MapSize - 1
    <2>1. MapSize - 1 \in Nat
      BY <1>2
    <2>2. QED
      BY <2>1
  <1> HIDE DEF mid
  <1>4. DOMAIN map = 0 .. MapSize - 1 /\ Cardinality(DOMAIN map) = MapSize /\ map[mid] = 1
    <2>1. DOMAIN map = 0 .. MapSize - 1 /\ map[mid] = 1
      BY <1>1, <1>2, <1>3
    <2>2. MapSize - 1 \in Int /\ 0 \in Int
      BY <1>2
    <2>3. Cardinality(0 .. MapSize - 1) = IF 0 > MapSize - 1 THEN 0 ELSE MapSize - 1 - 0 + 1
      BY <2>2, FS_Interval
    <2>4. QED
      BY <1>2, <2>1, <2>3
  <1>5. QueueTypes
    <2>1. 1 \in Nodes /\ 0 \in 0 .. NodeSize - 1 /\ <<1, 0>> \in Nodes \X (0 .. NodeSize - 1)
      BY <1>2 DEF Nodes
    <2>2. \A i \in DOMAIN map : map[i] \in 0 .. nodes
      BY <1>1
    <2>3. sNode \in DOMAIN map /\ fNode \in DOMAIN map
      BY <1>1, <1>2, <1>3, <1>4
    <2>a. /\ nodes \in Nodes /\ sBuf \in Nodes /\ sCur \in Nodes \X (0 .. NodeSize - 1)
          /\ fBuf \in Nodes /\ fCur \in Nodes \X (0 .. NodeSize - 1)
      BY <1>1, <2>1
    <2>b. raced \in BOOLEAN /\ broken \in BOOLEAN
      BY <1>1
    <2>c. pushed \in 0 .. MaxPush
      BY <1>1, <1>2
    <2>4. QueueTypeOK
      BY <1>1, <2>a, <2>b, <2>c, <2>2, <2>3, Zenon DEF QueueTypeOK
    <2>5. slots \in [Nodes -> [Offsets -> Nat]]
      BY <1>1 DEF EmptyNode, Offsets
    <2>6. QED
      BY <1>1, <1>2, <1>4, <2>4, <2>5 DEF QueueTypes
  <1>6. Number(<<1, 0>>) = 0
    BY <1>2 DEF Number
  <1>7. PushInv
    BY <1>1, <1>6 DEF PushInv
  <1>8. TakeInv
    BY <1>1, <1>6 DEF TakeInv, Crossing, Moving
  <1>9. MapInv
    BY <1>1, <1>3, <1>4 DEF MapInv, StartIndex, StartNode
  <1>10. SlotInv
    BY <1>1 DEF SlotInv, Waiting, Crossing
  <1>11. QED
    BY <1>5, <1>7, <1>8, <1>9, <1>10 DEF QueueInv

LEMMA QueueAlways == Spec => []QueueInv
  <1>1. Init => QueueInv
    BY QueueStart
  <1>2. ASSUME QueueInv, [Next]_vars PROVE QueueInv'
    <2>1. CASE UNCHANGED queueVars
      BY <1>2, <2>1
         DEF queueVars, startVars, finishVars, QueueInv, QueueTypes, QueueTypeOK, PushInv, TakeInv,
             MapInv, SlotInv, Waiting, Crossing, Moving, StartIndex, StartNode
    <2>2. CASE Push
      BY <1>2, <2>2, PushKept DEF Push
    <2>3. CASE PushStep
      <3>1. ~raced
        BY <2>3 DEF PushStep, PushAdvance, Move, MoveStart, MoveFinish, NewNode, SetNode, SetCur
      <3>2. QED
        BY <1>2, <2>3, <3>1, FinishKept, MoveKept, MoveStartKept, NewNodeKept, SetNodeKept DEF PushStep
    <2>4. CASE TakeStep
      <3>1. ~raced
        BY <2>4 DEF TakeStep, Test, TakeFront, Pop, NextNode, NextBuf, NextCur
      <3>2. QED
        BY <1>2, <2>4, <3>1, FrontKept, PopKept, NextNodeKept, NextBufKept, NextCurKept DEF TakeStep
    <2>5. QED
      BY <1>2, <2>1, <2>2, <2>3, <2>4, QueueChanges
  <1>3. QED
    BY <1>1, <1>2, PTL DEF Spec

\* The server takes every status once, whole and in the order pushed, whatever the sizes of
\* the nodes and of the map, unless the worker moved the nodes while it went to the next.
THEOREM StatusesInOrder == Spec => []StatusInOrder
  <1>1. ASSUME QueueInv PROVE StatusInOrder
    <2>1. CASE raced
      BY <2>1 DEF StatusInOrder
    <2>2. CASE ~raced
      <3>1. TakeInv /\ QueueTypes
        BY <1>1, <2>2 DEF QueueInv
      <3>2. popped \in Seq(Nat)
        BY <3>1 DEF QueueTypes
      <3>3. DOMAIN popped = 1 .. Len(popped)
        BY <3>2
      <3>4. QED
        BY <3>1, <3>3 DEF TakeInv, StatusInOrder
    <2>3. QED
      BY <2>1, <2>2
  <1>2. QED
    BY <1>1, QueueAlways, PTL


-----------------------------------------------------------------------------
(* The configuration                                                       *)

\* The file is read in the steps of BdxInitConfig only.
LEMMA LoadChanges ==
  ASSUME [Next]_vars
  PROVE  UNCHANGED loadVars \/ LoadNext
  BY DEF Next, vars, LoadPart, MainPart, WorkerPart, StatusPart, PushPart, TakePart, CallPart,
         ConvertPart

LEMMA LoadTyped ==
  ASSUME LoadTypeOK, LoadNext
  PROVE  LoadTypeOK'
  <1>1. file \in Seq(Lines) /\ Len(file) \in Nat /\ pos \in 0 .. Len(file)
    BY DEF LoadTypeOK
  <1>2. file' = file
    BY DEF LoadNext, FirstLine, TestSection, CallGetter, GetSection, GetKey, GetOther, GetEnd
  <1>3. pos' \in 0 .. Len(file)
    BY <1>1 DEF LoadNext, FirstLine, TestSection, CallGetter, GetSection, GetKey, GetOther, GetEnd, Eof
  <1>4. DOMAIN conf' = Settings
    BY DEF LoadTypeOK, LoadNext, FirstLine, TestSection, CallGetter, GetSection, GetKey, GetOther, GetEnd
  <1>5. /\ loadPc' \in {"first", "test", "dispatch", "get", "done", "failed"}
        /\ (loadPc' = "get") => section' \in Sections
    BY DEF LoadTypeOK, LoadNext, FirstLine, TestSection, CallGetter, GetSection, GetKey, GetOther, GetEnd
  <1>6. QED
    BY <1>1, <1>2, <1>3, <1>4, <1>5 DEF LoadTypeOK

LEMMA LoadStart == Init => LoadTypeOK /\ file \in Seq(Lines)
  <1> SUFFICES ASSUME LoadInit PROVE LoadTypeOK
    BY DEF Init, LoadTypeOK
  <1>1. PICK n \in 0 .. MaxLines : file \in [1 .. n -> Lines]
    BY DEF LoadInit
  <1>2. n \in Nat
    BY <1>1, MaxLinesAssumption
  <1>3. file \in Seq(Lines) /\ Len(file) = n
    BY <1>1, <1>2
  <1>4. QED
    BY <1>2, <1>3 DEF LoadInit, LoadTypeOK

\* The types of all variables, for every number of workers and statuses and every file.
THEOREM TypeCorrect == Spec => []TypeOK
  <1>1. Init => LoadTypeOK
    BY LoadStart
  <1>2. ASSUME LoadTypeOK, [Next]_vars PROVE LoadTypeOK'
    <2>1. CASE UNCHANGED loadVars
      BY <1>2, <2>1 DEF LoadTypeOK, loadVars
    <2>2. QED
      BY <1>2, <2>1, LoadChanges, LoadTyped
  <1>3. ASSUME StartInv PROVE StartTypeOK
    <2>1. /\ N \in Nat /\ LastObject = N + 4 /\ next \in 1 .. LastObject + 1 /\ next \in Nat
      BY <1>3, Objects DEF StartInv, MakeInv
    <2>2. \A v \in Vectors : Entries(v) \in 0 .. N
      BY <2>1 DEF Entries
    <2>3. size = [v \in Vectors |-> Entries(v)]
      BY <1>3 DEF StartInv, MakeInv
    <2>4. size \in [Vectors -> 0 .. N]
      BY <2>2, <2>3
    <2>5. size["TaskBuf"] \in 0 .. N
      BY <2>4 DEF Vectors
    <2>6. storage \in 0 .. N /\ cap \in Nat /\ freed \subseteq 0 .. N
      BY <1>3, <2>1, <2>5 DEF StartInv, GrowInv
    <2>7. ptr \in [Workers -> 0 .. N]
      <3>1. ptr \in [Workers -> Nat] /\ \A w \in Workers : ptr[w] <= storage
        BY <1>3 DEF StartInv, ReadInv
      <3>2. QED
        BY <2>1, <2>6, <3>1
    <2>8. DOMAIN routine \subseteq {Object(k) : k \in 1 .. LastObject}
      <3>1. DOMAIN routine \subseteq {Object(k) : k \in 1 .. next - 1}
        BY <1>3 DEF StartInv, RoutineInv
      <3>2. 1 .. next - 1 \subseteq 1 .. LastObject
        BY <2>1
      <3>3. QED
        BY <3>1, <3>2
    <2>9. wPc \in [Workers -> {"load", "use", "wait", "wild"}] /\ reads \in [Workers -> 0 .. Reads]
      BY <1>3 DEF StartInv, ReadInv
    <2>10. mPc \in {"new", "push", "grow", "pushrest", "routine", "create", "join", "failed", "exited"}
      BY <1>3 DEF StartInv, MakeInv
    <2>11. QED
      BY <2>1, <2>4, <2>6, <2>7, <2>8, <2>9, <2>10 DEF StartTypeOK
  <1>4. QueueInv => QueueTypeOK
    BY DEF QueueInv, QueueTypes
  <1>5. Spec => []LoadTypeOK
    BY <1>1, <1>2, PTL DEF Spec
  <1>6. QED
    BY <1>3, <1>4, <1>5, StartAlways, QueueAlways, PTL DEF TypeOK

\* Each step of BdxInitConfig leaves less to do, so it ends, for every file whose sections all
\* have a getter.
THEOREM LoadAlwaysProgresses == KnownSections => (Spec => LoadProgress)
  <1> DEFINE KnownInv == LoadTypeOK /\ section \in Sections \cup {NoSection}
  <1> SUFFICES ASSUME KnownSections PROVE Spec => LoadProgress
    OBVIOUS
  <1>1. NoSection \notin Sections
    BY DEF NoSection, Sections, KeysOf
  <1>2. Init => KnownInv
    BY LoadStart DEF Init, LoadInit
  <1>3. ASSUME LoadTypeOK, ~Eof, Line.kind = "section" PROVE Line.name \in Sections
    <2>1. pos + 1 \in 1 .. Len(file) /\ file \in Seq(Lines)
      BY <1>3 DEF LoadTypeOK, Eof
    <2>2. Line \in Lines
      BY <2>1 DEF Line
    <2>3. QED
      BY <1>3, <2>2 DEF KnownSections
  <1>4. ASSUME KnownInv, [Next]_vars PROVE KnownInv'
    <2>1. CASE UNCHANGED loadVars
      BY <1>4, <2>1 DEF LoadTypeOK, loadVars
    <2>2. CASE LoadNext
      <3>1. LoadTypeOK'
        BY <1>4, <2>2, LoadTyped
      <3>2. section' \in Sections \cup {NoSection}
        BY <1>3, <1>4, <2>2
           DEF LoadNext, FirstLine, TestSection, CallGetter, GetSection, GetKey, GetOther, GetEnd
      <3>3. QED
        BY <3>1, <3>2
    <2>3. QED
      BY <1>4, <2>1, <2>2, LoadChanges
  <1>5. ASSUME KnownInv, [Next]_vars PROVE [Remaining' < Remaining]_loadVars
    <2> SUFFICES ASSUME LoadNext PROVE Remaining' < Remaining
      BY <1>5, LoadChanges
    <2>1. /\ Len(file) \in Nat /\ pos \in 0 .. Len(file) /\ file' = file
          /\ (loadPc = "get") => section \in Sections
      BY <1>5 DEF LoadTypeOK, LoadNext, FirstLine, TestSection, CallGetter, GetSection, GetKey,
                  GetOther, GetEnd
    <2> DEFINE Left(p, pc, s) ==
                  5 * (Len(file) - p) +
                  (IF pc = "first" \/ (pc = "test" /\ s # NoSection) THEN 4
                   ELSE IF pc = "dispatch" THEN 3
                   ELSE IF pc = "get" THEN 2
                   ELSE IF pc = "test" THEN 1 ELSE 0)
    <2>2. Remaining = Left(pos, loadPc, section) /\ Remaining' = Left(pos', loadPc', section')
      BY <2>1 DEF Remaining
    <2>3. CASE FirstLine
      <3>1. CASE Eof
        <4>1. loadPc = "first" /\ loadPc' = "failed" /\ pos' = pos
          BY <2>3, <3>1 DEF FirstLine
        <4>2. QED
          BY <2>1, <2>2, <4>1
      <3>2. CASE ~Eof
        <4>1. loadPc = "first" /\ pos' = pos + 1
          BY <2>3, <3>2 DEF FirstLine
        <4>2. QED
          BY <2>1, <2>2, <4>1
      <3>3. QED
        BY <3>1, <3>2
    <2>4. CASE TestSection
      <3>1. loadPc = "test" /\ loadPc' = (IF section = NoSection THEN "done" ELSE "dispatch") /\ pos' = pos
        BY <2>4 DEF TestSection
      <3>2. QED
        BY <2>1, <2>2, <3>1
    <2>5. CASE CallGetter
      <3>1. /\ loadPc = "dispatch" /\ loadPc' = (IF section \in Sections THEN "get" ELSE "test")
            /\ pos' = pos /\ section' = section
        BY <2>5 DEF CallGetter
      <3>2. section \in Sections \/ section = NoSection
        BY <1>5
      <3>3. QED
        BY <2>1, <2>2, <3>1, <3>2
    <2>6. CASE GetSection \/ GetKey \/ GetOther
      <3>1. loadPc = "get" /\ pos' = pos + 1 /\ loadPc' \in {"test", "get"}
        BY <2>6 DEF GetSection, GetKey, GetOther
      <3>2. QED
        BY <2>1, <2>2, <3>1
    <2>7. CASE GetEnd
      <3>1. loadPc = "get" /\ pos' = pos /\ loadPc' = "test" /\ section' = NoSection
        BY <2>7 DEF GetEnd
      <3>2. QED
        BY <2>1, <2>2, <3>1
    <2>8. QED
      BY <2>3, <2>4, <2>5, <2>6, <2>7 DEF LoadNext
  <1>6. Spec => []KnownInv
    BY <1>2, <1>4, PTL DEF Spec
  <1>7. QED
    BY <1>5, <1>6, PTL DEF Spec, LoadProgress


\* The section of a line is that of the line before, unless the line is a header.
LEMMA SectionNext ==
  ASSUME NEW i \in Nat
  PROVE  /\ file[i + 1].kind = "section" => SectionAt(i + 1) = file[i + 1].name
         /\ file[i + 1].kind # "section" => SectionAt(i + 1) = SectionAt(i)
  <1> DEFINE Heads(n) == {j \in 1 .. n : file[j].kind = "section"}
  <1>a. \A n : SectionAt(n) = IF Heads(n) = {} THEN NoSection ELSE file[LastOf(Heads(n))].name
    BY DEF SectionAt, LastOf
  <1>1. ASSUME file[i + 1].kind = "section" PROVE SectionAt(i + 1) = file[i + 1].name
    <2>1. i + 1 \in Heads(i + 1) /\ \A h \in Heads(i + 1) : h <= i + 1
      BY <1>1
    <2>2. \A j \in Heads(i + 1) : (\A h \in Heads(i + 1) : h <= j) => j = i + 1
      BY <2>1
    <2> HIDE DEF Heads
    <2>3. LastOf(Heads(i + 1)) = i + 1
      BY <2>1, <2>2 DEF LastOf
    <2>4. QED
      BY <1>a, <2>1, <2>3
  <1>2. ASSUME file[i + 1].kind # "section" PROVE SectionAt(i + 1) = SectionAt(i)
    <2>1. Heads(i + 1) = Heads(i)
      BY <1>2
    <2> HIDE DEF Heads
    <2>2. QED
      BY <1>a, <2>1
  <1>3. QED
    BY <1>1, <1>2

\* Before the first header a line has no section.
LEMMA SectionNone ==
  ASSUME NEW i \in Nat, \A j \in 1 .. i : file[j].kind # "section"
  PROVE  SectionAt(i) = NoSection
  <1>1. {j \in 1 .. i : file[j].kind = "section"} = {}
    OBVIOUS
  <1>2. QED
    BY <1>1 DEF SectionAt

\* A setting is a key of a section with a getter.
LEMMA SettingFacts ==
  ASSUME NEW x \in Settings
  PROVE  x[1] \in Sections /\ x[1] # NoSection /\ x[2] \in KeysOf[x[1]] /\ x = <<x[1], x[2]>>
  <1>1. PICK s \in Sections : \E k \in KeysOf[s] : x = <<s, k>>
    BY DEF Settings
  <1>2. NoSection \notin Sections
    BY DEF NoSection, Sections, KeysOf
  <1>3. QED
    BY <1>1, <1>2

\* Reading a line that does not give a setting leaves the lines that do.
LEMMA NotGiving ==
  ASSUME FileInv, NEW x \in Settings, file' = file, pos' = pos + 1, pos + 1 \in DOMAIN file,
         Line.kind # "key" \/ Line.key # x[2] \/ SectionAt(pos + 1) # x[1]
  PROVE  GivenBy(x)' = GivenBy(x)
  <1>1. pos \in Nat
    BY DEF FileInv, LoadTypeOK
  <1>2. pos + 1 \notin Giving(x[1], x[2])
    BY DEF Giving, Line
  <1>3. \A i : SectionAt(i)' = SectionAt(i)
    BY DEF SectionAt
  <1>4. Giving(x[1], x[2])' = Giving(x[1], x[2])
    BY <1>3 DEF Giving
  <1>5. 1 .. pos + 1 = (1 .. pos) \cup {pos + 1}
    BY <1>1
  <1>6. GivenBy(x)' = Giving(x[1], x[2]) \cap (1 .. pos + 1)
    BY <1>4 DEF GivenBy
  <1>7. QED
    BY <1>2, <1>5, <1>6 DEF GivenBy

\* Reading one that does makes it the last.
LEMMA NowGiving ==
  ASSUME FileInv, NEW x \in Settings, file' = file, pos' = pos + 1, pos + 1 \in DOMAIN file,
         Line.kind = "key", Line.key = x[2], SectionAt(pos + 1) = x[1]
  PROVE  ValueFrom(GivenBy(x))' = Line.value
  <1>1. pos \in Nat
    BY DEF FileInv, LoadTypeOK
  <1>2. pos + 1 \in Giving(x[1], x[2])
    BY DEF Giving, Line
  <1>3. \A i : SectionAt(i)' = SectionAt(i)
    BY DEF SectionAt
  <1>4. Giving(x[1], x[2])' = Giving(x[1], x[2])
    BY <1>3 DEF Giving
  <1> DEFINE g == Giving(x[1], x[2]) \cap (1 .. pos + 1)
  <1>5. GivenBy(x)' = g
    BY <1>4 DEF GivenBy
  <1>6. pos + 1 \in g /\ \A j \in g : j <= pos + 1 /\ j \in Nat
    BY <1>1, <1>2
  <1>7. \A i \in g : (\A j \in g : j <= i) => i = pos + 1
    BY <1>1, <1>6
  <1> HIDE DEF g
  <1>8. LastOf(g) = pos + 1
    BY <1>6, <1>7 DEF LastOf
  <1>9. ValueFrom(GivenBy(x))' = IF g = {} THEN Unset ELSE file[LastOf(g)].value
    BY <1>5 DEF ValueFrom
  <1>10. QED
    BY <1>6, <1>8, <1>9 DEF Line

LEMMA FileKept ==
  ASSUME NamedSections, FileInv, LoadNext
  PROVE  FileInv'
  <1>1. LoadTypeOK'
    BY LoadTyped DEF FileInv
  <1>2. /\ file \in Seq(Lines) /\ Len(file) \in Nat /\ pos \in 0 .. Len(file) /\ pos \in Nat
        /\ DOMAIN file = 1 .. Len(file) /\ DOMAIN conf = Settings
    BY DEF FileInv, LoadTypeOK
  <1>3. file' = file
    BY DEF LoadNext, FirstLine, TestSection, CallGetter, GetSection, GetKey, GetOther, GetEnd
  <1>4. \A i : SectionAt(i)' = SectionAt(i)
    BY <1>3 DEF SectionAt
  <1>5. ASSUME pos' = pos PROVE \A x \in Settings : ValueFrom(GivenBy(x))' = ValueFrom(GivenBy(x))
    <2>1. \A x \in Settings : GivenBy(x)' = GivenBy(x)
      BY <1>3, <1>4, <1>5 DEF GivenBy, Giving
    <2>2. QED
      BY <1>3, <2>1 DEF ValueFrom
  <1>6. ASSUME ~Eof
        PROVE  /\ pos + 1 \in DOMAIN file /\ Line \in Lines /\ Line = file[pos + 1]
               /\ Line.kind = "section" => Line.name # NoSection
    <2>a. Len(file) \in Nat /\ pos \in 0 .. Len(file)
      BY <1>2
    <2>b. pos + 1 \in 1 .. Len(file)
      BY <1>6, <2>a DEF Eof
    <2>1. pos + 1 \in DOMAIN file
      BY <1>2, <2>b
    <2>2. Line \in Lines /\ Line = file[pos + 1]
      BY <1>2, <2>1 DEF Line
    <2>3. QED
      BY <2>1, <2>2 DEF NamedSections
  <1>7. \A x \in Settings : conf[x] = ValueFrom(GivenBy(x))
    BY DEF FileInv
  <1>8. CASE TestSection \/ CallGetter \/ GetEnd \/ (FirstLine /\ Eof)
    <2>1. pos' = pos /\ conf' = conf /\ file' = file
      BY <1>8 DEF TestSection, CallGetter, GetEnd, FirstLine
    <2>2. \A x \in Settings : conf'[x] = ValueFrom(GivenBy(x))'
      BY <1>5, <1>7, <2>1
    <2>3. SectionAt(pos)' = SectionAt(pos)
      BY <1>4, <2>1
    <2>4. /\ loadPc' = "first" => \A j \in 1 .. pos' : file'[j].kind # "section"
          /\ loadPc' \in {"test", "dispatch", "get"} /\ section' # NoSection => section' = SectionAt(pos)'
          /\ loadPc' \in {"dispatch", "get"} => section' # NoSection
          /\ loadPc' = "done" \/ (loadPc' = "test" /\ section' = NoSection) => pos' = Len(file')
      BY <1>8, <2>1, <2>3 DEF TestSection, CallGetter, GetEnd, FirstLine, FileInv, Eof
    <2>5. QED
      BY <1>1, <2>2, <2>4 DEF FileInv
  <1>9. CASE FirstLine /\ ~Eof
    <2>1. /\ pos' = pos + 1 /\ conf' = conf /\ loadPc = "first"
          /\ IF Line.kind = "section" THEN section' = Line.name /\ loadPc' = "test"
             ELSE section' = section /\ loadPc' = loadPc
      BY <1>9 DEF FirstLine
    <2>2. \A j \in 1 .. pos : file[j].kind # "section"
      BY <2>1 DEF FileInv
    <2>3. SectionAt(pos) = NoSection
      BY <1>2, <2>2, SectionNone
    <2>4. Line.kind = "key" => SectionAt(pos + 1) = NoSection
      BY <1>2, <1>6, <1>9, <2>3, SectionNext
    <2>5. \A x \in Settings : GivenBy(x)' = GivenBy(x)
      BY <1>3, <1>6, <1>9, <2>1, <2>4, NotGiving, SettingFacts
    <2>6. \A x \in Settings : conf'[x] = ValueFrom(GivenBy(x))'
      BY <1>3, <1>7, <2>1, <2>5 DEF ValueFrom
    <2>7. CASE Line.kind = "section"
      <3>1. section' = SectionAt(pos)' /\ section' # NoSection /\ loadPc' = "test"
        BY <1>2, <1>4, <1>6, <1>9, <2>1, <2>7, SectionNext
      <3>2. QED
        BY <1>1, <2>6, <3>1 DEF FileInv
    <2>8. CASE Line.kind # "section"
      <3>1. \A j \in 1 .. pos' : file'[j].kind # "section"
        BY <1>2, <1>3, <1>6, <1>9, <2>1, <2>2, <2>8
      <3>2. QED
        BY <1>1, <2>1, <2>6, <2>8, <3>1 DEF FileInv
    <2>9. QED
      BY <2>7, <2>8
  <1>10. CASE GetSection \/ GetKey \/ GetOther
    <2>1. pos' = pos + 1 /\ ~Eof /\ loadPc = "get" /\ pos + 1 \in DOMAIN file
      BY <1>6, <1>10 DEF GetSection, GetKey, GetOther
    <2>2. section = SectionAt(pos) /\ section # NoSection
      BY <2>1 DEF FileInv
    <2>3. Line.kind # "section" => SectionAt(pos + 1) = section
      BY <1>2, <1>6, <2>1, <2>2, SectionNext
    <2>4. CASE GetSection
      <3>1. /\ Line.kind = "section" /\ section' = Line.name /\ loadPc' = "test" /\ conf' = conf
        BY <2>4 DEF GetSection
      <3>2. section' = SectionAt(pos)' /\ section' # NoSection
        BY <1>2, <1>4, <1>6, <2>1, <3>1, SectionNext
      <3>3. \A x \in Settings : GivenBy(x)' = GivenBy(x)
        BY <1>3, <2>1, <3>1, NotGiving
      <3>4. \A x \in Settings : conf'[x] = ValueFrom(GivenBy(x))'
        BY <1>3, <1>7, <3>1, <3>3 DEF ValueFrom
      <3>5. QED
        BY <1>1, <3>1, <3>2, <3>4 DEF FileInv
    <2>5. CASE GetKey \/ GetOther
      <3>1. section' = section /\ loadPc' = "get" /\ Line.kind # "section"
        BY <2>1, <2>5 DEF GetKey, GetOther
      <3>2. section' = SectionAt(pos)'
        BY <1>4, <2>1, <2>3, <3>1
      <3>3. ASSUME NEW x \in Settings PROVE conf'[x] = ValueFrom(GivenBy(x))'
        <4>1. CASE Line.kind = "key" /\ x = <<section, Line.key>>
          <5>1. Line.key \in KeysOf[section] /\ x[1] = section /\ x[2] = Line.key
            BY <4>1, SettingFacts
          <5>2. conf'[x] = Line.value
            BY <1>2, <2>5, <4>1, <5>1 DEF GetKey, GetOther
          <5>3. ValueFrom(GivenBy(x))' = Line.value
            BY <1>3, <2>1, <2>3, <3>1, <4>1, <5>1, NowGiving
          <5>4. QED
            BY <5>2, <5>3
        <4>2. CASE ~(Line.kind = "key" /\ x = <<section, Line.key>>)
          <5>1. conf'[x] = conf[x]
            BY <1>2, <2>5, <4>2 DEF GetKey, GetOther
          <5>2. Line.kind # "key" \/ Line.key # x[2] \/ SectionAt(pos + 1) # x[1]
            BY <2>3, <3>1, <4>2, SettingFacts
          <5>3. GivenBy(x)' = GivenBy(x)
            BY <1>3, <2>1, <5>2, NotGiving
          <5>4. ValueFrom(GivenBy(x))' = ValueFrom(GivenBy(x))
            BY <1>3, <5>3 DEF ValueFrom
          <5>5. QED
            BY <1>7, <5>1, <5>4
        <4>3. QED
          BY <4>1, <4>2
      <3>4. QED
        BY <1>1, <2>2, <3>1, <3>2, <3>3 DEF FileInv
    <2>6. QED
      BY <1>10, <2>4, <2>5
  <1>11. QED
    BY <1>8, <1>9, <1>10 DEF LoadNext

LEMMA FileAlways == NamedSections => (Spec => []FileInv)
  <1> SUFFICES ASSUME NamedSections PROVE Spec => []FileInv
    OBVIOUS
  <1>1. ASSUME Init PROVE FileInv
    <2>1. LoadTypeOK /\ pos = 0 /\ loadPc = "first" /\ conf = [x \in Settings |-> Unset]
      BY <1>1, LoadStart DEF Init, LoadInit
    <2>2. \A x \in Settings : GivenBy(x) = {}
      BY <2>1 DEF GivenBy
    <2>3. QED
      BY <2>1, <2>2 DEF FileInv, ValueFrom
  <1>2. ASSUME FileInv, [Next]_vars PROVE FileInv'
    <2>1. CASE UNCHANGED loadVars
      <3>1. UNCHANGED <<file, pos, section, conf, apis, loadPc>>
        BY <2>1 DEF loadVars
      <3>2. \A i : SectionAt(i)' = SectionAt(i)
        BY <3>1 DEF SectionAt
      <3>3. \A x \in Settings : GivenBy(x)' = GivenBy(x)
        BY <3>1, <3>2 DEF GivenBy, Giving
      <3>4. \A x \in Settings : conf'[x] = ValueFrom(GivenBy(x))'
        BY <1>2, <3>1, <3>3 DEF FileInv, ValueFrom
      <3>5. QED
        BY <1>2, <3>1, <3>2, <3>4 DEF FileInv, LoadTypeOK
    <2>2. QED
      BY <1>2, <2>1, LoadChanges, FileKept
  <1>3. QED
    BY <1>1, <1>2, PTL DEF Spec

-----------------------------------------------------------------------------
(* The table of the APIs                                                   *)

\* What AddApis makes of the first n entries: the old ones whose host is not among theirs, and the
\* last one of each host.
OldKept(old, new, n) == {e \in old : \A k \in 1 .. n : e[1] # new[k][1]}
NewLast(new, n) == {new[k] : k \in {k \in 1 .. n : \A m \in 1 .. n : k < m => new[m][1] # new[k][1]}}
Added(old, new, n) == OldKept(old, new, n) \cup NewLast(new, n)

LEMMA AddedNone ==
  ASSUME NEW old, NEW new
  PROVE  Added(old, new, 0) = old
  BY DEF Added, OldKept, NewLast

LEMMA AddedNext ==
  ASSUME NEW old, NEW new, NEW n \in Nat, n # 0
  PROVE  Added(old, new, n) = {e \in Added(old, new, n - 1) : e[1] # new[n][1]} \cup {new[n]}
  <1>1. n \in 1 .. n /\ \A k \in 1 .. n : k = n \/ k \in 1 .. n - 1
    OBVIOUS
  <1>2. \A k \in 1 .. n - 1 : k \in 1 .. n /\ k < n /\ k # n
    OBVIOUS
  <1>3. \A m \in 1 .. n : ~(n < m)
    OBVIOUS
  <1>4. OldKept(old, new, n) = {e \in OldKept(old, new, n - 1) : e[1] # new[n][1]}
    BY <1>1, <1>2, Zenon DEF OldKept
  <1>5. ASSUME NEW e \in NewLast(new, n)
        PROVE  e = new[n] \/ (e \in NewLast(new, n - 1) /\ e[1] # new[n][1])
    <2>1. PICK k \in 1 .. n : e = new[k] /\ \A m \in 1 .. n : k < m => new[m][1] # new[k][1]
      BY <1>5 DEF NewLast
    <2>2. k = n \/ k \in 1 .. n - 1
      BY <1>1, <2>1, Zenon
    <2>3. CASE k \in 1 .. n - 1
      <3>1. \A m \in 1 .. n - 1 : k < m => new[m][1] # new[k][1]
        BY <1>2, <2>1, Zenon
      <3>2. new[n][1] # new[k][1]
        BY <1>1, <1>2, <2>1, <2>3, Zenon
      <3>3. QED
        BY <2>1, <2>3, <3>1, <3>2, Zenon DEF NewLast
    <2>4. QED
      BY <2>1, <2>2, <2>3, Zenon
  <1>6. new[n] \in NewLast(new, n)
    BY <1>1, <1>3, Zenon DEF NewLast
  <1>7. ASSUME NEW e \in NewLast(new, n - 1), e[1] # new[n][1]
        PROVE  e \in NewLast(new, n)
    <2>1. PICK k \in 1 .. n - 1 : e = new[k] /\ \A m \in 1 .. n - 1 : k < m => new[m][1] # new[k][1]
      BY <1>7, Zenon DEF NewLast
    <2>2. \A m \in 1 .. n : k < m => new[m][1] # new[k][1]
      BY <1>1, <1>7, <2>1, Zenon
    <2>3. QED
      BY <1>2, <2>1, <2>2, Zenon DEF NewLast
  <1>8. QED
    BY <1>4, <1>5, <1>6, <1>7, Zenon DEF Added

\* AddApis, one entry after the other, comes to that.
LEMMA AddApisAre ==
  ASSUME NEW old, NEW new, Len(new) \in Nat
  PROVE  AddApis(old, new) = Added(old, new, Len(new))
  <1>1. PICK l \in Nat : l = Len(new)
    OBVIOUS
  <1> DEFINE Step(f) ==
        f = [n \in 0 .. l |-> IF n = 0 THEN old
                              ELSE {e \in f[n - 1] : e[1] # new[n][1]} \cup {new[n]}]
             all == [n \in 0 .. l |-> Added(old, new, n)]
             add == CHOOSE f : Step(f)
  <1>2. Step(all)
    <2>1. ASSUME NEW n \in 0 .. l
          PROVE  all[n] = IF n = 0 THEN old ELSE {e \in all[n - 1] : e[1] # new[n][1]} \cup {new[n]}
      <3>1. CASE n = 0
        BY <3>1, AddedNone
      <3>2. CASE n # 0
        <4>1. n \in Nat /\ n - 1 \in 0 .. l
          BY <2>1, <3>2
        <4>2. all[n] = Added(old, new, n) /\ all[n - 1] = Added(old, new, n - 1)
          BY <2>1, <4>1, Zenon
        <4>3. QED
          BY <3>2, <4>1, <4>2, AddedNext
      <3>3. QED
        BY <3>1, <3>2
    <2>2. QED
      BY <2>1
  <1>3. Step(add)
    BY <1>2
  <1>4. \A n \in 0 .. l : add[n] = IF n = 0 THEN old ELSE {e \in add[n - 1] : e[1] # new[n][1]} \cup {new[n]}
    <2>1. PICK f : f = add /\ Step(f)
      BY <1>3
    <2>2. QED
      BY <2>1
  <1>5. AddApis(old, new) = add[l]
    BY <1>1 DEF AddApis
  <1> HIDE DEF add
  <1>6. add[l] = Added(old, new, l)
    <2> DEFINE T == {n \in 0 .. l : add[n] # Added(old, new, n)}
    <2>1. SUFFICES ASSUME T # {} PROVE FALSE
      OBVIOUS
    <2>2. PICK n \in T : \A k \in T : n <= k
      <3>1. T \subseteq Nat
        OBVIOUS
      <3> HIDE DEF T
      <3>2. QED
        BY <2>1, <3>1, LeastOf
    <2>3. CASE n = 0
      BY <1>4, <2>2, <2>3, AddedNone
    <2>4. CASE n # 0
      <3>1. n \in Nat /\ n \in 0 .. l /\ n - 1 \in 0 .. l /\ n - 1 \notin T
        BY <2>2, <2>4
      <3>2. add[n - 1] = Added(old, new, n - 1)
        BY <3>1
      <3>3. add[n] = {e \in add[n - 1] : e[1] # new[n][1]} \cup {new[n]}
        BY <1>4, <2>4, <3>1
      <3>4. Added(old, new, n) = {e \in Added(old, new, n - 1) : e[1] # new[n][1]} \cup {new[n]}
        BY <2>4, <3>1, AddedNext
      <3>5. add[n] # Added(old, new, n)
        BY <2>2
      <3>6. QED
        BY <3>2, <3>3, <3>4, <3>5, Zenon
    <2>5. QED
      BY <2>3, <2>4
  <1>7. QED
    BY <1>1, <1>5, <1>6

\* Groups of five fields give an entry each: the first and the second field of the group.
LEMMA EntriesAre ==
  ASSUME NEW v \in Seq(Seq(STRING)), \A n \in 1 .. Len(v) : Len(v[n]) = 5
  PROVE  /\ Len(v) \in Nat /\ Len(UrlEntries(Fields(v))) = Len(v)
         /\ \A n \in 1 .. Len(v) : UrlEntries(Fields(v))[n] = <<v[n][1], v[n][2]>>
  <1>1. PICK l \in Nat : l = Len(v)
    BY LenProperties
  <1>2. PICK fs : fs = FlattenSeq(v)
    OBVIOUS
  <1>3. fs \in Seq(STRING)
    BY <1>2, Flattened, Zenon
  <1>4. PICK off : Joined(fs, off, v)
    BY <1>2, Flattened, Zenon
  <1>5. \A i \in 0 .. l : off[i] = 5 * i
    <2>1. PICK L \in PartLengths : L = 5
      BY DEF PartLengths
    <2>2. Even(v, l, L)
      BY <1>1, <2>1 DEF Even
    <2>3. IsOffset(off, v) /\ Len(v) \in Nat /\ l \in 0 .. Len(v)
      BY <1>1, <1>4 DEF Joined
    <2>4. \A i \in 0 .. l : off[i] = L * i
      BY <2>2, <2>3, EvenOffsets
    <2>5. QED
      BY <2>1, <2>4
  <1>6. Len(fs) = 5 * l
    <2>1. Len(fs) = off[l] /\ l \in 0 .. l
      BY <1>1, <1>4 DEF Joined
    <2>2. QED
      BY <1>5, <2>1
  <1>7. Len(fs) \div 5 = l
    BY <1>6
  <1>8. ASSUME NEW n \in 1 .. l
        PROVE  fs[5 * n - 4] = v[n][1] /\ fs[5 * n - 3] = v[n][2]
    <2>1. n \in 1 .. Len(v) /\ Len(v[n]) = 5
      BY <1>1, <1>8
    <2>2. 1 \in 1 .. Len(v[n]) /\ 2 \in 1 .. Len(v[n])
      BY <2>1
    <2>3. fs[off[n - 1] + 1] = v[n][1] /\ fs[off[n - 1] + 2] = v[n][2]
      BY <1>4, <2>1, <2>2, Zenon DEF Joined
    <2>4. n - 1 \in 0 .. l
      BY <1>8
    <2>5. off[n - 1] = 5 * (n - 1)
      BY <1>5, <2>4, Zenon
    <2>6. off[n - 1] + 1 = 5 * n - 4 /\ off[n - 1] + 2 = 5 * n - 3
      BY <1>8, <2>5
    <2>7. QED
      BY <2>3, <2>6
  <1>9. UrlEntries(Fields(v)) = [n \in 1 .. l |-> <<fs[5 * n - 4], fs[5 * n - 3]>>]
    BY <1>2, <1>7 DEF UrlEntries, Fields
  <1>10. Len(UrlEntries(Fields(v))) = l
    BY <1>9
  <1>11. \A n \in 1 .. l : UrlEntries(Fields(v))[n] = <<v[n][1], v[n][2]>>
    BY <1>8, <1>9
  <1>12. QED
    BY <1>1, <1>10, <1>11

\* The table that the groups in these lines make.
Entry(p) == <<GroupAt(p)[1], GroupAt(p)[2]>>
LastHere(places) == {p \in places : \A q \in places : Before(p, q) => GroupAt(q)[1] # GroupAt(p)[1]}
TableOf(given) == {Entry(p) : p \in LastHere(GroupsIn(given))}

Urls == <<"QUERYAPIS", "URLS">>
WholeGroups == \A p \in GroupsIn(Giving("QUERYAPIS", "URLS")) : Len(GroupAt(p)) = 5

\* The table has the groups of the lines read so far.
ApisInv == WholeGroups => apis = TableOf(GivenBy(Urls))

\* v is a line's groups, and new their hosts and parameters.
GroupsOf(v, new) ==
    /\ Len(v) \in Nat
    /\ DOMAIN v = 1 .. Len(v)
    /\ \A k \in 1 .. Len(v) : new[k] = <<v[k][1], v[k][2]>>

\* One more line with groups of five fields: its entries are added to the table.
LEMMA TableNext ==
  ASSUME NEW given, NEW n \in Nat, given \subseteq 1 .. n,
         NEW v, file[n + 1].value = v, NEW new, GroupsOf(v, new)
  PROVE  TableOf(given \cup {n + 1}) = Added(TableOf(given), new, Len(v))
  <1>0. /\ Len(v) \in Nat
        /\ DOMAIN v = 1 .. Len(v)
        /\ \A k \in 1 .. Len(v) : new[k] = <<v[k][1], v[k][2]>>
    BY Zenon DEF GroupsOf
  <1>1. PICK l \in Nat : l = Len(v)
    BY <1>0
  <1>2. PICK old : old = GroupsIn(given)
    OBVIOUS
  <1>3. PICK all : all = GroupsIn(given \cup {n + 1})
    OBVIOUS
  <1>4. \A p : p \in all <=> p \in old \/ \E k \in 1 .. l : p = <<n + 1, k>>
    BY <1>0, <1>1, <1>2, <1>3 DEF GroupsIn
  <1>5. \A p \in old : p[1] \in 1 .. n
    BY <1>2 DEF GroupsIn
  <1>6. ASSUME NEW p \in old, NEW k \in 1 .. l
        PROVE  Before(p, <<n + 1, k>>) /\ ~Before(<<n + 1, k>>, p)
    BY <1>5, <1>6 DEF Before
  <1>7. ASSUME NEW k \in 1 .. l, NEW m \in 1 .. l
        PROVE  Before(<<n + 1, k>>, <<n + 1, m>>) <=> k < m
    BY <1>7 DEF Before
  <1>8. ASSUME NEW k \in 1 .. l
        PROVE  Entry(<<n + 1, k>>) = new[k] /\ GroupAt(<<n + 1, k>>)[1] = new[k][1]
    <2>1. GroupAt(<<n + 1, k>>) = v[k]
      BY <1>1, <1>8 DEF GroupAt
    <2>2. new[k] = <<v[k][1], v[k][2]>>
      BY <1>0, <1>1, <1>8
    <2>3. QED
      BY <2>1, <2>2 DEF Entry
  <1>9. \A p : Entry(p)[1] = GroupAt(p)[1]
    BY DEF Entry
  <1>10. ASSUME NEW p \in old
         PROVE  p \in LastHere(all) <=>
                  p \in LastHere(old) /\ \A k \in 1 .. l : Entry(p)[1] # new[k][1]
    <2>1. \A q \in old : q \in all
      BY <1>4, Zenon
    <2>2. \A k \in 1 .. l : <<n + 1, k>> \in all
      BY <1>4, Zenon
    <2>3. ASSUME p \in LastHere(all)
          PROVE  p \in LastHere(old) /\ \A k \in 1 .. l : Entry(p)[1] # new[k][1]
      <3>1. \A q \in all : Before(p, q) => GroupAt(q)[1] # GroupAt(p)[1]
        BY <2>3, Zenon DEF LastHere
      <3>2. p \in LastHere(old)
        BY <1>10, <2>1, <3>1, Zenon DEF LastHere
      <3>3. ASSUME NEW k \in 1 .. l PROVE Entry(p)[1] # new[k][1]
        <4>1. GroupAt(<<n + 1, k>>)[1] # GroupAt(p)[1]
          BY <1>6, <1>10, <2>2, <3>1, <3>3, Zenon
        <4>2. QED
          BY <1>8, <1>9, <3>3, <4>1
      <3>4. QED
        BY <3>2, <3>3
    <2>4. ASSUME p \in LastHere(old), \A k \in 1 .. l : Entry(p)[1] # new[k][1]
          PROVE  p \in LastHere(all)
      <3>1. \A q \in old : Before(p, q) => GroupAt(q)[1] # GroupAt(p)[1]
        BY <2>4, Zenon DEF LastHere
      <3>2. ASSUME NEW k \in 1 .. l PROVE GroupAt(<<n + 1, k>>)[1] # GroupAt(p)[1]
        <4>1. Entry(p)[1] # new[k][1]
          BY <2>4, <3>2, Zenon
        <4>2. QED
          BY <1>8, <1>9, <3>2, <4>1
      <3>3. ASSUME NEW q \in all, Before(p, q) PROVE GroupAt(q)[1] # GroupAt(p)[1]
        <4>1. q \in old \/ \E k \in 1 .. l : q = <<n + 1, k>>
          BY <1>4, <3>3, Zenon
        <4>2. CASE q \in old
          BY <3>1, <3>3, <4>2, Zenon
        <4>3. CASE q \notin old
          <5>1. PICK k \in 1 .. l : q = <<n + 1, k>>
            BY <4>1, <4>3, Zenon
          <5>2. QED
            BY <3>2, <5>1
        <4>4. QED
          BY <4>2, <4>3
      <3>4. QED
        BY <1>10, <2>1, <3>3, Zenon DEF LastHere
    <2>5. QED
      BY <2>3, <2>4
  <1>11. ASSUME NEW k \in 1 .. l
         PROVE  <<n + 1, k>> \in LastHere(all) <=>
                  \A m \in 1 .. l : k < m => new[m][1] # new[k][1]
    <2>1. \A m \in 1 .. l : <<n + 1, m>> \in all
      BY <1>4, Zenon
    <2>2. ASSUME <<n + 1, k>> \in LastHere(all)
          PROVE  \A m \in 1 .. l : k < m => new[m][1] # new[k][1]
      <3>1. \A q \in all : Before(<<n + 1, k>>, q) => GroupAt(q)[1] # GroupAt(<<n + 1, k>>)[1]
        BY <2>2, Zenon DEF LastHere
      <3>2. QED
        BY <1>7, <1>8, <1>11, <2>1, <3>1, Zenon
    <2>3. ASSUME \A m \in 1 .. l : k < m => new[m][1] # new[k][1]
          PROVE  <<n + 1, k>> \in LastHere(all)
      <3>1. ASSUME NEW q \in all, Before(<<n + 1, k>>, q)
            PROVE  GroupAt(q)[1] # GroupAt(<<n + 1, k>>)[1]
        <4>1. q \notin old
          BY <1>6, <1>11, <3>1, Zenon
        <4>2. PICK m \in 1 .. l : q = <<n + 1, m>>
          BY <1>4, <3>1, <4>1, Zenon
        <4>3. k < m
          BY <1>7, <1>11, <3>1, <4>2, Zenon
        <4>4. new[m][1] # new[k][1]
          BY <2>3, <4>2, <4>3, Zenon
        <4>5. QED
          BY <1>8, <1>11, <4>2, <4>4
      <3>2. QED
        BY <1>11, <2>1, <3>1, Zenon DEF LastHere
    <2>4. QED
      BY <2>2, <2>3
  <1>12. ASSUME NEW e
         PROVE  e \in {Entry(p) : p \in LastHere(all)} <=>
                  e \in OldKept({Entry(p) : p \in LastHere(old)}, new, l) \cup NewLast(new, l)
    <2>1. ASSUME NEW p \in LastHere(all), e = Entry(p)
          PROVE  e \in OldKept({Entry(q) : q \in LastHere(old)}, new, l) \cup NewLast(new, l)
      <3>1. p \in all
        BY <2>1, Zenon DEF LastHere
      <3>2. CASE p \in old
        <4>1. p \in LastHere(old) /\ \A k \in 1 .. l : e[1] # new[k][1]
          BY <1>10, <2>1, <3>2, Zenon
        <4>2. QED
          BY <2>1, <4>1, Zenon DEF OldKept
      <3>3. CASE p \notin old
        <4>1. PICK k \in 1 .. l : p = <<n + 1, k>>
          BY <1>4, <3>1, <3>3, Zenon
        <4>2. e = new[k] /\ \A m \in 1 .. l : k < m => new[m][1] # new[k][1]
          BY <1>8, <1>11, <2>1, <4>1, Zenon
        <4>3. QED
          BY <4>1, <4>2, Zenon DEF NewLast
      <3>4. QED
        BY <3>2, <3>3
    <2>2. ASSUME e \in OldKept({Entry(q) : q \in LastHere(old)}, new, l)
          PROVE  e \in {Entry(p) : p \in LastHere(all)}
      <3>1. PICK p \in LastHere(old) : e = Entry(p)
        BY <2>2, Zenon DEF OldKept
      <3>2. p \in old
        BY <3>1, Zenon DEF LastHere
      <3>3. \A k \in 1 .. l : e[1] # new[k][1]
        BY <2>2, Zenon DEF OldKept
      <3>4. p \in LastHere(all)
        BY <1>10, <3>1, <3>2, <3>3, Zenon
      <3>5. QED
        BY <3>1, <3>4, Zenon
    <2>3. ASSUME e \in NewLast(new, l)
          PROVE  e \in {Entry(p) : p \in LastHere(all)}
      <3>1. PICK k \in 1 .. l : e = new[k] /\ \A m \in 1 .. l : k < m => new[m][1] # new[k][1]
        BY <2>3, Zenon DEF NewLast
      <3>2. <<n + 1, k>> \in LastHere(all) /\ e = Entry(<<n + 1, k>>)
        BY <1>8, <1>11, <3>1, Zenon
      <3>3. QED
        BY <3>2, Zenon
    <2>4. QED
      BY <2>1, <2>2, <2>3, Zenon
  <1>13. QED
    BY <1>1, <1>2, <1>3, <1>12, Zenon DEF TableOf, Added

\* The line of URLS in a file does not change, and neither does the table when no such line is read.
LEMMA ApisStay ==
  ASSUME ApisInv, file' = file, GivenBy(Urls)' = GivenBy(Urls), apis' = apis
  PROVE  ApisInv'
  <1>1. \A i : SectionAt(i)' = SectionAt(i)
    BY DEF SectionAt
  <1>2. Giving("QUERYAPIS", "URLS")' = Giving("QUERYAPIS", "URLS")
    BY <1>1 DEF Giving
  <1>3. WholeGroups' = WholeGroups
    BY <1>2 DEF WholeGroups, GroupsIn, GroupAt
  <1>4. TableOf(GivenBy(Urls))' = TableOf(GivenBy(Urls))
    BY DEF TableOf, LastHere, GroupsIn, GroupAt, Entry, Before
  <1>5. QED
    BY <1>3, <1>4 DEF ApisInv

\* The getter of [QUERYAPIS] reads URLS.
LEMMA UrlsAdded ==
  ASSUME FileInv, ApisInv, GetKey, Line.key = "URLS", section = "QUERYAPIS"
  PROVE  ApisInv'
  <1>1. /\ loadPc = "get" /\ ~Eof /\ Line.kind = "key" /\ pos' = pos + 1 /\ file' = file
        /\ Urls \in Settings /\ Urls[1] = "QUERYAPIS" /\ Urls[2] = "URLS"
        /\ apis' = AddApis(apis, UrlEntries(Fields(Line.value)))
    <2>1. "URLS" \in KeysOf["QUERYAPIS"] /\ "QUERYAPIS" \in Sections
      BY DEF KeysOf, Sections
    <2>2. Urls \in Settings /\ Urls[1] = "QUERYAPIS" /\ Urls[2] = "URLS"
      BY <2>1 DEF Settings, Urls
    <2>3. QED
      BY <2>1, <2>2 DEF GetKey
  <1>2. /\ pos \in Nat /\ Len(file) \in Nat /\ pos \in 0 .. Len(file) /\ file \in Seq(Lines)
        /\ DOMAIN file = 1 .. Len(file)
    BY DEF FileInv, LoadTypeOK
  <1>3. pos + 1 \in DOMAIN file /\ Line = file[pos + 1] /\ Line \in Lines
    <2>1. PICK n : n = Len(file) /\ n \in Nat /\ pos \in 0 .. n
      BY <1>2
    <2>2. pos # n
      BY <1>1, <2>1 DEF Eof
    <2>3. pos + 1 \in 1 .. n
      BY <2>1, <2>2
    <2>4. pos + 1 \in DOMAIN file
      BY <1>2, <2>1, <2>3
    <2>5. Line = file[pos + 1]
      BY DEF Line
    <2>6. file[pos + 1] \in Lines
      BY <1>2, <2>1, <2>3, ElementOfSeq
    <2>7. QED
      BY <2>4, <2>5, <2>6
  <1>4. SectionAt(pos + 1) = "QUERYAPIS"
    <2>1. section = SectionAt(pos)
      BY <1>1 DEF FileInv, NoSection
    <2>2. SectionAt(pos + 1) = SectionAt(pos)
      BY <1>1, <1>2, <1>3, SectionNext
    <2>3. QED
      BY <2>1, <2>2
  <1>5. \A i : SectionAt(i)' = SectionAt(i)
    BY <1>1 DEF SectionAt
  <1>6. Giving("QUERYAPIS", "URLS")' = Giving("QUERYAPIS", "URLS")
    BY <1>1, <1>5 DEF Giving
  <1>7. pos + 1 \in Giving("QUERYAPIS", "URLS")
    BY <1>1, <1>3, <1>4 DEF Giving
  <1>8. GivenBy(Urls)' = GivenBy(Urls) \cup {pos + 1} /\ GivenBy(Urls) \subseteq 1 .. pos
    <2>1. 1 .. pos + 1 = (1 .. pos) \cup {pos + 1}
      BY <1>2
    <2>2. GivenBy(Urls) = Giving("QUERYAPIS", "URLS") \cap (1 .. pos)
      BY <1>1 DEF GivenBy
    <2>3. GivenBy(Urls)' = Giving("QUERYAPIS", "URLS") \cap (1 .. pos + 1)
      BY <1>1, <1>6 DEF GivenBy
    <2>4. QED
      BY <1>7, <2>1, <2>2, <2>3
  <1>9. WholeGroups' = WholeGroups
    BY <1>1, <1>6 DEF WholeGroups, GroupsIn, GroupAt
  <1>10. ASSUME WholeGroups
         PROVE  apis' = TableOf(GivenBy(Urls) \cup {pos + 1})
    <2>1. PICK v \in Seq(Seq(STRING)) : v = Line.value
      BY <1>1, <1>3, UrlsAssumption
    <2>2. Len(v) \in Nat /\ DOMAIN v = 1 .. Len(v)
      BY <2>1, LenProperties
    <2>3. ASSUME NEW k \in 1 .. Len(v)
          PROVE  Len(v[k]) = 5
      <3>1. <<pos + 1, k>> \in GroupsIn(Giving("QUERYAPIS", "URLS"))
        BY <1>3, <1>7, <2>1, <2>2, <2>3 DEF GroupsIn
      <3>2. GroupAt(<<pos + 1, k>>) = v[k]
        BY <1>3, <2>1 DEF GroupAt
      <3>3. QED
        BY <1>10, <3>1, <3>2 DEF WholeGroups
    <2>4. PICK new : new = UrlEntries(Fields(v))
      OBVIOUS
    <2>5. Len(new) = Len(v) /\ \A k \in 1 .. Len(v) : new[k] = <<v[k][1], v[k][2]>>
      BY <2>1, <2>3, <2>4, EntriesAre
    <2>6. apis' = Added(apis, new, Len(v))
      BY <1>1, <2>1, <2>2, <2>4, <2>5, AddApisAre
    <2>7. TableOf(GivenBy(Urls) \cup {pos + 1}) = Added(TableOf(GivenBy(Urls)), new, Len(v))
      <3>1. file[pos + 1].value = v
        BY <1>3, <2>1
      <3>2. PICK given : given = GivenBy(Urls)
        OBVIOUS
      <3>3. PICK n : n = pos
        OBVIOUS
      <3>4. given \subseteq 1 .. n
        BY <1>8, <3>2, <3>3, Zenon
      <3>5. n \in Nat
        BY <1>2, <3>3, Zenon
      <3>6. GroupsOf(v, new)
        BY <2>2, <2>5, Zenon DEF GroupsOf
      <3>7. file[n + 1].value = v
        BY <3>1, <3>3, Zenon
      <3>8. TableOf(given \cup {n + 1}) = Added(TableOf(given), new, Len(v))
        BY <3>4, <3>5, <3>6, <3>7, TableNext, Zenon
      <3>9. QED
        BY <3>2, <3>3, <3>8, Zenon
    <2>8. QED
      BY <1>10, <2>6, <2>7 DEF ApisInv
  <1>11. TableOf(GivenBy(Urls))' = TableOf(GivenBy(Urls)')
    BY <1>1 DEF TableOf, LastHere, GroupsIn, GroupAt, Entry, Before
  <1>12. QED
    BY <1>8, <1>9, <1>10, <1>11 DEF ApisInv

LEMMA ApisKept ==
  ASSUME FileInv, ApisInv, LoadNext
  PROVE  ApisInv'
  <1>1. /\ pos \in Nat /\ Len(file) \in Nat /\ pos \in 0 .. Len(file) /\ DOMAIN file = 1 .. Len(file)
    BY DEF FileInv, LoadTypeOK
  <1>2. file' = file
    BY DEF LoadNext, FirstLine, TestSection, CallGetter, GetSection, GetKey, GetOther, GetEnd
  <1>3. Urls \in Settings /\ Urls[1] = "QUERYAPIS" /\ Urls[2] = "URLS"
    <2>1. "URLS" \in KeysOf["QUERYAPIS"] /\ "QUERYAPIS" \in Sections
      BY DEF KeysOf, Sections
    <2>2. QED
      BY <2>1 DEF Settings, Urls
  <1>4. ASSUME ~Eof
        PROVE  pos + 1 \in DOMAIN file /\ Line = file[pos + 1]
    <2>1. PICK n : n = Len(file) /\ n \in Nat /\ pos \in 0 .. n
      BY <1>1
    <2>2. pos # n
      BY <1>4, <2>1 DEF Eof
    <2>3. pos + 1 \in 1 .. n
      BY <2>1, <2>2
    <2>4. QED
      BY <1>1, <2>1, <2>3 DEF Line
  <1>5. ASSUME ~Eof, pos' = pos + 1, apis' = apis,
               Line.kind # "key" \/ Line.key # "URLS" \/ SectionAt(pos + 1) # "QUERYAPIS"
        PROVE  ApisInv'
    <2>1. GivenBy(Urls)' = GivenBy(Urls)
      BY <1>2, <1>3, <1>4, <1>5, NotGiving
    <2>2. QED
      BY <1>2, <1>5, <2>1, ApisStay
  <1>6. CASE TestSection \/ CallGetter \/ GetEnd \/ (FirstLine /\ Eof)
    <2>1. pos' = pos /\ apis' = apis
      BY <1>6 DEF TestSection, CallGetter, GetEnd, FirstLine
    <2>2. \A i : SectionAt(i)' = SectionAt(i)
      BY <1>2 DEF SectionAt
    <2>3. GivenBy(Urls)' = GivenBy(Urls)
      BY <1>2, <2>1, <2>2 DEF GivenBy, Giving
    <2>4. QED
      BY <1>2, <2>1, <2>3, ApisStay
  <1>7. CASE FirstLine /\ ~Eof
    <2>1. pos' = pos + 1 /\ apis' = apis /\ loadPc = "first"
      BY <1>7 DEF FirstLine
    <2>2. SectionAt(pos) = NoSection
      BY <1>1, <2>1, SectionNone DEF FileInv
    <2>3. Line.kind = "key" => SectionAt(pos + 1) # "QUERYAPIS"
      BY <1>1, <1>4, <1>7, <2>2, SectionNext DEF NoSection
    <2>4. QED
      BY <1>5, <1>7, <2>1, <2>3
  <1>8. CASE GetSection \/ GetOther
    <2>1. ~Eof /\ pos' = pos + 1 /\ apis' = apis /\ Line.kind # "key"
      BY <1>8 DEF GetSection, GetOther
    <2>2. QED
      BY <1>5, <2>1
  <1>9. CASE GetKey
    <2>1. ~Eof /\ pos' = pos + 1 /\ loadPc = "get" /\ Line.kind = "key"
      BY <1>9 DEF GetKey
    <2>2. section = SectionAt(pos + 1) /\ section \in Sections
      <3>1. section = SectionAt(pos) /\ section \in Sections
        BY <2>1 DEF FileInv, LoadTypeOK
      <3>2. SectionAt(pos + 1) = SectionAt(pos)
        BY <1>1, <1>4, <2>1, SectionNext
      <3>3. QED
        BY <3>1, <3>2
    <2>3. CASE Line.key = "URLS" /\ section = "QUERYAPIS"
      BY <1>9, <2>3, UrlsAdded
    <2>4. CASE ~(Line.key = "URLS" /\ section = "QUERYAPIS")
      <3>1. ~(Line.key = "URLS" /\ Line.key \in KeysOf[section])
        <4>1. \A k \in Sections : "URLS" \in KeysOf[k] => k = "QUERYAPIS"
          BY DEF KeysOf, Sections
        <4>2. QED
          BY <2>2, <2>4, <4>1
      <3>2. apis' = apis
        BY <1>9, <3>1 DEF GetKey
      <3>3. QED
        BY <1>5, <2>1, <2>2, <2>4, <3>2
    <2>5. QED
      BY <2>3, <2>4
  <1>10. QED
    BY <1>6, <1>7, <1>8, <1>9 DEF LoadNext

LEMMA ApisAlways == NamedSections => (Spec => []ApisInv)
  <1> SUFFICES ASSUME NamedSections PROVE Spec => []ApisInv
    OBVIOUS
  <1>1. ASSUME Init PROVE ApisInv
    <2>1. apis = {} /\ pos = 0
      BY <1>1 DEF Init, LoadInit
    <2>2. GivenBy(Urls) = {}
      BY <2>1 DEF GivenBy
    <2>3. TableOf({}) = {}
      BY DEF TableOf, LastHere, GroupsIn
    <2>4. QED
      BY <2>1, <2>2, <2>3 DEF ApisInv
  <1>2. ASSUME FileInv, ApisInv, [Next]_vars PROVE ApisInv'
    <2>1. CASE UNCHANGED loadVars
      <3>1. UNCHANGED <<file, pos, section, conf, apis, loadPc>>
        BY <2>1 DEF loadVars
      <3>2. \A i : SectionAt(i)' = SectionAt(i)
        BY <3>1 DEF SectionAt
      <3>3. GivenBy(Urls)' = GivenBy(Urls)
        BY <3>1, <3>2 DEF GivenBy, Giving
      <3>4. QED
        BY <1>2, <3>1, <3>3, ApisStay
    <2>2. QED
      BY <1>2, <2>1, LoadChanges, ApisKept
  <1>3. Spec => []FileInv
    BY FileAlways
  <1>4. QED
    BY <1>1, <1>2, <1>3, PTL DEF Spec

LEMMA SettingsRight ==
  ASSUME FileInv
  PROVE  SettingsFromFile
  <1> SUFFICES ASSUME loadPc = "done" PROVE \A x \in Settings : conf[x] = ValueFrom(Giving(x[1], x[2]))
    BY DEF SettingsFromFile, ValueFrom, LastOf
  <1>1. pos = Len(file) /\ DOMAIN file = 1 .. pos
    BY DEF FileInv, LoadTypeOK
  <1>2. \A x \in Settings : GivenBy(x) = Giving(x[1], x[2])
    BY <1>1 DEF GivenBy, Giving
  <1>3. QED
    BY <1>2 DEF FileInv
LEMMA ApisRight ==
  ASSUME FileInv, ApisInv
  PROVE  ApisFromFile
  <1> SUFFICES ASSUME loadPc = "done", WholeGroups PROVE apis = TableOf(Giving("QUERYAPIS", "URLS"))
    BY DEF ApisFromFile, WholeGroups, TableOf, LastHere, Entry
  <1>1. pos = Len(file) /\ DOMAIN file = 1 .. pos
    BY DEF FileInv, LoadTypeOK
  <1>2. GivenBy(Urls) = Giving("QUERYAPIS", "URLS")
    BY <1>1 DEF GivenBy, Giving, Urls
  <1>3. QED
    BY <1>2 DEF ApisInv

\* What the program starts with is what its file says: every setting has the value of the last line
\* of its own section that gives it, and the table of the APIs has one entry for each host of a
\* group of URLS, with the parameter of the last such group - for every file whose headers have
\* names.
THEOREM ConfIsFromFile == NamedSections => (Spec => []ConfFromFile)
  <1> SUFFICES ASSUME NamedSections PROVE Spec => []ConfFromFile
    OBVIOUS
  <1>1. FileInv /\ ApisInv => ConfFromFile
    BY SettingsRight, ApisRight DEF ConfFromFile
  <1>2. Spec => []FileInv
    BY FileAlways
  <1>3. Spec => []ApisInv
    BY ApisAlways
  <1>4. QED
    BY <1>1, <1>2, <1>3, PTL

-----------------------------------------------------------------------------
(* The conversions                                                         *)

LEMMA ConvAlways == Spec => []ConvInv
  <1>1. Init => ConvInv
    BY ConvStart DEF Init
  <1>2. ASSUME ConvInv, [Next]_vars PROVE ConvInv'
    <2>1. (call = NoCall /\ \E c \in Calls : Call(c)) \/ Convert \/ UNCHANGED convVars
      BY <1>2 DEF Next, vars, LoadPart, MainPart, WorkerPart, StatusPart, PushPart, TakePart, CallPart,
         ConvertPart
    <2>2. QED
      BY <1>2, <2>1, ConvKept
  <1>3. QED
    BY <1>1, <1>2, PTL DEF Spec

\* Whatever text a worker encodes it gets back byte for byte, base64 is what the standard says,
\* url_decode stays within its text, a parameter has the value it was sent with, and an order is
\* not given up before its time.
THEOREM ConversionsAreRight == Spec => []ConversionsRight
  BY ConvAlways, ConvRight, PTL

=============================================================================
