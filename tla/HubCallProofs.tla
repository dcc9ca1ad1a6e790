---------------------------- MODULE HubCallProofs ----------------------------
(***************************************************************************)
(* HubCall for every set of callers and every number of descriptors: types,*)
(* one initialisation of OpenSSL, descriptors accounted for, and no death  *)
(* without a failed connection.                                            *)
(*                                                                         *)
(* The flag is safe because its readers hold the mutex (MutexInv) and      *)
(* InitSSLFlag counts the initialisations (FlagInv).  Types need the       *)
(* accounting of descriptors: closing one leaves a natural number only     *)
(* because the caller that closes it has one open.                         *)
(***************************************************************************)
EXTENDS HubCall, FiniteSetTheorems, TLAPS

Holding(t) == pc[t] \in {"flag", "params", "unlock"}

MutexInv == \A t \in Callers : Holding(t) => mutex = t

FlagInv ==
    /\ inits = InitSSLFlag
    /\ \A t \in Callers : pc[t] = "params" => InitSSLFlag = 0
    /\ \A t \in Callers : Prepared(t) => InitSSLFlag = 1

-----------------------------------------------------------------------------
(* The callers in a call                                                   *)

\* They are finitely many.
LEMMA CallingFinite == IsFiniteSet(Calling) /\ Cardinality(Calling) \in Nat
  <1>1. Calling \subseteq Callers
    BY DEF Calling
  <1>2. QED
    BY <1>1, CallersAssumption, FS_Subset, FS_CardinalityType

\* A call that begins adds its caller.
LEMMA CallBegins ==
  ASSUME NEW t \in Callers, NEW l \in Pcs \ {"idle"}, TypeOK,
         pc[t] = "idle", pc' = [pc EXCEPT ![t] = l]
  PROVE  Cardinality(Calling') = Cardinality(Calling) + 1
  <1>1. Calling' = Calling \cup {t} /\ t \notin Calling
    BY DEF Calling, TypeOK
  <1>2. QED
    BY <1>1, CallingFinite, FS_AddElement

\* A call that ends takes its caller away.
LEMMA CallEnds ==
  ASSUME NEW t \in Callers, TypeOK,
         pc[t] # "idle", pc' = [pc EXCEPT ![t] = "idle"]
  PROVE  /\ Cardinality(Calling') = Cardinality(Calling) - 1
         /\ Cardinality(Calling') \in Nat
  <1>1. Calling' = Calling \ {t} /\ t \in Calling
    BY DEF Calling, TypeOK
  <1>2. Cardinality(Calling \ {t}) = Cardinality(Calling) - 1
    BY <1>1, CallingFinite, FS_RemoveElement
  <1>3. IsFiniteSet(Calling \ {t})
    BY <1>1, CallingFinite, FS_Subset
  <1>4. QED
    BY <1>1, <1>2, <1>3, FS_CardinalityType

\* A step inside a call leaves the set as it is.
LEMMA CallGoesOn ==
  ASSUME NEW t \in Callers, NEW l \in Pcs \ {"idle"}, TypeOK,
         pc[t] # "idle", pc' = [pc EXCEPT ![t] = l]
  PROVE  Calling' = Calling
  BY DEF Calling, TypeOK

\* With a caller idle there are fewer calls than callers.
LEMMA OneIdle ==
  ASSUME NEW t \in Callers, pc[t] = "idle"
  PROVE  Cardinality(Calling) < Cardinality(Callers)
  <1>1. Calling \subseteq Callers /\ Calling # Callers
    BY DEF Calling
  <1>2. Cardinality(Callers) \in Nat
    BY CallersAssumption, FS_CardinalityType
  <1>3. QED
    BY <1>1, <1>2, CallersAssumption, CallingFinite, FS_Subset

-----------------------------------------------------------------------------
(* The invariant                                                           *)

FdInv == TypeOK /\ FdsAccounted /\ OnlyFailuresKill

\* Nothing is open at the start.
LEMMA FdInit == Init => FdInv
  <1> SUFFICES ASSUME Init PROVE FdInv
    OBVIOUS
  <1>1. Calling = {}
    BY DEF Init, Calling
  <1>2. FdsAccounted
    <2>1. Cardinality(Calling) = 0
      BY <1>1, FS_EmptySet, Zenon
    <2>2. fds = 0 /\ fails = 0
      BY DEF Init
    <2>3. QED
      BY <2>1, <2>2 DEF FdsAccounted
  <1>3. alive
    BY Zenon DEF Init
  <1>4. TypeOK
    <2>1. alive \in BOOLEAN
      BY Zenon DEF Init
    <2>2. fds \in 0 .. MaxFds
      <3>1. fds = 0
        BY DEF Init
      <3>2. 0 \in 0 .. MaxFds
        BY FdsAssumption
      <3>3. QED
        BY <3>1, <3>2
    <2>3. InitSSLFlag \in {0, 1} /\ inits \in Nat /\ fails \in Nat /\ mutex \in Callers \cup {NoOne}
      BY DEF Init
    <2>4. /\ pc \in [Callers -> Pcs]
          /\ ssl \in [Callers -> {"raw", "live"}]
          /\ wrote \in [Callers -> {"no", "want", "yes", "failed"}]
          /\ peer \in [Callers -> Peers]
          /\ result \in [Callers -> Bodies]
      BY DEF Init, Pcs, Peers, Bodies
    <2>5. QED
      BY <2>1, <2>2, <2>3, <2>4 DEF TypeOK
  <1>5. QED
    BY <1>2, <1>3, <1>4 DEF FdInv, OnlyFailuresKill

\* A step of one caller inside its call that opens and closes nothing.
LEMMA FdInside ==
  ASSUME FdInv, NEW t \in Callers, NEW l \in Pcs \ {"idle"},
         pc[t] # "idle", pc' = [pc EXCEPT ![t] = l],
         TypeOK', UNCHANGED <<fds, fails, alive>>
  PROVE  FdInv'
  <1>1. Calling' = Calling
    BY CallGoesOn DEF FdInv
  <1>2. QED
    BY <1>1 DEF FdInv, FdsAccounted, OnlyFailuresKill

\* Each step keeps types, the accounting and the process.
LEMMA FdNext == FdInv /\ [Next]_vars => FdInv'
  <1> SUFFICES ASSUME FdInv, [Next]_vars PROVE FdInv'
    OBVIOUS
  <1> USE DEF At, Goto, Set
  <1>0. CASE UNCHANGED vars
    BY <1>0 DEF vars, FdInv, TypeOK, FdsAccounted, OnlyFailuresKill, Calling
  <1>1. ASSUME NEW t \in Callers, Call(t) PROVE FdInv'
    <2>1. CASE fds < MaxFds
      <3>1. pc[t] = "idle" /\ pc' = [pc EXCEPT ![t] = "connect"] /\ "connect" \in Pcs \ {"idle"}
        BY <1>1, <2>1 DEF Call, Pcs
      <3>2. Cardinality(Calling') = Cardinality(Calling) + 1
        BY <3>1, CallBegins DEF FdInv
      <3>3. fds' = fds + 1 /\ alive' = alive
        BY <1>1, <2>1, Zenon DEF Call
      <3>4. fails' = fails
        BY <1>1 DEF Call
      <3>5. FdsAccounted'
        BY <3>2, <3>3, <3>4, CallingFinite DEF FdInv, TypeOK, FdsAccounted
      <3>6. /\ result' \in [Callers -> Bodies]
            /\ ssl' \in [Callers -> {"raw", "live"}]
            /\ wrote' \in [Callers -> {"no", "want", "yes", "failed"}]
            /\ peer' \in [Callers -> Peers]
        BY <1>1 DEF Call, FdInv, TypeOK, Peers, Bodies
      <3>7. pc' \in [Callers -> Pcs]
        BY <3>1 DEF FdInv, TypeOK
      <3>8. fds' \in 0 .. MaxFds
        BY <2>1, <3>3, FdsAssumption DEF FdInv, TypeOK
      <3>9. TypeOK'
        BY <1>1, <3>3, <3>6, <3>7, <3>8 DEF Call, FdInv, TypeOK
      <3>10. QED
        BY <3>3, <3>4, <3>5, <3>9 DEF FdInv, OnlyFailuresKill
    <2>2. CASE ~(fds < MaxFds)
      <3>1. UNCHANGED <<pc, fds, fails>>
        BY <1>1, <2>2 DEF Call
      <3>2. TypeOK'
        BY <1>1, <2>2 DEF Call, FdInv, TypeOK, Pcs, Peers, Bodies
      <3>3. FdsAccounted'
        BY <3>1 DEF FdInv, FdsAccounted, Calling
      <3>4. Cardinality(Calling) < Cardinality(Callers) /\ Cardinality(Callers) \in Nat
        BY <1>1, OneIdle, CallersAssumption, FS_CardinalityType DEF Call
      <3>5. fails # 0
        BY <2>2, <3>4, CallingFinite, FdsAssumption, EnoughFds DEF FdInv, TypeOK, FdsAccounted
      <3>6. QED
        BY <3>1, <3>2, <3>3, <3>5 DEF FdInv, OnlyFailuresKill
    <2>3. QED
      BY <2>1, <2>2
  <1>2. ASSUME NEW t \in Callers, PeerActs(t) PROVE FdInv'
    BY <1>2 DEF PeerActs, FdInv, TypeOK, FdsAccounted, OnlyFailuresKill, Calling, Peers
  <1>3. ASSUME NEW t \in Callers, ConnectFails(t) PROVE FdInv'
    <2>1. Cardinality(Calling') = Cardinality(Calling) - 1
      BY <1>3, CallEnds DEF ConnectFails, FdInv
    <2>2. FdsAccounted'
      BY <1>3, <2>1, CallingFinite DEF ConnectFails, FdInv, TypeOK, FdsAccounted
    <2>3. TypeOK'
      BY <1>3 DEF ConnectFails, FdInv, TypeOK, Pcs
    <2>4. OnlyFailuresKill'
      BY <1>3 DEF ConnectFails, FdInv, TypeOK, OnlyFailuresKill
    <2>5. QED
      BY <2>2, <2>3, <2>4 DEF FdInv
  <1>4. ASSUME NEW t \in Callers, SslDestroy(t) PROVE FdInv'
    <2>1. /\ Cardinality(Calling') = Cardinality(Calling) - 1
          /\ Cardinality(Calling') \in Nat
      BY <1>4, CallEnds DEF SslDestroy, FdInv
    <2>2. FdsAccounted'
      BY <1>4, <2>1, CallingFinite DEF SslDestroy, FdInv, TypeOK, FdsAccounted
    <2>3. fds' \in 0 .. MaxFds
      BY <1>4, <2>1, <2>2, FdsAssumption DEF SslDestroy, FdInv, TypeOK, FdsAccounted
    <2>4. TypeOK'
      BY <1>4, <2>3 DEF SslDestroy, FdInv, TypeOK, Pcs
    <2>5. QED
      BY <1>4, <2>2, <2>4 DEF SslDestroy, FdInv, OnlyFailuresKill
  <1>5. ASSUME NEW t \in Callers,
               TcpConnect(t) \/ Lock(t) \/ CheckFlag(t) \/ InitParams(t) \/ Unlock(t)
               \/ InitEnv(t) \/ SslConnect(t) \/ SslReadAgain(t)
        PROVE  FdInv'
    <2> USE DEF TcpConnect, Lock, CheckFlag, InitParams, Unlock, InitEnv, SslConnect,
                SslReadAgain
    <2>1. TypeOK'
      BY <1>5 DEF FdInv, TypeOK, Pcs
    <2>2. PICK l \in Pcs \ {"idle"} : pc' = [pc EXCEPT ![t] = l]
      BY <1>5 DEF Pcs
    <2>3. pc[t] # "idle" /\ UNCHANGED <<fds, fails, alive>>
      BY <1>5
    <2>4. QED
      BY <2>1, <2>2, <2>3, FdInside
  <1>6. ASSUME NEW t \in Callers, SslWrite(t) PROVE FdInv'
    <2>1. TypeOK'
      BY <1>6 DEF SslWrite, FdInv, TypeOK, Pcs
    <2>2. PICK l \in Pcs \ {"idle"} : pc' = [pc EXCEPT ![t] = l]
      <3>1. CASE UNCHANGED pc
        <4>1. pc' = [pc EXCEPT ![t] = "write"]
          BY <1>6, <3>1 DEF SslWrite, FdInv, TypeOK
        <4>2. QED
          BY <4>1 DEF Pcs
      <3>2. CASE pc' = [pc EXCEPT ![t] = "read"]
        BY <3>2 DEF Pcs
      <3>3. QED
        BY <1>6, <3>1, <3>2 DEF SslWrite
    <2>3. pc[t] # "idle" /\ UNCHANGED <<fds, fails, alive>>
      BY <1>6 DEF SslWrite
    <2>4. QED
      BY <2>1, <2>2, <2>3, FdInside
  <1>7. ASSUME NEW t \in Callers, SslRead(t) PROVE FdInv'
    <2>1. TypeOK'
      BY <1>7 DEF SslRead, FdInv, TypeOK, Pcs, Bodies
    <2>2. PICK l \in Pcs \ {"idle"} : pc' = [pc EXCEPT ![t] = l]
      BY <1>7 DEF SslRead, Pcs
    <2>3. pc[t] # "idle" /\ UNCHANGED <<fds, fails, alive>>
      BY <1>7 DEF SslRead
    <2>4. QED
      BY <2>1, <2>2, <2>3, FdInside
  <1>8. QED
    BY <1>0, <1>1, <1>2, <1>3, <1>4, <1>5, <1>6, <1>7 DEF Next, Step

\* A call to DataHub leaves every variable in its range for every set of
\* callers: in particular TcpClose never closes more than was opened.
THEOREM HubTypes == Spec => []TypeOK
  <1>1. FdInv => TypeOK
    BY DEF FdInv
  <1>2. QED
    BY <1>1, FdInit, FdNext, PTL DEF Spec

\* Every descriptor CTcpSocket opened for DataHub is that of a call in progress
\* or was lost to a connection that failed.
THEOREM DescriptorsAccounted == Spec => []FdsAccounted
  <1>1. FdInv => FdsAccounted
    BY DEF FdInv
  <1>2. QED
    BY <1>1, FdInit, FdNext, PTL DEF Spec

\* With descriptors for all callers, BdxGetDatafromDataHub ends the process
\* only after a connection has failed.
THEOREM FailureKills == Spec => []OnlyFailuresKill
  <1>1. FdInv => OnlyFailuresKill
    BY DEF FdInv
  <1>2. QED
    BY <1>1, FdInit, FdNext, PTL DEF Spec

-----------------------------------------------------------------------------
(* The flag                                                                *)

LockInv == MutexInv /\ FlagInv

\* OpenSSL is not initialised, and nobody holds the mutex.
LEMMA LockInit == Init => LockInv
  BY DEF Init, LockInv, MutexInv, FlagInv, Holding, Prepared

\* The flag changes only in the hands of the caller that holds the mutex.
LEMMA LockNext == TypeOK /\ LockInv /\ [Next]_vars => LockInv'
  <1> SUFFICES ASSUME TypeOK, LockInv, [Next]_vars PROVE LockInv'
    OBVIOUS
  <1> USE DEF At, Goto, Set, TypeOK, LockInv, MutexInv, FlagInv, Holding, Prepared
  <1>0. CASE UNCHANGED vars
    BY <1>0 DEF vars
  <1>1. ASSUME NEW t \in Callers, Call(t) \/ PeerActs(t) PROVE LockInv'
    <2>1. pc' = pc \/ (pc[t] = "idle" /\ pc' = [pc EXCEPT ![t] = "connect"])
      BY <1>1 DEF Call, PeerActs
    <2>2. UNCHANGED <<mutex, InitSSLFlag, inits>>
      BY <1>1 DEF Call, PeerActs
    <2>3. QED
      BY <2>1, <2>2
  <1>2. ASSUME NEW t \in Callers, TcpConnect(t) \/ ConnectFails(t) PROVE LockInv'
    BY <1>2 DEF TcpConnect, ConnectFails
  <1>3. ASSUME NEW t \in Callers, Lock(t) PROVE LockInv'
    BY <1>3, CallersAssumption DEF Lock
  <1>4. ASSUME NEW t \in Callers, CheckFlag(t) PROVE LockInv'
    BY <1>4 DEF CheckFlag
  <1>5. ASSUME NEW t \in Callers, InitParams(t) PROVE LockInv'
    BY <1>5 DEF InitParams
  <1>6. ASSUME NEW t \in Callers, Unlock(t) PROVE LockInv'
    BY <1>6 DEF Unlock
  <1>7. ASSUME NEW t \in Callers, InitEnv(t) \/ SslConnect(t) \/ SslReadAgain(t) PROVE LockInv'
    BY <1>7 DEF InitEnv, SslConnect, SslReadAgain
  <1>8. ASSUME NEW t \in Callers, SslWrite(t) PROVE LockInv'
    BY <1>8 DEF SslWrite
  <1>9. ASSUME NEW t \in Callers, SslRead(t) \/ SslDestroy(t) PROVE LockInv'
    BY <1>9 DEF SslRead, SslDestroy
  <1>10. QED
    BY <1>0, <1>1, <1>2, <1>3, <1>4, <1>5, <1>6, <1>7, <1>8, <1>9 DEF Next, Step

\* OpenSSL is initialised once in the process, and before any caller makes SSL
\* objects, for every set of workers and update threads.
THEOREM InitOnce == Spec => []SslReady
  <1>1. TypeOK /\ LockInv => SslReady
    BY DEF TypeOK, LockInv, FlagInv, SslReady
  <1>2. QED
    BY <1>1, HubTypes, LockInit, LockNext, PTL DEF Spec

=============================================================================
