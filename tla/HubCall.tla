------------------------------- MODULE HubCall -------------------------------
(***************************************************************************)
(* BdxGetDatafromDataHub, which the workers and the update thread each     *)
(* have a copy of, on the socket of CTcpSocket: connect, initialise        *)
(* OpenSSL once in the process (InitSSLFlag under a mutex), make the SSL   *)
(* objects of this call, write the request, read the answer, destroy.      *)
(*                                                                         *)
(* The socket's timeouts are one second.  A peer is silent until it        *)
(* answers, closes the connection in order, or breaks it.                  *)
(***************************************************************************)
EXTENDS Integers, FiniteSets

CONSTANTS
    Callers,    \* the workers and the update thread
    NoOne,      \* the mutex is free
    MaxFds,     \* descriptors the process may still open
    MaxFails    \* bound on the connections that fail

ASSUME CallersAssumption == IsFiniteSet(Callers) /\ NoOne \notin Callers
ASSUME FdsAssumption == MaxFds \in Nat /\ MaxFails \in Nat
ASSUME EnoughFds == Cardinality(Callers) <= MaxFds

VARIABLES
    pc,             \* where each caller is
    mutex,          \* the global mutex: its owner or NoOne
    InitSSLFlag,    \* OpenSSL was initialised
    inits,          \* history: how often
    fds,            \* descriptors open for calls
    ssl,            \* the pointer ssl: "raw" (never set), "live"
    wrote,          \* SSL_write: "no", "want" (timed out once), "yes", "failed"
    peer,           \* the peer of each call
    result,         \* what the last call returned: "" or a body
    fails,          \* history: connections that failed
    alive           \* FALSE: the process has ended

vars == <<pc, mutex, InitSSLFlag, inits, fds, ssl, wrote, peer, result, fails, alive>>

Pcs == {"idle", "connect", "lock", "flag", "params", "unlock", "env", "ssl", "write",
        "read", "again", "destroy"}
Peers == {"silent", "answered", "answered_cut", "closed", "broken"}
Bodies == {"", "whole", "cut"}

Init ==
    /\ pc = [t \in Callers |-> "idle"]
    /\ mutex = NoOne
    /\ InitSSLFlag = 0
    /\ inits = 0
    /\ fds = 0
    /\ ssl = [t \in Callers |-> "raw"]
    /\ wrote = [t \in Callers |-> "no"]
    /\ peer = [t \in Callers |-> "silent"]
    /\ result = [t \in Callers |-> ""]
    /\ fails = 0
    /\ alive = TRUE

At(t, l) == alive /\ pc[t] = l
Goto(t, l) == pc' = [pc EXCEPT ![t] = l]
Set(f, t, v) == f' = [f EXCEPT ![t] = v]

-----------------------------------------------------------------------------
(* new CTcpSocket: without a descriptor the constructor throws, and nothing   *)
(* catches it.                                                                *)
Call(t) ==
    /\ At(t, "idle")
    /\ Set(result, t, "")
    /\ Set(ssl, t, "raw")
    /\ Set(wrote, t, "no")
    /\ Set(peer, t, "silent")
    /\ IF fds < MaxFds
       THEN fds' = fds + 1 /\ Goto(t, "connect") /\ UNCHANGED alive
       ELSE alive' = FALSE /\ UNCHANGED <<fds, pc>>
    /\ UNCHANGED <<mutex, InitSSLFlag, inits, fails>>

(* TcpConnect: 0, or -1 for every failure (a timeout of one second too). *)
TcpConnect(t) ==
    /\ At(t, "connect")
    /\ Goto(t, "lock")
    /\ UNCHANGED <<mutex, InitSSLFlag, inits, fds, ssl, wrote, peer, result, fails, alive>>

(* The connection fails: TcpSslDestroy on an ssl that was never set may end    *)
(* the process; TcpClose closes nothing, for m_bConnect is FALSE, and the      *)
(* object is not deleted: the descriptor stays open.                           *)
ConnectFails(t) ==
    /\ At(t, "connect")
    /\ fails < MaxFails
    /\ fails' = fails + 1
    /\ Goto(t, "idle")
    /\ alive' \in BOOLEAN
    /\ UNCHANGED <<mutex, InitSSLFlag, inits, fds, ssl, wrote, peer, result>>

(* Faulty variant: the flag is tested without the mutex. *)
NoLock(t) ==
    /\ At(t, "lock")
    /\ Goto(t, "flag")
    /\ UNCHANGED <<mutex, InitSSLFlag, inits, fds, ssl, wrote, peer, result, fails, alive>>

(* pthread_mutex_lock(&mutex), one mutex for all callers. *)
Lock(t) ==
    /\ At(t, "lock")
    /\ mutex = NoOne
    /\ mutex' = t
    /\ Goto(t, "flag")
    /\ UNCHANGED <<InitSSLFlag, inits, fds, ssl, wrote, peer, result, fails, alive>>

CheckFlag(t) ==
    /\ At(t, "flag")
    /\ Goto(t, IF InitSSLFlag = 0 THEN "params" ELSE "unlock")
    /\ UNCHANGED <<mutex, InitSSLFlag, inits, fds, ssl, wrote, peer, result, fails, alive>>

(* TcpSslInitParams; InitSSLFlag = 1. *)
InitParams(t) ==
    /\ At(t, "params")
    /\ inits' = inits + 1
    /\ InitSSLFlag' = 1
    /\ Goto(t, "unlock")
    /\ UNCHANGED <<mutex, fds, ssl, wrote, peer, result, fails, alive>>

(* Faulty variant: the mutex is not released. *)
NoUnlock(t) ==
    /\ At(t, "unlock")
    /\ Goto(t, "env")
    /\ UNCHANGED <<mutex, InitSSLFlag, inits, fds, ssl, wrote, peer, result, fails, alive>>

Unlock(t) ==
    /\ At(t, "unlock")
    /\ mutex' = NoOne
    /\ Goto(t, "env")
    /\ UNCHANGED <<InitSSLFlag, inits, fds, ssl, wrote, peer, result, fails, alive>>

(* TcpSslInitEnv: the SSL objects of this call. *)
InitEnv(t) ==
    /\ At(t, "env")
    /\ Set(ssl, t, "live")
    /\ Goto(t, "ssl")
    /\ UNCHANGED <<mutex, InitSSLFlag, inits, fds, wrote, peer, result, fails, alive>>

(* TcpSslConnect: the handshake, or false (within the timeout). *)
SslConnect(t) ==
    /\ At(t, "ssl")
    /\ Goto(t, "write") \/ Goto(t, "destroy")
    /\ UNCHANGED <<mutex, InitSSLFlag, inits, fds, ssl, wrote, peer, result, fails, alive>>

(* TcpSslWriteLen: all is sent; or SSL_write times out, is retried with the    *)
(* buffer one byte before (nwrite is -1) and is refused; or it fails at once.  *)
(* The caller tests the result against 0 only, and -1 passes.                  *)
SslWrite(t) ==
    /\ At(t, "write")
    /\ \/ wrote[t] = "no" /\ Set(wrote, t, "yes") /\ Goto(t, "read")
       \/ wrote[t] = "no" /\ Set(wrote, t, "want") /\ UNCHANGED pc
       \/ Set(wrote, t, "failed") /\ Goto(t, "read")
    /\ UNCHANGED <<mutex, InitSSLFlag, inits, fds, ssl, peer, result, fails, alive>>

(* Faulty variant: the descriptor of a call without an answer is not closed. *)
LeakingRead(t) ==
    /\ At(t, "read")
    /\ \/ /\ peer[t] = "answered"
          /\ Set(result, t, "whole")
          /\ Goto(t, "destroy")
       \/ /\ peer[t] = "broken"
          /\ Goto(t, "idle")
          /\ UNCHANGED result
    /\ UNCHANGED <<mutex, InitSSLFlag, inits, fds, ssl, wrote, peer, fails, alive>>

(* TcpSslReadLen, one SSL_read: data ends the loop (nleft = 0), also when it    *)
(* is the first record or the first chunk of several; a broken connection or    *)
(* a failed write before ends it with -1; a timeout (WANT_READ) and an orderly  *)
(* close (ZERO_RETURN, nread = 0) leave nleft as it is.                         *)
SslRead(t) ==
    /\ At(t, "read")
    /\ \/ /\ peer[t] \in {"answered", "answered_cut"}
          /\ Set(result, t, IF peer[t] = "answered" THEN "whole" ELSE "cut")
          /\ Goto(t, "destroy")
       \/ /\ peer[t] = "broken" \/ wrote[t] = "failed"
          /\ Goto(t, "destroy")
          /\ UNCHANGED result
       \/ /\ peer[t] \in {"silent", "closed"}
          /\ wrote[t] # "failed"
          /\ Goto(t, "again")
          /\ UNCHANGED result
    /\ UNCHANGED <<mutex, InitSSLFlag, inits, fds, ssl, wrote, peer, fails, alive>>

(* while (nleft > 0) *)
SslReadAgain(t) ==
    /\ At(t, "again")
    /\ Goto(t, "read")
    /\ UNCHANGED <<mutex, InitSSLFlag, inits, fds, ssl, wrote, peer, result, fails, alive>>

(* TcpSslDestroy of a connected socket closes it; the object stays allocated. *)
SslDestroy(t) ==
    /\ At(t, "destroy")
    /\ fds' = fds - 1
    /\ Set(ssl, t, "raw")
    /\ Goto(t, "idle")
    /\ UNCHANGED <<mutex, InitSSLFlag, inits, wrote, peer, result, fails, alive>>

(* DataHub or the network. *)
PeerActs(t) ==
    /\ alive
    /\ pc[t] \in {"read", "again"}
    /\ peer[t] = "silent"
    /\ \/ wrote[t] = "yes" /\ \E p \in {"answered", "answered_cut", "closed"} : Set(peer, t, p)
       \/ Set(peer, t, "broken")
    /\ UNCHANGED <<pc, mutex, InitSSLFlag, inits, fds, ssl, wrote, result, fails, alive>>

Step(t) ==
    \/ TcpConnect(t)
    \/ ConnectFails(t)
    \/ Lock(t)
    \/ CheckFlag(t)
    \/ InitParams(t)
    \/ Unlock(t)
    \/ InitEnv(t)
    \/ SslConnect(t)
    \/ SslWrite(t)
    \/ SslRead(t)
    \/ SslReadAgain(t)
    \/ SslDestroy(t)

Next == \E t \in Callers : Call(t) \/ Step(t) \/ PeerActs(t)

Spec == Init /\ [][Next]_vars

(* The threads are scheduled, a waiting thread gets the mutex in the end.     *)
(* Nothing is assumed of the peer.                                            *)
FairSpec == Spec /\ \A t \in Callers : WF_vars(Step(t)) /\ SF_vars(Lock(t))

-----------------------------------------------------------------------------
(* Types of all variables. *)
TypeOK ==
    /\ pc \in [Callers -> Pcs]
    /\ mutex \in Callers \union {NoOne}
    /\ InitSSLFlag \in {0, 1}
    /\ inits \in Nat
    /\ fds \in 0 .. MaxFds
    /\ ssl \in [Callers -> {"raw", "live"}]
    /\ wrote \in [Callers -> {"no", "want", "yes", "failed"}]
    /\ peer \in [Callers -> Peers]
    /\ result \in [Callers -> Bodies]
    /\ fails \in Nat
    /\ alive \in BOOLEAN

Calling == {t \in Callers : pc[t] # "idle"}

Prepared(t) == pc[t] \in {"unlock", "env", "ssl", "write", "read", "again", "destroy"}

(* TcpSslInitParams runs once in the process, and no call makes SSL objects   *)
(* before it has: the flag is tested and set under the mutex, by the workers  *)
(* and by the update thread alike.                                            *)
SslReady ==
    /\ inits <= 1
    /\ \A t \in Callers : Prepared(t) => inits = 1

(* Every descriptor opened for DataHub is that of a call in progress or was   *)
(* lost to a connection that failed: all other paths close it.                *)
FdsAccounted == fds = Cardinality(Calling) + fails

(* As long as no connection to DataHub has failed, no call ends the process:  *)
(* TcpSslDestroy only sees SSL objects that exist, and there are descriptors. *)
OnlyFailuresKill == fails = 0 => alive

Unanswered(t) == pc[t] \in {"read", "again"} /\ peer[t] \in {"silent", "closed"}

(* A call returns once DataHub answers or the connection breaks, whoever      *)
(* holds the mutex meanwhile.                                                 *)
CallReturns ==
    \A t \in Callers :
        pc[t] # "idle" ~> (pc[t] = "idle" \/ ~alive \/ Unanswered(t))

(* ... and when the peer closes the connection: "nread=0;//ret 0". *)
ClosedCallReturns ==
    \A t \in Callers :
        (pc[t] = "read" /\ peer[t] = "closed") ~> (pc[t] = "idle" \/ ~alive)

=============================================================================
