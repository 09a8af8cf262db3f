------------------------ MODULE DaemonLifecycleProofs -------------------------
(* Machine-checked proofs about DaemonStartup and DaemonLifecycle: what the  *)
(* daemons guarantee by themselves they guarantee whatever the clients do,   *)
(* and what the clients guarantee to the daemons follows from it.            *)
EXTENDS DaemonLifecycle, TLAPS

-----------------------------------------------------------------------------
(* The daemons by themselves. *)

(* From acquire_lock's open to the end of start() a lock file is open. *)
OpenFile == \A d \in Daemons : pc[d] \in Flocked \cup {"flock"} => fd[d] \in Inodes

(* Two processes past their flock hold it on two files. *)
OneHolderPerFile ==
  \A d, e \in Daemons :
    pc[d] \in Flocked /\ pc[e] \in Flocked /\ fd[d] = fd[e] => d = e

(* From the confirmation of the lock until its deletion, the path names the  *)
(* file that is locked.                                                      *)
PathIsLocked == \A d \in Daemons : pc[d] \in Confirmed => fd[d] = lockPath

LockInv == StartupTypeOK /\ OpenFile /\ OneHolderPerFile /\ PathIsLocked
IInv == LockInv /\ ServerKeepsSocket /\ RecordedOrMissing

USE DEF Flocked, Confirmed, Alive, At, Goto, Exit, files

-----------------------------------------------------------------------------
LEMMA TypeInit == StartupInit => StartupTypeOK
BY StartupAssumption DEF StartupInit, StartupTypeOK, PC

LEMMA TypeNext == StartupTypeOK /\ [StartupNext]_startup => StartupTypeOK'
<1> SUFFICES ASSUME StartupTypeOK, [StartupNext]_startup PROVE StartupTypeOK'
  OBVIOUS
<1> USE StartupAssumption DEF StartupTypeOK, PC
<1>1. CASE UNCHANGED startup
  BY <1>1 DEF startup
<1>2. ASSUME NEW d \in Daemons, DaemonStep(d) PROVE StartupTypeOK'
  <2>1. CASE OpenLock(d)
    BY <2>1 DEF OpenLock
  <2>2. CASE TakeFlock(d)
    BY <2>2 DEF TakeFlock
  <2>3. CASE LoseRace(d)
    BY <2>3 DEF LoseRace
  <2>4. CASE ConfirmLock(d)
    BY <2>4 DEF ConfirmLock
  <2>5. CASE LockReplaced(d)
    <3>1. tries' \in [Daemons -> 0..LockTries]
      <4>1. tries[d] \in 0..LockTries /\ 0 \in 0..LockTries
        OBVIOUS
      <4>2. tries[d] + 1 < LockTries => tries[d] + 1 \in 0..LockTries
        BY <4>1
      <4>3. \E n \in 0..LockTries : tries' = [tries EXCEPT ![d] = n]
        BY <2>5, <4>1, <4>2 DEF LockReplaced
      <4> QED
        BY <4>3
    <3>2. UNCHANGED <<said, lockPath, sock, pidFile>>
      BY <2>5 DEF LockReplaced
    <3>3. /\ pc' \in [Daemons -> PC]
          /\ fd' \in [Daemons -> Inodes \cup {NoInode}]
          /\ running' \in [Daemons -> BOOLEAN]
          /\ hung' \subseteq Daemons
      BY <2>5 DEF LockReplaced
    <3> QED
      BY <3>1, <3>2, <3>3
  <2>6. CASE ClearSocket(d)
    BY <2>6 DEF ClearSocket
  <2>7. CASE Bind(d)
    <3>1. /\ \E l \in PC : pc' = [pc EXCEPT ![d] = l]
          /\ sock' \in {sock, d}
          /\ fd' \in {fd, [fd EXCEPT ![d] = NoInode]}
          /\ tries' \in {tries, [tries EXCEPT ![d] = 0]}
          /\ running' \in {running, [running EXCEPT ![d] = FALSE]}
          /\ hung' \subseteq hung
          /\ UNCHANGED <<said, lockPath, pidFile>>
      BY <2>7 DEF Bind
    <3>2. pc' \in [Daemons -> PC]
      BY <3>1
    <3>3. fd' \in [Daemons -> Inodes \cup {NoInode}] /\ running' \in [Daemons -> BOOLEAN]
      BY <3>1
    <3>4. tries' \in [Daemons -> 0..LockTries]
      BY <3>1
    <3> QED
      BY <3>1, <3>2, <3>3, <3>4
  <2>8. CASE Announce(d)
    BY <2>8 DEF Announce
  <2>9. CASE RemoveSocket(d)
    BY <2>9 DEF RemoveSocket
  <2>10. CASE RemoveLock(d)
    BY <2>10 DEF RemoveLock
  <2>11. CASE DropLock(d)
    BY <2>11 DEF DropLock
  <2>12. CASE ReadPidFile(d)
    <3>1. /\ \E l \in PC : pc' = [pc EXCEPT ![d] = l]
          /\ fd' \in {fd, [fd EXCEPT ![d] = NoInode]}
          /\ tries' \in {tries, [tries EXCEPT ![d] = 0]}
          /\ running' \in {running, [running EXCEPT ![d] = FALSE]}
          /\ hung' \subseteq hung
          /\ UNCHANGED <<said, files>>
      BY <2>12 DEF ReadPidFile
    <3>2. pc' \in [Daemons -> PC]
      BY <3>1
    <3>3. fd' \in [Daemons -> Inodes \cup {NoInode}] /\ running' \in [Daemons -> BOOLEAN]
      BY <3>1
    <3>4. tries' \in [Daemons -> 0..LockTries]
      BY <3>1
    <3> QED
      BY <3>1, <3>2, <3>3, <3>4
  <2>13. CASE RemovePidFile(d)
    BY <2>13 DEF RemovePidFile
  <2> QED
    BY <1>2, <2>1, <2>2, <2>3, <2>4, <2>5, <2>6, <2>7, <2>8, <2>9, <2>10, <2>11, <2>12, <2>13
    DEF DaemonStep
<1>3. ASSUME NEW d \in Daemons, Spawn(d) PROVE StartupTypeOK'
  BY <1>3 DEF Spawn
<1>4. ASSUME NEW d \in Daemons, StopRunning(d) \/ Hang(d) PROVE StartupTypeOK'
  BY <1>4 DEF StopRunning, Hang
<1>5. ASSUME NEW d \in Daemons, Die(d) PROVE StartupTypeOK'
  BY <1>5 DEF Die
<1> QED
  BY <1>1, <1>2, <1>3, <1>4, <1>5 DEF StartupNext

(* Types of the daemons' variables, whatever the clients of DaemonLifecycle  *)
(* do in between.                                                            *)
THEOREM StartupTypeTheorem == StartupSpec => []StartupTypeOK
BY TypeInit, TypeNext, PTL DEF StartupSpec

-----------------------------------------------------------------------------
(* Two confirmed processes would have locked the one file at the path. *)
AtMostOneConfirmed ==
  \A d, e \in Daemons : pc[d] \in Confirmed /\ pc[e] \in Confirmed => d = e

LEMMA AtMostOne == LockInv => AtMostOneConfirmed
BY DEF LockInv, OneHolderPerFile, PathIsLocked, AtMostOneConfirmed

LEMMA LockInit == StartupInit => LockInv
BY TypeInit DEF StartupInit, LockInv, OpenFile, OneHolderPerFile, PathIsLocked

LEMMA LockNext == LockInv /\ [StartupNext]_startup => LockInv'
<1> SUFFICES ASSUME LockInv, [StartupNext]_startup PROVE LockInv'
  OBVIOUS
<1> DEFINE Goal == OpenFile' /\ OneHolderPerFile' /\ PathIsLocked'
<1> USE StartupAssumption DEF OpenFile, OneHolderPerFile, PathIsLocked
<1>0. StartupTypeOK /\ StartupTypeOK' /\ OpenFile /\ OneHolderPerFile /\ PathIsLocked
  BY TypeNext DEF LockInv
<1>t. /\ pc \in [Daemons -> PC] /\ fd \in [Daemons -> Inodes \cup {NoInode}]
      /\ lockPath \in Inodes \cup {NoInode}
  BY <1>0 DEF StartupTypeOK
<1>1. ASSUME UNCHANGED startup PROVE Goal
  BY <1>0, <1>1 DEF startup
<1>2. ASSUME NEW d \in Daemons, OpenLock(d) PROVE Goal
  <2>1. PICK i \in Inodes :
          /\ IF lockPath = NoInode THEN \A e \in Daemons : fd[e] # i ELSE i = lockPath
          /\ lockPath' = i
          /\ fd' = [fd EXCEPT ![d] = i]
    BY <1>2 DEF OpenLock
  <2>2. pc' = [pc EXCEPT ![d] = "flock"]
    BY <1>2 DEF OpenLock
  <2>3. ASSUME NEW e \in Daemons, pc'[e] \in Confirmed PROVE fd'[e] = lockPath'
    <3>1. e # d /\ pc[e] \in Confirmed
      BY <1>t, <2>2, <2>3
    <3>2. fd[e] = lockPath /\ fd[e] \in Inodes
      BY <1>0, <3>1
    <3>3. fd'[e] = fd[e]
      BY <1>t, <2>1, <3>1
    <3> QED
      BY <2>1, <3>2, <3>3
  <2>4. OpenFile' /\ OneHolderPerFile'
    BY <1>0, <1>t, <2>1, <2>2
  <2> QED
    BY <2>3, <2>4
<1>3. ASSUME NEW d \in Daemons, TakeFlock(d) PROVE Goal
  BY <1>0, <1>t, <1>3 DEF TakeFlock, LockHeld
<1>4. ASSUME NEW d \in Daemons, ConfirmLock(d) PROVE Goal
  BY <1>0, <1>t, <1>4 DEF ConfirmLock
<1>5. ASSUME NEW d \in Daemons, LoseRace(d) \/ Die(d) \/ ReadPidFile(d) \/ RemovePidFile(d)
      PROVE Goal
  <2>1. lockPath' = lockPath
    BY <1>5 DEF LoseRace, Die, ReadPidFile, RemovePidFile
  <2>2. \/ pc' = [pc EXCEPT ![d] = "dead"] /\ fd' = [fd EXCEPT ![d] = NoInode]
        \/ pc' = [pc EXCEPT ![d] = "rmpid"] /\ fd' = fd
    BY <1>5 DEF LoseRace, Die, ReadPidFile, RemovePidFile
  <2> QED
    BY <1>0, <1>t, <2>1, <2>2
<1>6. ASSUME NEW d \in Daemons, LockReplaced(d) \/ Bind(d) PROVE Goal
  <2>1. lockPath' = lockPath
    BY <1>6 DEF LockReplaced, Bind
  <2>2. \/ pc' = [pc EXCEPT ![d] = "dead"] /\ fd' = [fd EXCEPT ![d] = NoInode]
        \/ pc' = [pc EXCEPT ![d] = "open"] /\ fd' = [fd EXCEPT ![d] = NoInode]
        \/ pc[d] = "bind" /\ pc' = [pc EXCEPT ![d] = "announce"] /\ fd' = fd
    BY <1>6 DEF LockReplaced, Bind
  <2> QED
    BY <1>0, <1>t, <2>1, <2>2
<1>7. ASSUME NEW d \in Daemons, ClearSocket(d) \/ Announce(d) \/ RemoveSocket(d) PROVE Goal
  <2>1. lockPath' = lockPath /\ fd' = fd
    BY <1>7 DEF ClearSocket, Announce, RemoveSocket
  <2>2. pc[d] \in Confirmed /\ \E l \in Confirmed : pc' = [pc EXCEPT ![d] = l]
    BY <1>7 DEF ClearSocket, Announce, RemoveSocket
  <2> QED
    BY <1>0, <1>t, <2>1, <2>2
<1>8. ASSUME NEW d \in Daemons, RemoveLock(d) PROVE Goal
  <2>1. \A e \in Daemons : pc[e] \in Confirmed => e = d
    BY <1>8, AtMostOne DEF RemoveLock, AtMostOneConfirmed
  <2> QED
    BY <1>0, <1>t, <1>8, <2>1 DEF RemoveLock
<1>9. ASSUME NEW d \in Daemons, DropLock(d) \/ Spawn(d) PROVE Goal
  <2>1. lockPath' = lockPath
    BY <1>9 DEF DropLock, Spawn
  <2>2. \/ pc' = [pc EXCEPT ![d] = "readpid"] /\ fd' = [fd EXCEPT ![d] = NoInode]
        \/ pc' = [pc EXCEPT ![d] = "open"] /\ fd' = fd
    BY <1>9 DEF DropLock, Spawn
  <2> QED
    BY <1>0, <1>t, <2>1, <2>2
<1>10. ASSUME NEW d \in Daemons, StopRunning(d) \/ Hang(d) PROVE Goal
  BY <1>0, <1>10 DEF StopRunning, Hang
<1> HIDE DEF Goal
<1>11. Goal
  BY <1>1, <1>2, <1>3, <1>4, <1>5, <1>6, <1>7, <1>8, <1>9, <1>10 DEF StartupNext, DaemonStep
<1> QED
  BY <1>0, <1>11 DEF LockInv, Goal

LEMMA LockAlways == StartupSpec => []LockInv
BY LockInit, LockNext, PTL DEF StartupSpec

-----------------------------------------------------------------------------
(* Only a confirmed process changes what the socket path and, while another  *)
(* serves, the PID file say.                                                 *)
LEMMA FilesInit == StartupInit => ServerKeepsSocket /\ RecordedOrMissing
BY DEF StartupInit, ServerKeepsSocket, RecordedOrMissing

LEMMA FilesNext == IInv /\ [StartupNext]_startup => ServerKeepsSocket' /\ RecordedOrMissing'
<1> SUFFICES ASSUME IInv, [StartupNext]_startup PROVE ServerKeepsSocket' /\ RecordedOrMissing'
  OBVIOUS
<1> USE DEF ServerKeepsSocket, RecordedOrMissing
<1>0. ServerKeepsSocket /\ RecordedOrMissing /\ pc \in [Daemons -> PC]
  BY DEF IInv, LockInv, StartupTypeOK
<1>a. \A d, e \in Daemons : pc[d] \in Confirmed /\ pc[e] \in Confirmed => d = e
  BY AtMostOne DEF IInv, AtMostOneConfirmed
<1>1. CASE UNCHANGED startup
  BY <1>0, <1>1 DEF startup
<1>2. ASSUME NEW d \in Daemons,
             OpenLock(d) \/ TakeFlock(d) \/ ConfirmLock(d) \/ DropLock(d) \/ Spawn(d)
      PROVE  ServerKeepsSocket' /\ RecordedOrMissing'
  <2>1. sock' = sock /\ pidFile' = pidFile
    BY <1>2 DEF OpenLock, TakeFlock, ConfirmLock, DropLock, Spawn
  <2>2. \E l \in {"flock", "stat", "clear", "readpid", "open"} : pc' = [pc EXCEPT ![d] = l]
    BY <1>2 DEF OpenLock, TakeFlock, ConfirmLock, DropLock, Spawn
  <2> QED
    BY <1>0, <2>1, <2>2
<1>3. ASSUME NEW d \in Daemons,
             LoseRace(d) \/ LockReplaced(d) \/ ReadPidFile(d) \/ RemovePidFile(d) \/ Die(d)
      PROVE  ServerKeepsSocket' /\ RecordedOrMissing'
  <2>1. sock' = sock /\ pidFile' \in {pidFile, NoDaemon}
    BY <1>3 DEF LoseRace, LockReplaced, ReadPidFile, RemovePidFile, Die
  <2>2. \E l \in {"dead", "open", "rmpid"} : pc' = [pc EXCEPT ![d] = l]
    BY <1>3 DEF LoseRace, LockReplaced, ReadPidFile, RemovePidFile, Die
  <2> QED
    BY <1>0, <2>1, <2>2
<1>4. ASSUME NEW d \in Daemons,
             ClearSocket(d) \/ Bind(d) \/ Announce(d) \/ RemoveSocket(d) \/ RemoveLock(d)
      PROVE  ServerKeepsSocket' /\ RecordedOrMissing'
  <2>1. pc[d] \in Confirmed
    BY <1>4 DEF ClearSocket, Bind, Announce, RemoveSocket, RemoveLock
  <2>2. \A e \in Daemons \ {d} : pc'[e] = pc[e] /\ pc[e] \notin Confirmed
    BY <1>0, <1>4, <1>a, <2>1 DEF ClearSocket, Bind, Announce, RemoveSocket, RemoveLock
  <2>3. /\ pc'[d] \in {"announce", "serve"} => sock' = d
        /\ pc'[d] = "serve" => pidFile' = d
    BY <1>0, <1>4 DEF ClearSocket, Bind, Announce, RemoveSocket, RemoveLock
  <2> QED
    BY <2>2, <2>3
<1>5. ASSUME NEW d \in Daemons, StopRunning(d) \/ Hang(d)
      PROVE  ServerKeepsSocket' /\ RecordedOrMissing'
  BY <1>0, <1>5 DEF StopRunning, Hang
<1> QED
  BY <1>1, <1>2, <1>3, <1>4, <1>5 DEF StartupNext, DaemonStep

LEMMA Invariance == StartupSpec => []IInv
<1>1. StartupInit => IInv
  BY LockInit, FilesInit DEF IInv
<1>2. IInv /\ [StartupNext]_startup => IInv'
  BY LockNext, FilesNext DEF IInv
<1> QED
  BY <1>1, <1>2, PTL DEF StartupSpec

(* However many daemons are spawned, killed and leave, the one that accepts  *)
(* clients is the one at the socket path.                                    *)
THEOREM SocketTheorem == StartupSpec => []ServerKeepsSocket
<1>1. IInv => ServerKeepsSocket
  BY DEF IInv
<1> QED
  BY <1>1, Invariance, PTL

(* The PID file names no other process than the serving daemon. *)
THEOREM PidFileTheorem == StartupSpec => []RecordedOrMissing
<1>1. IInv => RecordedOrMissing
  BY DEF IInv
<1> QED
  BY <1>1, Invariance, PTL

-----------------------------------------------------------------------------
(* A step moves one process. *)
LEMMA OneMoves ==
  ASSUME pc \in [Daemons -> PC], [StartupNext]_startup, Daemons # {}
  PROVE  \E d \in Daemons : \A e \in Daemons \ {d} : pc'[e] = pc[e]
<1>1. CASE UNCHANGED startup
  BY <1>1 DEF startup
<1>2. ASSUME NEW d \in Daemons,
             DaemonStep(d) \/ Spawn(d) \/ StopRunning(d) \/ Hang(d) \/ Die(d)
      PROVE  \A e \in Daemons \ {d} : pc'[e] = pc[e]
  <2>1. \/ pc' = pc
        \/ \E l \in PC : pc' = [pc EXCEPT ![d] = l]
    BY <1>2 DEF DaemonStep, Spawn, StopRunning, Hang, Die, OpenLock, TakeFlock, LoseRace,
       ConfirmLock, LockReplaced, ClearSocket, Bind, Announce, RemoveSocket, RemoveLock,
       DropLock, ReadPidFile, RemovePidFile, PC
  <2> QED
    BY <2>1
<1> QED
  BY <1>1, <1>2 DEF StartupNext

(* Every step elects a server where there was none, retires the one there    *)
(* is, or leaves it: two processes would have to move to change the server.  *)
LEMMA Simulates ==
  LockInv /\ LockInv' /\ [StartupNext]_startup => [Elected!Next]_Servers
<1> SUFFICES ASSUME LockInv, LockInv', [StartupNext]_startup PROVE [Elected!Next]_Servers
  OBVIOUS
<1>0. AtMostOneConfirmed /\ pc \in [Daemons -> PC]
  BY AtMostOne DEF LockInv, StartupTypeOK
<1>0p. AtMostOneConfirmed'
  BY AtMostOne, PTL
<1>1. ASSUME NEW d \in Daemons, pc[d] \in Confirmed, NEW e \in Daemons, pc'[e] \in Confirmed
      PROVE  d = e
  <2>1. PICK x \in Daemons : \A y \in Daemons \ {x} : pc'[y] = pc[y]
    BY <1>0, OneMoves
  <2>2. pc'[d] = pc[d] \/ pc'[e] = pc[e] \/ d = e
    BY <2>1
  <2> QED
    BY <1>0, <1>0p, <1>1, <2>2 DEF AtMostOneConfirmed
<1>2. CASE \E d \in Daemons : pc[d] \in Confirmed
  <2>1. PICK d \in Daemons : pc[d] \in Confirmed
    BY <1>2
  <2>2. Servers = {d}
    BY <1>0, <2>1 DEF Servers, AtMostOneConfirmed
  <2>3. CASE \E e \in Daemons : pc'[e] \in Confirmed
    <3>1. pc'[d] \in Confirmed
      BY <1>1, <2>1, <2>3
    <3>2. Servers' = {d}
      BY <1>0p, <3>1 DEF Servers, AtMostOneConfirmed
    <3> QED
      BY <2>2, <3>2
  <2>4. CASE \A e \in Daemons : pc'[e] \notin Confirmed
    <3>1. Servers' = {}
      BY <2>4 DEF Servers
    <3> QED
      BY <2>2, <3>1 DEF Elected!Next, Elected!Retire
  <2> QED
    BY <2>3, <2>4
<1>3. CASE \A d \in Daemons : pc[d] \notin Confirmed
  <2>1. Servers = {}
    BY <1>3 DEF Servers
  <2>2. Servers' = {} \/ \E e \in Daemons : Servers' = {e}
    BY <1>0p DEF Servers, AtMostOneConfirmed
  <2> QED
    BY <2>1, <2>2 DEF Elected!Next, Elected!Elect
<1> QED
  BY <1>2, <1>3

(* The start-up lock elects one server at a time: the daemons implement      *)
(* OneServer.                                                                *)
THEOREM ElectionTheorem == StartupSpec => ElectsOne
<1>1. StartupInit => Elected!Init
  <2> SUFFICES ASSUME StartupInit PROVE Servers = {}
    BY DEF Elected!Init
  <2>1. ASSUME NEW d \in Daemons PROVE pc[d] \notin Confirmed
    <3>1. pc[d] = "dead"
      BY DEF StartupInit
    <3> QED
      BY <3>1
  <2> QED
    BY <2>1 DEF Servers
<1> QED
  BY <1>1, LockAlways, Simulates, PTL DEF StartupSpec, Elected!Spec, ElectsOne

HIDE DEF Flocked, Confirmed, Alive, At, Goto, Exit, files

-----------------------------------------------------------------------------
(* Daemons and clients. *)

(* A client that waits for, asks or kills a daemon has one. *)
HeldInv ==
  \A c \in Clients :
    /\ cpc[c] \in {"verify", "term", "grace"} => target[c] \in Daemons
    /\ cpc[c] \in {"ping", "use", "probeping"} => conn[c] \in Daemons
    /\ cpc[c] = "await" => child[c] \in Daemons
    /\ after[c] \in {"connect", "spawn", "fork"}

(* A recorded daemon has announced itself; a daemon that left its accept     *)
(* loop does not come back under the same pid while a client holds it.       *)
Leaver == {"rmlock", "close", "readpid", "rmpid", "dead"}
Past   == Leaver \cup {"serve"}
LeaverInv ==
  /\ pidFile \in Daemons => pc[pidFile] \in Past
  /\ \A c \in Clients :
       /\ cpc[c] = "verify" => pc[target[c]] \in Past
       /\ cpc[c] \in {"term", "grace"} /\ after[c] = "fork" /\ c \notin missed
            => pc[target[c]] \in Leaver

Inv == TypeOK /\ HeldInv /\ LeaverInv /\ ServerKeepsSocket

USE DEF CAt, To, Aim, Resume, Connected, LivePid, NoListener, ConnectFails, client

-----------------------------------------------------------------------------
(* Every step is a step of the daemons, or leaves them alone. *)
LEMMA StepOfDaemons == TypeOK /\ HeldInv /\ [Next]_vars => [StartupNext]_startup
<1> SUFFICES ASSUME TypeOK, HeldInv, [Next]_vars PROVE [StartupNext]_startup
  OBVIOUS
<1>1. CASE UNCHANGED vars
  BY <1>1 DEF vars
<1>2. ASSUME NEW c \in Clients, ClientStep(c) PROVE [StartupNext]_startup
  <2>1. CASE Terminate(c)
    BY <2>1 DEF Terminate, HeldInv, StartupNext
  <2>2. CASE KillGrace(c)
    BY <2>2 DEF KillGrace, HeldInv, StartupNext
  <2>3. CASE Fork(c)
    BY <2>3 DEF Fork, StartupNext
  <2>4. CASE ~(Terminate(c) \/ KillGrace(c) \/ Fork(c))
    BY <1>2, <2>4 DEF ClientStep, Connect, PingForBuild, SpawnDaemon, VerifyRecorded, AwaitChild,
      SpawnTimeout, Attach, Answered, CallFails, Probe, ProbePing, FindPid
  <2> QED
    BY <2>1, <2>2, <2>3, <2>4
<1>3. ASSUME NEW d \in Daemons, DaemonRuns(d) \/ DaemonFault(d) PROVE [StartupNext]_startup
  BY <1>3 DEF DaemonRuns, DaemonFault, StartupNext
<1> QED
  BY <1>1, <1>2, <1>3 DEF Next

-----------------------------------------------------------------------------
LEMMA HeldInit == Init => TypeOK /\ HeldInv
BY TypeInit, LifecycleAssumption DEF Init, TypeOK, HeldInv, CPC

LEMMA HeldNext ==
  TypeOK /\ HeldInv /\ [Next]_vars => TypeOK' /\ HeldInv'
<1> SUFFICES ASSUME TypeOK, HeldInv, [Next]_vars PROVE TypeOK' /\ HeldInv'
  OBVIOUS
<1>0. StartupTypeOK'
  BY StepOfDaemons, TypeNext DEF TypeOK
<1> DEFINE ClientTypes ==
      /\ cpc \in [Clients -> CPC]
      /\ conn \in [Clients -> Daemons \cup {NoDaemon}]
      /\ target \in [Clients -> Daemons \cup {NoDaemon}]
      /\ after \in [Clients -> CPC]
      /\ child \in [Clients -> Daemons \cup {NoDaemon}]
      /\ attempt \in [Clients -> 0..2]
      /\ retried \in [Clients -> BOOLEAN]
      /\ wants \in [Clients -> Builds]
      /\ build \in [Daemons -> Builds]
      /\ faults \in 0..MaxFaults
      /\ missed \subseteq Clients
<1>1. SUFFICES ClientTypes' /\ HeldInv'
  BY <1>0 DEF TypeOK
<1>2. ClientTypes /\ HeldInv /\ pidFile \in Daemons \cup {NoDaemon}
  BY DEF TypeOK, StartupTypeOK
<1> USE <1>2 DEF HeldInv, CPC
<1>3. CASE UNCHANGED vars
  BY <1>3 DEF vars
<1>4. ASSUME NEW c \in Clients, ClientStep(c) PROVE ClientTypes' /\ HeldInv'
  <2>1. CASE Connect(c)
    BY <2>1, LifecycleAssumption DEF Connect
  <2>2. CASE PingForBuild(c)
    BY <2>2 DEF PingForBuild
  <2>3. CASE Terminate(c)
    BY <2>3, StartupAssumption DEF Terminate
  <2>4. CASE KillGrace(c)
    BY <2>4, StartupAssumption DEF KillGrace
  <2>5. CASE SpawnDaemon(c)
    BY <2>5, StartupAssumption DEF SpawnDaemon
  <2>6. CASE VerifyRecorded(c)
    BY <2>6, LifecycleAssumption DEF VerifyRecorded
  <2>7. CASE Fork(c)
    BY <2>7 DEF Fork
  <2>8. CASE AwaitChild(c)
    BY <2>8 DEF AwaitChild
  <2>9. CASE SpawnTimeout(c)
    BY <2>9, LifecycleAssumption DEF SpawnTimeout
  <2>10. CASE Attach(c)
    BY <2>10, LifecycleAssumption DEF Attach
  <2>11. CASE Answered(c)
    BY <2>11 DEF Answered
  <2>12. CASE CallFails(c)
    BY <2>12, LifecycleAssumption DEF CallFails
  <2>13. CASE Probe(c)
    BY <2>13, LifecycleAssumption DEF Probe
  <2>14. CASE ProbePing(c)
    BY <2>14 DEF ProbePing
  <2>15. CASE FindPid(c)
    BY <2>15, StartupAssumption DEF FindPid
  <2> QED
    BY <1>4, <2>1, <2>2, <2>3, <2>4, <2>5, <2>6, <2>7, <2>8, <2>9, <2>10, <2>11, <2>12, <2>13,
       <2>14, <2>15 DEF ClientStep
<1>5. ASSUME NEW d \in Daemons, DaemonRuns(d) \/ DaemonFault(d) PROVE ClientTypes' /\ HeldInv'
  BY <1>5, LifecycleAssumption DEF DaemonRuns, DaemonFault
<1> QED
  BY <1>3, <1>4, <1>5 DEF Next

(* Types of the composition of clients and daemons. *)
THEOREM TypeTheorem == Spec => []TypeOK
BY HeldInit, HeldNext, PTL DEF Spec

(* What is true of the daemons alone is true of them under any clients. *)
LEMMA Composition == Spec => StartupSpec /\ [](TypeOK /\ HeldInv)
<1>1. Init => StartupInit
  BY DEF Init
<1> QED
  BY <1>1, HeldInit, HeldNext, StepOfDaemons, PTL DEF Spec, StartupSpec

(* A daemon that accepts clients is the one its socket path leads to,        *)
(* whatever the clients kill and spawn.                                      *)
THEOREM ServerReachable == Spec => []ServerKeepsSocket
BY Composition, SocketTheorem, PTL

(* The recorded pid is never another process's while a daemon serves. *)
THEOREM RecordedTheorem == Spec => []RecordedOrMissing
BY Composition, PidFileTheorem, PTL

(* Clients that kill and spawn daemons never make two of them serve. *)
THEOREM OneServerTheorem == Spec => ElectsOne
BY Composition, ElectionTheorem, PTL

-----------------------------------------------------------------------------
USE DEF Alive, At, Goto, Exit, files

(* Daemons only move on: one that has announced itself never announces       *)
(* itself again, and one that left does not serve again.                     *)
LEMMA DaemonsMoveOn ==
  ASSUME StartupTypeOK, NEW d \in Daemons, DaemonStep(d) \/ Hang(d) \/ Die(d) \/ StopRunning(d),
         NEW e \in Daemons
  PROVE  /\ pc[e] \in Past => pc'[e] \in Past
         /\ pc[e] \in Leaver => pc'[e] \in Leaver
<1> USE DEF StartupTypeOK, Past, Leaver
<1>1. CASE OpenLock(d) \/ TakeFlock(d) \/ LoseRace(d) \/ ConfirmLock(d) \/ LockReplaced(d)
  BY <1>1 DEF OpenLock, TakeFlock, LoseRace, ConfirmLock, LockReplaced
<1>2. CASE ClearSocket(d) \/ Bind(d) \/ Announce(d) \/ RemoveSocket(d) \/ RemoveLock(d)
  BY <1>2 DEF ClearSocket, Bind, Announce, RemoveSocket, RemoveLock
<1>3. CASE DropLock(d) \/ ReadPidFile(d) \/ RemovePidFile(d)
  BY <1>3 DEF DropLock, ReadPidFile, RemovePidFile
<1>4. CASE Hang(d) \/ Die(d) \/ StopRunning(d)
  BY <1>4 DEF Hang, Die, StopRunning
<1> QED
  BY <1>1, <1>2, <1>3, <1>4 DEF DaemonStep

(* The PID file names a daemon that has announced itself. *)
LEMMA RecordedMoveOn ==
  ASSUME StartupTypeOK, NEW d \in Daemons,
         pidFile \in Daemons => pc[pidFile] \in Past,
         DaemonStep(d) \/ Hang(d) \/ Die(d) \/ StopRunning(d)
  PROVE  pidFile' \in Daemons => pc'[pidFile'] \in Past
<1>1. CASE Announce(d)
  BY <1>1 DEF Announce, StartupTypeOK, Past
<1>2. CASE RemovePidFile(d)
  BY <1>2, StartupAssumption DEF RemovePidFile
<1>3. CASE ~Announce(d) /\ ~RemovePidFile(d)
  <2>1. pidFile' = pidFile
    BY <1>3 DEF DaemonStep, OpenLock, TakeFlock, LoseRace, ConfirmLock, LockReplaced, ClearSocket,
      Bind, RemoveSocket, RemoveLock, DropLock, ReadPidFile, Hang, Die, StopRunning
  <2> QED
    BY <2>1, DaemonsMoveOn
<1> QED
  BY <1>1, <1>2, <1>3

LEMMA InvInit == Init => Inv
<1> SUFFICES ASSUME Init PROVE LeaverInv /\ ServerKeepsSocket
  BY HeldInit DEF Inv
<1> QED
  BY FilesInit, StartupAssumption DEF Init, StartupInit, LeaverInv

LEMMA LeaverNext ==
  Inv /\ [Next]_vars => LeaverInv'
<1> SUFFICES ASSUME Inv, [Next]_vars PROVE LeaverInv'
  OBVIOUS
<1>1. /\ StartupTypeOK /\ HeldInv /\ LeaverInv /\ ServerKeepsSocket
      /\ cpc \in [Clients -> CPC] /\ after \in [Clients -> CPC]
      /\ target \in [Clients -> Daemons \cup {NoDaemon}]
  BY DEF Inv, TypeOK
<1>2. CASE UNCHANGED vars
  BY <1>1, <1>2 DEF vars, startup, LeaverInv
<1>3. ASSUME NEW d \in Daemons, DaemonStep(d) \/ Hang(d) \/ Die(d) \/ StopRunning(d),
             UNCHANGED <<cpc, target, after, missed>>
      PROVE  LeaverInv'
  <2>1. pidFile' \in Daemons => pc'[pidFile'] \in Past
    BY <1>1, <1>3, RecordedMoveOn DEF LeaverInv
  <2>2. \A e \in Daemons : /\ pc[e] \in Past => pc'[e] \in Past
                           /\ pc[e] \in Leaver => pc'[e] \in Leaver
    BY <1>1, <1>3, DaemonsMoveOn
  <2> QED
    BY <1>1, <1>3, <2>1, <2>2 DEF LeaverInv, HeldInv
<1>4. ASSUME NEW c \in Clients, ClientStep(c) PROVE LeaverInv'
  <2> USE <1>1 DEF LeaverInv, HeldInv
  <2>1. CASE Terminate(c)
    <3>1. pidFile' = pidFile /\ pc' = pc /\ missed' = missed
      BY <2>1 DEF Terminate, StopRunning, startup, files
    <3>2. \A e \in Clients : /\ cpc'[e] = "verify" => cpc[e] = "verify" /\ target'[e] = target[e]
                             /\ cpc'[e] \in {"term", "grace"} =>
                                  /\ cpc[e] \in {"term", "grace"}
                                  /\ target'[e] = target[e] /\ after'[e] = after[e]
      BY <2>1 DEF Terminate
    <3> QED
      BY <3>1, <3>2
  <2>2. CASE KillGrace(c)
    <3>1. /\ pidFile' \in Daemons => pc'[pidFile'] \in Past
          /\ missed' = missed
          /\ \A e \in Daemons : /\ pc[e] \in Past => pc'[e] \in Past
                                /\ pc[e] \in Leaver => pc'[e] \in Leaver
      <4>1. CASE Die(target[c])
        BY <2>2, <4>1, DaemonsMoveOn, RecordedMoveOn DEF KillGrace
      <4>2. CASE UNCHANGED startup
        BY <1>1, <2>2, <4>2 DEF KillGrace, startup, LeaverInv
      <4> QED
        BY <2>2, <4>1, <4>2 DEF KillGrace
    <3>2. \A e \in Clients : /\ cpc'[e] = "verify" => cpc[e] = "verify" /\ target'[e] = target[e]
                             /\ cpc'[e] \in {"term", "grace"} =>
                                  /\ cpc[e] \in {"term", "grace"}
                                  /\ target'[e] = target[e] /\ after'[e] = after[e]
      BY <2>2 DEF KillGrace
    <3> QED
      BY <3>1, <3>2
  <2>3. CASE SpawnDaemon(c)
    BY <2>3, StartupAssumption DEF SpawnDaemon, startup, StartupTypeOK
  <2>4. CASE VerifyRecorded(c)
    <3>1. CASE NoListener
      <4>1. pc[target[c]] \in Leaver
        BY <2>4, <3>1 DEF VerifyRecorded, ServerKeepsSocket, Reachable, Listening, Past
      <4> QED
        BY <2>4, <4>1 DEF VerifyRecorded, startup
    <3>2. CASE ~NoListener
      BY <2>4, <3>2 DEF VerifyRecorded, startup
    <3> QED
      BY <3>1, <3>2
  <2>5. CASE Fork(c)
    <3>1. PICK d \in Daemons : Free(d) /\ Spawn(d)
      BY <2>5 DEF Fork
    <3>2. /\ pidFile' = pidFile /\ pidFile # d
          /\ pc' = [pc EXCEPT ![d] = "open"] /\ \A e \in Clients : target[e] # d
      BY <3>1 DEF Free, Spawn
    <3>3. /\ cpc' = [cpc EXCEPT ![c] = "await"]
          /\ UNCHANGED <<target, after, missed>>
      BY <2>5 DEF Fork
    <3> QED
      BY <3>2, <3>3 DEF StartupTypeOK
  <2>6. CASE PingForBuild(c)
    BY <2>6 DEF PingForBuild, startup
  <2>7. CASE FindPid(c)
    BY <2>7 DEF FindPid, startup
  <2>8. CASE Connect(c) \/ AwaitChild(c) \/ SpawnTimeout(c) \/ Attach(c) \/ Answered(c)
             \/ CallFails(c) \/ Probe(c) \/ ProbePing(c)
    <3>1. UNCHANGED <<startup, target, after, missed>>
      BY <2>8 DEF Connect, AwaitChild, SpawnTimeout, Attach, Answered, CallFails, Probe, ProbePing
    <3>2. \E l \in CPC \ {"verify", "term", "grace"} : cpc' = [cpc EXCEPT ![c] = l]
      BY <2>8 DEF Connect, AwaitChild, SpawnTimeout, Attach, Answered, CallFails, Probe, ProbePing,
        CPC
    <3> QED
      BY <3>1, <3>2 DEF startup
  <2> QED
    BY <1>4, <2>1, <2>2, <2>3, <2>4, <2>5, <2>6, <2>7, <2>8 DEF ClientStep
<1>5. ASSUME NEW d \in Daemons, DaemonRuns(d) \/ DaemonFault(d) PROVE LeaverInv'
  BY <1>3, <1>5 DEF DaemonRuns, DaemonFault
<1> QED
  BY <1>2, <1>4, <1>5 DEF Next

LEMMA InvAlways == Spec => []Inv
<1>1. Inv /\ [Next]_vars => TypeOK' /\ HeldInv' /\ LeaverInv'
  BY HeldNext, LeaverNext DEF Inv
<1>2. Inv /\ [Next]_vars /\ ServerKeepsSocket' => Inv'
  BY <1>1 DEF Inv
<1> QED
  BY <1>2, InvInit, ServerReachable, PTL DEF Spec

(* Starting a daemon kills none that is coming up or serving: the process    *)
(* spawnDaemon kills is past its accept loop.                                *)
THEOREM StartKillsTheorem == Spec => []StartKillsOnlyLeavers
<1>1. Inv => StartKillsOnlyLeavers
  BY DEF Inv, LeaverInv, StartKillsOnlyLeavers, Leaver
<1> QED
  BY <1>1, InvAlways, PTL

-----------------------------------------------------------------------------
(* A start of processes of one build, with no fault so far: daemons do not   *)
(* leave, and the client that asks one for its build hears its own.          *)
Cold == faults = 0 /\ \A c, e \in Clients : wants[c] = wants[e]
ColdInv ==
  Cold =>
    /\ hung = {}
    /\ \A d \in Daemons :
         /\ pc[d] \notin Leaver \ {"dead"}
         /\ pc[d] = "serve" => running[d]
         /\ pidFile = d => pc[d] = "serve"
         /\ pc[d] # "dead" => \A c \in Clients : build[d] = wants[c]
    /\ \A c \in Clients :
         /\ cpc[c] \notin {"term", "grace", "probe", "probeping", "findpid"}
         /\ cpc[c] \in {"ping", "use"} => pc[conn[c]] \in {"announce", "serve"}
         /\ cpc[c] = "verify" => pc[target[c]] = "serve"

LEMMA ColdInit == Init => ColdInv
BY StartupAssumption DEF Init, StartupInit, ColdInv, Leaver

LEMMA ColdNext == Inv /\ ColdInv /\ [Next]_vars => ColdInv'
<1> SUFFICES ASSUME Inv, ColdInv, [Next]_vars PROVE ColdInv'
  OBVIOUS
<1>1. SUFFICES ASSUME Cold' PROVE ColdInv'
  BY DEF ColdInv
<1>2. faults \in 0..MaxFaults /\ faults' = 0 /\ \A c, e \in Clients : wants'[c] = wants'[e]
  BY <1>1 DEF Cold, Inv, TypeOK
<1>3. /\ StartupTypeOK /\ HeldInv /\ ServerKeepsSocket
      /\ cpc \in [Clients -> CPC] /\ after \in [Clients -> CPC]
      /\ target \in [Clients -> Daemons \cup {NoDaemon}]
      /\ conn \in [Clients -> Daemons \cup {NoDaemon}]
      /\ build \in [Daemons -> Builds] /\ wants \in [Clients -> Builds]
  BY DEF Inv, TypeOK
<1>4. CASE UNCHANGED vars
  BY <1>4 DEF vars, startup, ColdInv, Cold
<1>5. ASSUME NEW d \in Daemons, DaemonRuns(d) PROVE ColdInv'
  <2>1. UNCHANGED <<cpc, conn, target, wants, build, faults>> /\ DaemonStep(d)
    BY <1>5 DEF DaemonRuns
  <2>2. Cold
    BY <1>1, <2>1 DEF Cold
  <2> USE <1>3, <2>1, <2>2 DEF ColdInv, HeldInv, StartupTypeOK, Leaver
  <2>3. CASE OpenLock(d) \/ TakeFlock(d) \/ LoseRace(d) \/ ConfirmLock(d) \/ LockReplaced(d)
    BY <2>3 DEF OpenLock, TakeFlock, LoseRace, ConfirmLock, LockReplaced
  <2>4. CASE ClearSocket(d) \/ Bind(d) \/ Announce(d)
    BY <2>4 DEF ClearSocket, Bind, Announce
  <2>5. CASE RemoveSocket(d) \/ RemoveLock(d) \/ DropLock(d) \/ ReadPidFile(d) \/ RemovePidFile(d)
    BY <2>5 DEF RemoveSocket, RemoveLock, DropLock, ReadPidFile, RemovePidFile
  <2> QED
    BY <2>3, <2>4, <2>5 DEF DaemonStep
<1>6. ASSUME NEW d \in Daemons, DaemonFault(d) PROVE ColdInv'
  BY <1>2, <1>6 DEF DaemonFault
<1>7. ASSUME NEW c \in Clients, ClientStep(c) PROVE ColdInv'
  <2>1. UNCHANGED wants
    BY <1>7 DEF ClientStep, Connect, PingForBuild, Terminate, KillGrace, SpawnDaemon,
      VerifyRecorded, Fork, AwaitChild, SpawnTimeout, Attach, Answered, CallFails, Probe, ProbePing,
      FindPid
  <2>2. faults = 0
    BY <1>2, <1>7 DEF ClientStep, Connect, PingForBuild, Terminate, KillGrace, SpawnDaemon,
      VerifyRecorded, Fork, AwaitChild, SpawnTimeout, Attach, Answered, CallFails, Probe, ProbePing,
      FindPid
  <2>3. Cold
    BY <1>2, <2>1, <2>2 DEF Cold
  <2>4. \A e \in Daemons : /\ Reachable(e) => pc[e] \in {"announce", "serve"}
                           /\ pc[e] = "serve" => Reachable(e) /\ Answers(e)
    BY <1>3, <2>3 DEF ColdInv, Reachable, Answers, Listening, Leaver, ServerKeepsSocket
  <2> USE <1>3, <2>1, <2>2, <2>3 DEF ColdInv, HeldInv
  <2>5. CASE Fork(c)
    <3>1. PICK d \in Daemons : /\ Free(d) /\ Spawn(d)
                               /\ build' = [build EXCEPT ![d] = wants[c]]
      BY <2>5 DEF Fork
    <3>2. /\ cpc' = [cpc EXCEPT ![c] = "await"]
          /\ UNCHANGED <<conn, target, wants, faults>>
      BY <2>5 DEF Fork
    <3>3. /\ pc' = [pc EXCEPT ![d] = "open"] /\ pidFile # d
          /\ UNCHANGED <<running, hung, pidFile>>
          /\ \A e \in Clients : target[e] # d /\ conn[e] # d
      BY <3>1 DEF Free, Spawn
    <3> QED
      BY <3>1, <3>2, <3>3 DEF StartupTypeOK, Cold, Leaver
  <2>6. CASE SpawnDaemon(c)
    BY <2>6, StartupAssumption DEF SpawnDaemon, startup, StartupTypeOK
  <2>7. CASE VerifyRecorded(c)
    <3>1. ~NoListener
      BY <2>4, <2>7 DEF VerifyRecorded
    <3>2. ~ConnectFails
      BY <1>2, <3>1
    <3> QED
      BY <2>4, <2>7, <3>2 DEF VerifyRecorded, startup
  <2>8. CASE Connect(c)
    BY <2>4, <2>8 DEF Connect, startup
  <2>9. CASE Attach(c)
    BY <2>4, <2>9 DEF Attach, startup
  <2>10. CASE PingForBuild(c)
    BY <2>4, <2>10 DEF PingForBuild, startup, Answers
  <2>11. CASE Answered(c) \/ CallFails(c)
    BY <1>2, <2>4, <2>11 DEF Answered, CallFails, NoAnswer, startup
  <2>12. CASE AwaitChild(c) \/ SpawnTimeout(c)
    BY <1>2, <2>12 DEF AwaitChild, SpawnTimeout, startup
  <2>13. CASE Terminate(c) \/ KillGrace(c) \/ Probe(c) \/ ProbePing(c) \/ FindPid(c)
    BY <2>13 DEF Terminate, KillGrace, Probe, ProbePing, FindPid
  <2> QED
    BY <1>7, <2>5, <2>6, <2>7, <2>8, <2>9, <2>10, <2>11, <2>12, <2>13 DEF ClientStep
<1> QED
  BY <1>4, <1>5, <1>6, <1>7 DEF Next

(* Any number of processes of one build that start at once kill no daemon,   *)
(* as long as nothing hangs, dies or is late.                                *)
THEOREM ColdStartTheorem == Spec => []ColdStartKillsNone
<1>1. ColdInv => ColdStartKillsNone
  BY DEF ColdInv, Cold, ColdStartKillsNone
<1> QED
  BY <1>1, InvAlways, ColdInit, ColdNext, PTL DEF Spec

=============================================================================
