---------------------------- MODULE DaemonStartup -----------------------------
(***************************************************************************)
(* The encryption daemon as a process (packages/encryption-binary-rust/src: *)
(* run_daemon in daemon.rs; start, acquire_lock and cleanup_owned_files in  *)
(* ipc.rs): several of them may be spawned for the same socket path, an     *)
(* flock on `<socket>.lock' elects one, and it alone may touch the socket   *)
(* and the PID file.  A step is one system call on a shared file; a process *)
(* may be killed, and any other may run, between two of them.               *)
(***************************************************************************)
EXTENDS Naturals

CONSTANTS
  Daemons,    \* process ids of daemons
  NoDaemon,   \* nothing at the path; no process
  Inodes,     \* inodes of lock files
  NoInode,    \* no lock file at the path; no open lock file
  LockTries   \* attempts of acquire_lock (5)

ASSUME StartupAssumption ==
  /\ NoDaemon \notin Daemons
  /\ NoInode \notin Inodes
  /\ LockTries \in Nat \ {0}

VARIABLES
  pc,         \* where each daemon is
  fd,         \* the lock file it has open
  tries,      \* acquire_lock attempts it has used up
  running,    \* IpcServer.running
  said,       \* what it printed for its launcher
  hung,       \* daemons that stopped answering without exiting
  lockPath,   \* the inode at the lock path
  sock,       \* the daemon whose listener is bound to the socket path
  pidFile     \* the pid in the PID file

startup == <<pc, fd, tries, running, said, hung, lockPath, sock, pidFile>>
files   == <<lockPath, sock, pidFile>>

(* The lock is held from flock until start() returns and drops the file. *)
Flocked   == {"stat", "clear", "bind", "announce", "serve", "rmlock", "close"}
(* The lock is confirmed: start() is past acquire_lock and before the unlink. *)
Confirmed == {"clear", "bind", "announce", "serve", "rmlock"}
(* The process has a listener; it is dropped when start() returns. *)
Listening == {"announce", "serve", "rmlock", "close"}
PC == Flocked \cup {"open", "flock", "readpid", "rmpid", "dead"}

Alive(d) == pc[d] # "dead"

(* connect() reaches this daemon. *)
Reachable(d) == sock = d /\ pc[d] \in Listening

(* A message on a new connection to this daemon is answered. *)
Answers(d) == pc[d] = "serve" /\ running[d] /\ d \notin hung

StartupInit ==
  /\ pc = [d \in Daemons |-> "dead"]
  /\ fd = [d \in Daemons |-> NoInode]
  /\ tries = [d \in Daemons |-> 0]
  /\ running = [d \in Daemons |-> FALSE]
  /\ said = [d \in Daemons |-> "nothing"]
  /\ hung = {}
  /\ lockPath = NoInode
  /\ sock = NoDaemon
  /\ pidFile = NoDaemon

-----------------------------------------------------------------------------
At(d, l)   == pc[d] = l
Goto(d, l) == pc' = [pc EXCEPT ![d] = l]

(* The process ends: the kernel closes its files, which frees its flock. *)
Exit(d) ==
  /\ Goto(d, "dead")
  /\ fd' = [fd EXCEPT ![d] = NoInode]
  /\ running' = [running EXCEPT ![d] = FALSE]
  /\ hung' = hung \ {d}
  /\ tries' = [tries EXCEPT ![d] = 0]

(* A new process, the spawn of spawnDaemon; the kernel gives out a pid that *)
(* no file and no other process still names.                                *)
Spawn(d) ==
  /\ ~Alive(d)
  /\ sock # d /\ pidFile # d
  /\ Goto(d, "open")
  /\ said' = [said EXCEPT ![d] = "nothing"]
  /\ UNCHANGED <<fd, tries, running, hung, files>>

(* Mutant: the pid is written up front, before the lock is tried. *)
OpenLockRecorded(d) ==
  /\ At(d, "open")
  /\ \E i \in Inodes :
       /\ IF lockPath = NoInode THEN \A e \in Daemons : fd[e] # i ELSE i = lockPath
       /\ lockPath' = i
       /\ fd' = [fd EXCEPT ![d] = i]
  /\ pidFile' = d
  /\ Goto(d, "flock")
  /\ UNCHANGED <<tries, running, said, hung, sock>>

(* acquire_lock opens the file at the lock path, creating it when missing. *)
OpenLock(d) ==
  /\ At(d, "open")
  /\ \E i \in Inodes :
       /\ IF lockPath = NoInode THEN \A e \in Daemons : fd[e] # i ELSE i = lockPath
       /\ lockPath' = i
       /\ fd' = [fd EXCEPT ![d] = i]
  /\ Goto(d, "flock")
  /\ UNCHANGED <<tries, running, said, hung, sock, pidFile>>

(* Another process holds the flock of the file this one has open. *)
LockHeld(d) == \E e \in Daemons \ {d} : fd[e] = fd[d] /\ pc[e] \in Flocked

TakeFlock(d) ==
  /\ At(d, "flock") /\ ~LockHeld(d)
  /\ Goto(d, "stat")
  /\ UNCHANGED <<fd, tries, running, said, hung, files>>

(* Mutant: the loser of the race cleans up on its way out. *)
LoseRaceAndClean(d) ==
  /\ At(d, "flock") /\ LockHeld(d)
  /\ said' = [said EXCEPT ![d] = "alreadyRunning"]
  /\ Exit(d)
  /\ sock' = NoDaemon /\ lockPath' = NoInode
  /\ UNCHANGED pidFile

(* LOCK_HELD_ERROR: the loser says so and exits.  Drop calls                *)
(* cleanup_owned_files, and owns_files is not set: it touches no file.      *)
LoseRace(d) ==
  /\ At(d, "flock") /\ LockHeld(d)
  /\ said' = [said EXCEPT ![d] = "alreadyRunning"]
  /\ Exit(d)
  /\ UNCHANGED files

(* Mutant: a flock is a flock, whatever the path names by now. *)
ConfirmLockBlindly(d) ==
  /\ At(d, "stat")
  /\ Goto(d, "clear")
  /\ UNCHANGED <<fd, tries, running, said, hung, files>>

(* After locking, the path must still name the locked file; if not the file *)
(* is dropped and the next attempt opens the current one.                   *)
ConfirmLock(d) ==
  /\ At(d, "stat") /\ lockPath = fd[d]
  /\ Goto(d, "clear")
  /\ UNCHANGED <<fd, tries, running, said, hung, files>>

LockReplaced(d) ==
  /\ At(d, "stat") /\ lockPath # fd[d]
  /\ IF tries[d] + 1 < LockTries
     THEN /\ Goto(d, "open")
          /\ fd' = [fd EXCEPT ![d] = NoInode]
          /\ tries' = [tries EXCEPT ![d] = @ + 1]
          /\ UNCHANGED <<running, hung>>
     ELSE Exit(d)
  /\ UNCHANGED <<said, files>>

(* Mutant: the pid is written once the lock is held, before the socket is bound. *)
ClearSocketRecorded(d) ==
  /\ At(d, "clear")
  /\ sock' = NoDaemon /\ pidFile' = d
  /\ Goto(d, "bind")
  /\ UNCHANGED <<fd, tries, running, said, hung, lockPath>>

(* The stale socket is removed, the listener bound, the flags set. *)
ClearSocket(d) ==
  /\ At(d, "clear")
  /\ sock' = NoDaemon
  /\ Goto(d, "bind")
  /\ UNCHANGED <<fd, tries, running, said, hung, lockPath, pidFile>>

Bind(d) ==
  /\ At(d, "bind")
  /\ IF sock = NoDaemon
     THEN /\ sock' = d
          /\ Goto(d, "announce")
          /\ UNCHANGED <<fd, tries, running, hung>>
     ELSE Exit(d) /\ UNCHANGED sock            \* EADDRINUSE
  /\ UNCHANGED <<said, lockPath, pidFile>>

(* running.store(true), then the listening callback: the PID file and the  *)
(* ready line; then the accept loop.                                        *)
Announce(d) ==
  /\ At(d, "announce")
  /\ running' = [running EXCEPT ![d] = TRUE]
  /\ pidFile' = d
  /\ said' = [said EXCEPT ![d] = "ready"]
  /\ Goto(d, "serve")
  /\ UNCHANGED <<fd, tries, hung, lockPath, sock>>

(* SIGTERM, or 30 minutes without activity: running.store(false).  A signal *)
(* that arrives before start() stores true is overwritten by it.            *)
StopRunning(d) ==
  /\ running' = [running EXCEPT ![d] = FALSE]
  /\ UNCHANGED <<pc, fd, tries, said, hung, files>>

(* The accept loop sees the flag and ends; cleanup_owned_files unlinks       *)
(* whatever is at the two paths ...                                          *)
RemoveSocket(d) ==
  /\ At(d, "serve") /\ ~running[d] /\ d \notin hung
  /\ sock' = NoDaemon
  /\ Goto(d, "rmlock")
  /\ UNCHANGED <<fd, tries, running, said, hung, lockPath, pidFile>>

RemoveLock(d) ==
  /\ At(d, "rmlock")
  /\ lockPath' = NoInode
  /\ Goto(d, "close")
  /\ UNCHANGED <<fd, tries, running, said, hung, sock, pidFile>>

(* ... and start() returns, dropping the listener and the lock file. *)
DropLock(d) ==
  /\ At(d, "close")
  /\ fd' = [fd EXCEPT ![d] = NoInode]
  /\ Goto(d, "readpid")
  /\ UNCHANGED <<tries, running, said, hung, files>>

(* run_daemon drops the PID file "only while it still names this process": *)
(* it reads it, and removes the path in a second call.                     *)
ReadPidFile(d) ==
  /\ At(d, "readpid")
  /\ IF pidFile = d
     THEN Goto(d, "rmpid") /\ UNCHANGED <<fd, running, hung, tries>>
     ELSE Exit(d)
  /\ UNCHANGED <<said, files>>

RemovePidFile(d) ==
  /\ At(d, "rmpid")
  /\ pidFile' = NoDaemon
  /\ Exit(d)
  /\ UNCHANGED <<said, lockPath, sock>>

(* A serving daemon stops answering (stuck in the Secure Enclave, stopped by *)
(* a debugger), and only SIGKILL ends it.                                    *)
Hang(d) ==
  /\ At(d, "serve")
  /\ hung' = hung \cup {d}
  /\ UNCHANGED <<pc, fd, tries, running, said, files>>

(* SIGKILL or a crash, at any point: the files stay behind. *)
Die(d) ==
  /\ Alive(d)
  /\ Exit(d)
  /\ UNCHANGED <<said, files>>

DaemonStep(d) ==
  \/ OpenLock(d) \/ TakeFlock(d) \/ LoseRace(d) \/ ConfirmLock(d) \/ LockReplaced(d)
  \/ ClearSocket(d) \/ Bind(d) \/ Announce(d) \/ RemoveSocket(d) \/ RemoveLock(d) \/ DropLock(d)
  \/ ReadPidFile(d) \/ RemovePidFile(d)

StartupNext ==
  \E d \in Daemons :
    DaemonStep(d) \/ Spawn(d) \/ StopRunning(d) \/ Hang(d) \/ Die(d)

StartupSpec == StartupInit /\ [][StartupNext]_startup

-----------------------------------------------------------------------------
StartupTypeOK ==
  /\ pc \in [Daemons -> PC]
  /\ fd \in [Daemons -> Inodes \cup {NoInode}]
  /\ tries \in [Daemons -> 0..LockTries]
  /\ running \in [Daemons -> BOOLEAN]
  /\ said \in [Daemons -> {"nothing", "ready", "alreadyRunning"}]
  /\ hung \subseteq Daemons
  /\ lockPath \in Inodes \cup {NoInode}
  /\ sock \in Daemons \cup {NoDaemon}
  /\ pidFile \in Daemons \cup {NoDaemon}

(* The processes past the lock, up to its deletion. *)
Servers == {d \in Daemons : pc[d] \in Confirmed}

(* Deletions of the lock file by a daemon that leaves, and opens of a file   *)
(* that is deleted before it is locked, never elect two daemons: the         *)
(* processes between the confirmation of the lock and its deletion implement *)
(* a single server (acquire_lock).                                           *)
Elected == INSTANCE OneServer WITH Daemons <- Daemons, servers <- Servers
ElectsOne == Elected!Spec

(* A daemon that accepts clients is the one the socket path leads to: no     *)
(* other daemon, on its way in or out, removes or replaces its socket        *)
(* ("leaves the winner running with no socket", ipc.rs, owns_files).         *)
ServerKeepsSocket ==
  \A d \in Daemons : pc[d] \in {"announce", "serve"} => sock = d

(* While a daemon serves, the PID file names no other process: a client that *)
(* kills the recorded pid kills the daemon it could not reach (daemon.rs,    *)
(* run_daemon).  It may be missing: a daemon that leaves reads the file,     *)
(* and removes it after a successor wrote its own pid.                       *)
RecordedOrMissing ==
  \A d \in Daemons : pc[d] = "serve" => pidFile \in {d, NoDaemon}

=============================================================================
