------------------------------- MODULE DirLock -------------------------------
(***************************************************************************)
(* withDirLock (packages/varlock/src/lib/cache/cache-store.ts): mutual     *)
(* exclusion between operating system processes by mkdir of one lock       *)
(* directory.  A step is one file system call of the code, with the        *)
(* computation that follows it up to the next call: another process may    *)
(* run between any two of them.                                            *)
(*                                                                         *)
(* The directory is told apart from later directories of the same path by  *)
(* its `maker', the process whose mkdir created it.  The code cannot see   *)
(* the maker; only the properties and the ghost variables use it.          *)
(***************************************************************************)
EXTENDS Naturals

CONSTANTS
  Procs,      \* processes that call withDirLock, one call at a time each
  NoProc,     \* no owner metadata (owner.json missing or unreadable)
  NoDir,      \* nothing at lockPath
  FailOpen,   \* opts.failOpen
  MaxFaults   \* bound on crashes, signals, clearLocks calls and failed writes

ASSUME ConstantsAssumption ==
  /\ NoProc \notin Procs
  /\ FailOpen \in BOOLEAN
  /\ MaxFaults \in Nat

VARIABLES
  pc,         \* where each process is in withDirLock
  dir,        \* what is at lockPath
  seen,       \* the directory a waiter read owner.json of (local variable owner)
  wrote,      \* local variable ownerWritten
  heldLocks,  \* processes whose heldLocks map lists lockPath
  pidAlive,   \* whether kill(pid, 0) succeeds
  faults,     \* crashes, signals, clearLocks calls and failed writes so far
  robbed,     \* ghost: holders whose directory was taken from lockPath
  disturbed   \* ghost: what happened that mutual exclusion does not survive

vars == <<pc, dir, seen, wrote, heldLocks, pidAlive, faults, robbed, disturbed>>

(* Ages of a directory, from its mtime: Fresh until OWNER_GRACE_MS, Old until *)
(* opts.staleMs, then Stale.                                                  *)
Fresh == 0
Old   == 1
Stale == 2

Dir == [maker : Procs, owner : Procs \cup {NoProc}, age : Fresh..Stale]

ASSUME NoDirAssumption == NoDir \notin Dir

Waiting == {"wait", "read", "judge", "steal"}
InCS    == {"cs", "sig", "sigmv"}             \* fn is running, lock acquired
Holding == InCS \cup {"write", "rel", "relmv"}
PC      == Waiting \cup Holding \cup {"idle", "open", "dead"}

(* Inside one synchronous block of the event loop: between two of its calls  *)
(* only a suspended process can let a grace period pass.                     *)
Sync == {"read", "judge", "steal", "write", "rel", "relmv", "sig", "sigmv"}

Init ==
  /\ pc = [p \in Procs |-> "idle"]
  /\ dir = NoDir
  /\ seen = [p \in Procs |-> NoDir]
  /\ wrote = [p \in Procs |-> FALSE]
  /\ heldLocks = {}
  /\ pidAlive = [p \in Procs |-> TRUE]
  /\ faults = 0
  /\ robbed = {}
  /\ disturbed = {}

Goto(p, l) == pc' = [pc EXCEPT ![p] = l]

(* The process whose lock is at lockPath and still in use. *)
Holder == IF dir # NoDir /\ pc[dir.maker] \in Holding THEN {dir.maker} ELSE {}

-----------------------------------------------------------------------------
(* withDirLock is called. *)
Start(p) ==
  /\ pc[p] = "idle"
  /\ Goto(p, "wait")
  /\ wrote' = [wrote EXCEPT ![p] = FALSE]
  /\ robbed' = robbed \ {p}
  /\ UNCHANGED <<dir, seen, heldLocks, pidAlive, faults, disturbed>>

(* Mutant: mkdir with { recursive: true }, which succeeds on a directory     *)
(* that is already there.                                                    *)
MkdirRecursive(p) ==
  /\ pc[p] = "wait"
  /\ dir' = [maker |-> p, owner |-> NoProc, age |-> Fresh]
  /\ Goto(p, "write")
  /\ UNCHANGED <<seen, wrote, heldLocks, pidAlive, faults, robbed, disturbed>>

(* fs.mkdirSync(lockPath) creates the directory, or fails with EEXIST. *)
Mkdir(p) ==
  /\ pc[p] = "wait"
  /\ dir = NoDir
  /\ dir' = [maker |-> p, owner |-> NoProc, age |-> Fresh]
  /\ Goto(p, "write")
  /\ UNCHANGED <<seen, wrote, heldLocks, pidAlive, faults, robbed, disturbed>>

MkdirExists(p) ==
  /\ pc[p] = "wait"
  /\ dir # NoDir
  /\ Goto(p, "read")
  /\ UNCHANGED <<dir, seen, wrote, heldLocks, pidAlive, faults, robbed, disturbed>>

(* readLockOwner; the directory may be gone, or another one, by now.  Its    *)
(* age is not read here.                                                     *)
ReadLockOwner(p) ==
  /\ pc[p] = "read"
  /\ seen' = [seen EXCEPT ![p] = IF dir = NoDir THEN NoDir
                                 ELSE [dir EXCEPT !.age = Fresh]]
  /\ Goto(p, "judge")
  /\ UNCHANGED <<dir, wrote, heldLocks, pidAlive, faults, robbed, disturbed>>

SeenOwner(p) == IF seen[p] = NoDir THEN NoProc ELSE seen[p].owner

(* Mutants: the grace window applied to every lock; no liveness check. *)
AbandonedPastGrace(p) == dir # NoDir /\ dir.age > Fresh

AbandonedByAge(p) ==
  /\ dir # NoDir
  /\ dir.age = Stale \/ (SeenOwner(p) = NoProc /\ dir.age > Fresh)

(* fs.statSync and isLockOwnerAlive: the lock counts as abandoned when the   *)
(* owner that was read is gone, or unknown past the grace window, or when    *)
(* the directory now at lockPath is stale.                                   *)
Abandoned(p) ==
  /\ dir # NoDir
  /\ \/ SeenOwner(p) # NoProc /\ ~pidAlive[SeenOwner(p)]
     \/ SeenOwner(p) = NoProc /\ dir.age > Fresh
     \/ dir.age = Stale

Forget(p) == seen' = [seen EXCEPT ![p] = NoDir]

(* The deadline check at the bottom of the loop: sleep and try again, or, at *)
(* the deadline, run fn without the lock (failOpen) or throw.                *)
Sleep(p)  == Goto(p, "wait")
GiveUp(p) == Goto(p, IF FailOpen THEN "open" ELSE "idle")

JudgeAbandoned(p) ==
  /\ pc[p] = "judge"
  /\ Abandoned(p)
  /\ Goto(p, "steal")
  /\ UNCHANGED <<dir, seen, wrote, heldLocks, pidAlive, faults, robbed, disturbed>>

JudgeHeld(p) ==
  /\ pc[p] = "judge"
  /\ ~Abandoned(p)
  /\ Sleep(p) \/ GiveUp(p)
  /\ Forget(p)
  /\ UNCHANGED <<dir, wrote, heldLocks, pidAlive, faults, robbed, disturbed>>

(* stealLock renames whatever is at lockPath now, which need not be the      *)
(* directory that was judged.                                                *)
RobsUnseen(p) == Holder # {} /\ (seen[p] = NoDir \/ seen[p].maker # dir.maker)

StealLock(p) ==
  /\ pc[p] = "steal"
  /\ dir # NoDir
  /\ dir' = NoDir
  /\ robbed' = robbed \cup Holder
  /\ disturbed' = disturbed \cup (IF RobsUnseen(p) THEN {"race"} ELSE {})
  /\ Goto(p, "wait")
  /\ Forget(p)
  /\ UNCHANGED <<wrote, heldLocks, pidAlive, faults>>

(* The rename fails: another waiter took the directory first. *)
StealLost(p) ==
  /\ pc[p] = "steal"
  /\ dir = NoDir
  /\ Sleep(p) \/ GiveUp(p)
  /\ Forget(p)
  /\ UNCHANGED <<dir, wrote, heldLocks, pidAlive, faults, robbed, disturbed>>

(* owner.json is written by path: into the directory at lockPath, whoever    *)
(* made it.  A new file refreshes the directory's mtime; writing a file that *)
(* is there, be it unreadable, does not.                                     *)
AgesAfterWrite == IF dir.owner = NoProc THEN {Fresh, dir.age} ELSE {dir.age}

Naming(o) == {[maker |-> dir.maker, owner |-> o, age |-> a] : a \in AgesAfterWrite}

WriteOwner(p) ==
  /\ pc[p] = "write"
  /\ dir # NoDir
  /\ dir' \in Naming(p)
  /\ wrote' = [wrote EXCEPT ![p] = TRUE]
  /\ heldLocks' = heldLocks \cup {p}
  /\ Goto(p, "cs")
  /\ UNCHANGED <<seen, pidAlive, faults, robbed, disturbed>>

(* The write fails: nothing is at lockPath, or the file cannot be opened, or *)
(* it is opened (and emptied) and cannot be filled.  The error is swallowed, *)
(* and fn runs under a lock that this process has not put its name to.       *)
WriteOwnerFails(p) ==
  /\ pc[p] = "write"
  /\ \/ dir = NoDir /\ UNCHANGED <<dir, faults, disturbed>>
     \/ /\ dir # NoDir
        /\ faults < MaxFaults
        /\ faults' = faults + 1
        /\ disturbed' = disturbed \cup {"nameless"}
        /\ dir' \in {dir} \cup Naming(NoProc)
  /\ Goto(p, "cs")
  /\ UNCHANGED <<seen, wrote, heldLocks, pidAlive, robbed>>

(* The timer refreshes the mtime of whatever is at lockPath. *)
Touch(p) ==
  /\ pc[p] = "cs"
  /\ dir # NoDir
  /\ dir' = [dir EXCEPT !.age = Fresh]
  /\ UNCHANGED <<pc, seen, wrote, heldLocks, pidAlive, faults, robbed, disturbed>>

(* Mutant: the release is left to the handlers that walk heldLocks. *)
LeaveToHandlers(p) ==
  /\ pc[p] = "cs"
  /\ Goto(p, IF p \in heldLocks THEN "idle" ELSE "relmv")
  /\ UNCHANGED <<dir, seen, wrote, heldLocks, pidAlive, faults, robbed, disturbed>>

(* fn settles, and the finally block calls releaseLock, which reads the      *)
(* token first unless this process never wrote one.                          *)
Leave(p) ==
  /\ pc[p] = "cs"
  /\ Goto(p, IF wrote[p] THEN "rel" ELSE "relmv")
  /\ UNCHANGED <<dir, seen, wrote, heldLocks, pidAlive, faults, robbed, disturbed>>

(* The token check of releaseLock: only another's token stops the release. *)
OthersToken(p) == dir # NoDir /\ dir.owner \notin {p, NoProc}

CheckToken(p) ==
  /\ \/ pc[p] = "rel" /\ Goto(p, IF OthersToken(p) THEN "idle" ELSE "relmv")
     \/ pc[p] = "sig" /\ \E after \in {"cs", "dead"} :
                           Goto(p, IF OthersToken(p) THEN after ELSE "sigmv")
  /\ heldLocks' = IF OthersToken(p) THEN heldLocks \ {p} ELSE heldLocks
  /\ pidAlive' = [pidAlive EXCEPT ![p] = pc'[p] # "dead"]
  /\ UNCHANGED <<dir, seen, wrote, faults, robbed, disturbed>>

(* Mutant: heldLocks is cleaned only when the token was another's.           *)
ReleaseLockListed(p) ==
  /\ \/ pc[p] = "relmv" /\ Goto(p, "idle")
     \/ pc[p] = "sigmv" /\ \E after \in {"cs", "dead"} : Goto(p, after)
  /\ dir' = NoDir
  /\ robbed' = IF dir = NoDir THEN robbed
               ELSE robbed \cup (IF pc'[p] = "cs" THEN Holder ELSE Holder \ {p})
  /\ pidAlive' = [pidAlive EXCEPT ![p] = pc'[p] # "dead"]
  /\ UNCHANGED <<seen, wrote, heldLocks, faults, disturbed>>

(* The rename of releaseLock.  After a signal the process terminates, or     *)
(* goes on when another listener (varlock run) handles the signal.           *)
ReleaseLock(p) ==
  /\ \/ pc[p] = "relmv" /\ Goto(p, "idle")
     \/ pc[p] = "sigmv" /\ \E after \in {"cs", "dead"} : Goto(p, after)
  /\ dir' = NoDir
  /\ robbed' = IF dir = NoDir THEN robbed
               ELSE robbed \cup (IF pc'[p] = "cs" THEN Holder ELSE Holder \ {p})
  /\ heldLocks' = heldLocks \ {p}
  /\ pidAlive' = [pidAlive EXCEPT ![p] = pc'[p] # "dead"]
  /\ UNCHANGED <<seen, wrote, faults, disturbed>>

(* The fn of a caller that gave up waiting settles; it holds no lock. *)
LeaveOpen(p) ==
  /\ pc[p] = "open"
  /\ Goto(p, "idle")
  /\ UNCHANGED <<dir, seen, wrote, heldLocks, pidAlive, faults, robbed, disturbed>>

-----------------------------------------------------------------------------
(* SIGINT and the like reach a process that lists the lock in heldLocks. *)
Signal(p) ==
  /\ pc[p] = "cs"
  /\ p \in heldLocks
  /\ faults < MaxFaults
  /\ faults' = faults + 1
  /\ disturbed' = disturbed \cup {"signal"}
  /\ Goto(p, "sig")
  /\ UNCHANGED <<dir, seen, wrote, heldLocks, pidAlive, robbed>>

(* SIGKILL, power loss of the process: no handler runs. *)
Crash(p) ==
  /\ pc[p] \notin {"idle", "dead"}
  /\ faults < MaxFaults
  /\ faults' = faults + 1
  /\ Goto(p, "dead")
  /\ pidAlive' = [pidAlive EXCEPT ![p] = FALSE]
  /\ Forget(p)
  /\ heldLocks' = heldLocks \ {p}
  /\ UNCHANGED <<dir, wrote, robbed, disturbed>>

(* The pid of a dead process is given to an unrelated one. *)
RecyclePid(p) ==
  /\ pc[p] = "dead"
  /\ ~pidAlive[p]
  /\ pidAlive' = [pidAlive EXCEPT ![p] = TRUE]
  /\ UNCHANGED <<pc, dir, seen, wrote, heldLocks, faults, robbed, disturbed>>

(* clearLocks (varlock cache clear) removes the directory unconditionally. *)
ClearLocks ==
  /\ dir # NoDir
  /\ faults < MaxFaults
  /\ faults' = faults + 1
  /\ dir' = NoDir
  /\ robbed' = robbed \cup Holder
  /\ disturbed' = disturbed \cup {"clear"}
  /\ UNCHANGED <<pc, seen, wrote, heldLocks, pidAlive>>

(* Time passes.  It is a stall when a process sat through a grace window     *)
(* between two calls of one synchronous block, or when a holder let its      *)
(* directory go stale although its timer should have touched it.             *)
Stalled ==
  \/ \E p \in Procs : pc[p] \in Sync
  \/ dir.age = Old /\ Holder # {}

GrowOld ==
  /\ dir # NoDir
  /\ dir.age < Stale
  /\ dir' = [dir EXCEPT !.age = @ + 1]
  /\ disturbed' = disturbed \cup (IF Stalled THEN {"stall"} ELSE {})
  /\ UNCHANGED <<pc, seen, wrote, heldLocks, pidAlive, faults, robbed>>

-----------------------------------------------------------------------------
Step(p) ==
  \/ Mkdir(p) \/ MkdirExists(p) \/ ReadLockOwner(p)
  \/ JudgeAbandoned(p) \/ JudgeHeld(p) \/ StealLock(p) \/ StealLost(p)
  \/ WriteOwner(p) \/ WriteOwnerFails(p)
  \/ Leave(p) \/ CheckToken(p) \/ ReleaseLock(p) \/ LeaveOpen(p)

Next ==
  \/ \E p \in Procs :
       \/ Start(p) \/ Step(p) \/ Touch(p)
       \/ Signal(p) \/ Crash(p) \/ RecyclePid(p)
  \/ ClearLocks
  \/ GrowOld

Spec == Init /\ [][Next]_vars

(* A live process keeps running its loop; nothing makes it call again, and   *)
(* the deadline need not pass.                                               *)
FairSpec == Spec /\ \A p \in Procs : WF_vars(Step(p))

-----------------------------------------------------------------------------
TypeOK ==
  /\ pc \in [Procs -> PC]
  /\ dir \in Dir \cup {NoDir}
  /\ seen \in [Procs -> Dir \cup {NoDir}]
  /\ wrote \in [Procs -> BOOLEAN]
  /\ heldLocks \subseteq {p \in Procs : pc[p] \in Holding /\ wrote[p]}
  /\ pidAlive \in [Procs -> BOOLEAN]
  /\ faults \in 0..MaxFaults
  /\ robbed \subseteq Procs
  /\ disturbed \subseteq {"race", "signal", "clear", "stall", "nameless"}

(* At most one process runs its fn with the lock (the doc comment of         *)
(* withDirLock: "Cross-process mutual exclusion via atomic mkdir").          *)
MutualExclusion ==
  \A p, q \in Procs : pc[p] \in InCS /\ pc[q] \in InCS => p = q

(* Two holders at once means one of them lost its directory to a rename or   *)
(* to clearLocks: stealing is the only way exclusion is ever lost.           *)
ExclusionUnlessRobbed ==
  \A p, q \in Procs :
    pc[p] \in InCS /\ pc[q] \in InCS /\ p # q => p \in robbed \/ q \in robbed

(* Crashes at any point, recycled pids, dead owners and give-ups included,   *)
(* exclusion holds as long as no signal, clearLocks, stalled process, steal  *)
(* of an unseen directory or failed write of owner.json has happened.  The   *)
(* last one is not as harmless as its comment (cache-store.ts:235: "without  *)
(* owner metadata the lock still works") says: a directory without a name is *)
(* taken from its live holder after OWNER_GRACE_MS.                          *)
UndisturbedExclusion == disturbed = {} => MutualExclusion

(* No lock is leaked: a directory at lockPath names a call still in progress *)
(* or a dead process, so that waiters can tell; one without a name belongs   *)
(* to its maker, or to a robbed process that wrote into it, which has yet to *)
(* release it by its path, or has died.                                      *)
NoLeakedLock ==
  dir # NoDir =>
    IF dir.owner = NoProc
    THEN \E p \in {dir.maker} \cup robbed :
           pc[p] \in Holding \cup {"dead"} /\ ~wrote[p]
    ELSE pc[dir.owner] \in Holding \cup {"dead"}

(* "Orphaned locks are handled by liveness detection, not by this timeout":  *)
(* while somebody waits, the lock of a dead process does not stay.           *)
Orphaned == dir # NoDir /\ dir.owner # NoProc /\ ~pidAlive[dir.owner]

SomebodyWaits == \E p \in Procs : pc[p] \in Waiting

OrphanReclaimed == SomebodyWaits /\ Orphaned ~> ~Orphaned \/ ~SomebodyWaits

=============================================================================
