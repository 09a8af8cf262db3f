---------------------------- MODULE DirLockProofs ----------------------------
(* Machine-checked proofs of the safety properties of DirLock. *)
EXTENDS DirLock, TLAPS

(* A holder that was not robbed is the maker of what is at lockPath. *)
UnrobbedHolds ==
  \A p \in Procs :
    pc[p] \in Holding /\ p \notin robbed => dir # NoDir /\ dir.maker = p

DeadPids == \A p \in Procs : ~pidAlive[p] => pc[p] = "dead"

(* Until something disturbs the lock, a directory names its maker ...        *)
QuietDir ==
  dir # NoDir =>
    /\ pc[dir.maker] \in Holding \cup {"dead"}
    /\ dir.owner \in {NoProc, dir.maker}
    /\ dir.owner = NoProc => pc[dir.maker] \in {"write", "dead"}
    /\ dir.age > Fresh => pc[dir.maker] # "write"
    /\ dir.age = Stale => pc[dir.maker] = "dead"

(* ... a directory that aged is the one every judging waiter has read ...    *)
QuietJudge ==
  \A p \in Procs :
    /\ seen[p] # NoDir => seen[p].owner \in {NoProc, seen[p].maker}
    /\ pc[p] = "judge" /\ dir # NoDir /\ dir.age > Fresh =>
         /\ seen[p] # NoDir
         /\ seen[p].maker = dir.maker
         /\ seen[p].owner = NoProc => pc[dir.maker] = "dead"

(* ... and whoever is about to steal has read a dead process's directory.    *)
QuietSteal ==
  \A p \in Procs :
    pc[p] = "steal" => seen[p] # NoDir /\ pc[seen[p].maker] = "dead"

QuietPC == \A p \in Procs : pc[p] \notin {"sig", "sigmv"}

Quiet == robbed = {} /\ QuietDir /\ QuietJudge /\ QuietSteal /\ QuietPC

IInv ==
  /\ TypeOK
  /\ UnrobbedHolds
  /\ DeadPids
  /\ disturbed = {} => Quiet

-----------------------------------------------------------------------------
(* The model is type correct: every variable of a lock call keeps its shape, *)
(* whatever the number of processes and faults.                              *)
LEMMA TypeInit == Init => TypeOK
  BY ConstantsAssumption DEF Init, TypeOK, PC

(* owner.json goes into the directory that is there, whoever made it. *)
LEMMA NamedDir ==
  ASSUME TypeOK, dir # NoDir, NEW o \in Procs \cup {NoProc}, NEW d \in Naming(o)
  PROVE  /\ dir \in Dir /\ d \in Dir
         /\ d.maker = dir.maker /\ d.owner = o /\ d.age \in {Fresh, dir.age}
<1>1. dir \in Dir
  BY DEF TypeOK
<1>2. PICK age \in AgesAfterWrite : d = [maker |-> dir.maker, owner |-> o, age |-> age]
  BY DEF Naming
<1>3. age \in {Fresh, dir.age} /\ age \in Fresh..Stale
  BY <1>1, <1>2 DEF AgesAfterWrite, Dir, Fresh, Stale
<1> QED
  BY <1>1, <1>2, <1>3 DEF Dir

(* What a write does to the directory, by the name it leaves there: one that *)
(* fails leaves at most an unreadable file behind.                           *)
Rewritten(o) ==
  /\ dir \in Dir /\ dir' \in Dir
  /\ dir'.maker = dir.maker /\ dir'.owner = o /\ dir'.age \in {Fresh, dir.age}

LEMMA WrittenDir == TypeOK => \A p \in Procs : WriteOwner(p) => Rewritten(p)
  BY NamedDir DEF WriteOwner, Rewritten

LEMMA NamelessDir ==
  TypeOK => \A p \in Procs : WriteOwnerFails(p) => UNCHANGED dir \/ Rewritten(NoProc)
  BY NamedDir DEF WriteOwnerFails, Rewritten

LEMMA TypeNext == TypeOK /\ [Next]_vars => TypeOK'
<1> SUFFICES ASSUME TypeOK, [Next]_vars PROVE TypeOK'
  OBVIOUS
<1>w. \A p \in Procs : WriteOwner(p) => Rewritten(p)
  BY WrittenDir
<1>n. \A p \in Procs : WriteOwnerFails(p) => UNCHANGED dir \/ Rewritten(NoProc)
  BY NamelessDir
<1> USE ConstantsAssumption DEF TypeOK, PC, Waiting, Holding, InCS, Dir, Fresh, Old,
        Stale, Goto, Forget, Sleep, GiveUp
<1>1. ASSUME NEW p \in Procs, Start(p) PROVE TypeOK'
  BY <1>1 DEF Start
<1>2. ASSUME NEW p \in Procs, Mkdir(p) PROVE TypeOK'
  BY <1>2 DEF Mkdir
<1>3. ASSUME NEW p \in Procs, MkdirExists(p) PROVE TypeOK'
  BY <1>3 DEF MkdirExists
<1>4. ASSUME NEW p \in Procs, ReadLockOwner(p) PROVE TypeOK'
  BY <1>4 DEF ReadLockOwner
<1>5. ASSUME NEW p \in Procs, JudgeAbandoned(p) PROVE TypeOK'
  BY <1>5 DEF JudgeAbandoned
<1>6. ASSUME NEW p \in Procs, JudgeHeld(p) PROVE TypeOK'
  BY <1>6 DEF JudgeHeld
<1>7. ASSUME NEW p \in Procs, StealLock(p) PROVE TypeOK'
  BY <1>7 DEF StealLock, Holder
<1>8. ASSUME NEW p \in Procs, StealLost(p) PROVE TypeOK'
  BY <1>8 DEF StealLost
<1>9. ASSUME NEW p \in Procs, WriteOwner(p) PROVE TypeOK'
  <2>1. Rewritten(p)
    BY <1>9, <1>w
  <2> QED
    BY <1>9, <2>1 DEF WriteOwner, Rewritten
<1>10. ASSUME NEW p \in Procs, WriteOwnerFails(p) PROVE TypeOK'
  <2>1. UNCHANGED dir \/ Rewritten(NoProc)
    BY <1>10, <1>n
  <2>2. dir' \in Dir \cup {NoDir}
    BY <2>1 DEF Rewritten
  <2>3. faults' \in 0..MaxFaults
    BY <1>10 DEF WriteOwnerFails
  <2>4. pc' = [pc EXCEPT ![p] = "cs"] /\ UNCHANGED <<seen, wrote, heldLocks, pidAlive, robbed>>
    BY <1>10 DEF WriteOwnerFails
  <2>5. disturbed' \subseteq {"race", "signal", "clear", "stall", "nameless"}
    BY <1>10 DEF WriteOwnerFails
  <2> QED
    BY <2>2, <2>3, <2>4, <2>5
<1>11. ASSUME NEW p \in Procs, Touch(p) PROVE TypeOK'
  BY <1>11 DEF Touch
<1>12. ASSUME NEW p \in Procs, Leave(p) PROVE TypeOK'
  BY <1>12 DEF Leave
<1>13. ASSUME NEW p \in Procs, CheckToken(p) PROVE TypeOK'
  BY <1>13 DEF CheckToken
<1>14. ASSUME NEW p \in Procs, ReleaseLock(p) PROVE TypeOK'
  BY <1>14 DEF ReleaseLock, Holder
<1>15. ASSUME NEW p \in Procs, LeaveOpen(p) PROVE TypeOK'
  BY <1>15 DEF LeaveOpen
<1>16. ASSUME NEW p \in Procs, Signal(p) PROVE TypeOK'
  BY <1>16 DEF Signal
<1>17. ASSUME NEW p \in Procs, Crash(p) PROVE TypeOK'
  BY <1>17 DEF Crash
<1>18. ASSUME NEW p \in Procs, RecyclePid(p) PROVE TypeOK'
  BY <1>18 DEF RecyclePid
<1>19. CASE ClearLocks
  BY <1>19 DEF ClearLocks, Holder
<1>20. CASE GrowOld
  BY <1>20 DEF GrowOld
<1>21. CASE UNCHANGED vars
  BY <1>21 DEF vars
<1> QED
  BY <1>1, <1>2, <1>3, <1>4, <1>5, <1>6, <1>7, <1>8, <1>9, <1>10, <1>11, <1>12,
     <1>13, <1>14, <1>15, <1>16, <1>17, <1>18, <1>19, <1>20, <1>21 DEF Next, Step

THEOREM TypeCorrect == Spec => []TypeOK
  BY TypeInit, TypeNext, PTL DEF Spec

-----------------------------------------------------------------------------
(* A call puts its name to the lock after it acquired it, or not at all. *)
LeakInv ==
  /\ NoLeakedLock
  /\ \A p \in Procs : pc[p] \in Waiting \cup {"write"} => ~wrote[p]

(* Leaks: the directory's owner is a process whose call will remove it. *)
LEMMA LeakNext == TypeOK /\ UnrobbedHolds /\ LeakInv /\ [Next]_vars => LeakInv'
<1> SUFFICES ASSUME TypeOK, UnrobbedHolds, LeakInv, [Next]_vars PROVE LeakInv'
  OBVIOUS
<1>w. \A p \in Procs : WriteOwner(p) => Rewritten(p)
  BY WrittenDir
<1>n. \A p \in Procs : WriteOwnerFails(p) => UNCHANGED dir \/ Rewritten(NoProc)
  BY NamelessDir
<1> USE ConstantsAssumption DEF TypeOK, Waiting, Holding, InCS, Dir, Fresh, Old, Stale,
        Goto, Forget, Sleep, GiveUp, NoLeakedLock, LeakInv
<1>1. ASSUME NEW p \in Procs, Start(p) PROVE LeakInv'
  BY <1>1 DEF Start
<1>2. ASSUME NEW p \in Procs, Mkdir(p) PROVE LeakInv'
  BY <1>2 DEF Mkdir
<1>3. ASSUME NEW p \in Procs, MkdirExists(p) PROVE LeakInv'
  BY <1>3 DEF MkdirExists
<1>4. ASSUME NEW p \in Procs, ReadLockOwner(p) PROVE LeakInv'
  BY <1>4 DEF ReadLockOwner
<1>5. ASSUME NEW p \in Procs, JudgeAbandoned(p) PROVE LeakInv'
  BY <1>5 DEF JudgeAbandoned
<1>6. ASSUME NEW p \in Procs, JudgeHeld(p) PROVE LeakInv'
  BY <1>6 DEF JudgeHeld
<1>7. ASSUME NEW p \in Procs, StealLock(p) PROVE LeakInv'
  BY <1>7 DEF StealLock
<1>8. ASSUME NEW p \in Procs, StealLost(p) PROVE LeakInv'
  BY <1>8 DEF StealLost
<1>9. ASSUME NEW p \in Procs, WriteOwner(p) PROVE LeakInv'
  <2>1. Rewritten(p)
    BY <1>9, <1>w
  <2> QED
    BY <1>9, <2>1 DEF WriteOwner, Rewritten
<1>10. ASSUME NEW p \in Procs, WriteOwnerFails(p) PROVE LeakInv'
  <2>1. UNCHANGED dir \/ Rewritten(NoProc)
    BY <1>10, <1>n
  <2>2. /\ pc[p] = "write" /\ ~wrote[p]
        /\ pc' = [pc EXCEPT ![p] = "cs"] /\ UNCHANGED <<wrote, robbed>>
    BY <1>10 DEF WriteOwnerFails
  <2>3. CASE UNCHANGED dir
    BY <2>2, <2>3
  <2>4. CASE Rewritten(NoProc)
    <3>1. /\ dir # NoDir /\ dir' # NoDir /\ dir'.maker = dir.maker /\ dir'.owner = NoProc
      BY <2>4, NoDirAssumption DEF Rewritten
    <3>2. p \in {dir'.maker} \cup robbed'
      BY <2>2, <3>1 DEF UnrobbedHolds
    <3> QED
      BY <2>2, <3>1, <3>2
  <2> QED
    BY <2>1, <2>3, <2>4
<1>11. ASSUME NEW p \in Procs, Touch(p) PROVE LeakInv'
  BY <1>11 DEF Touch
<1>12. ASSUME NEW p \in Procs, Leave(p) PROVE LeakInv'
  BY <1>12 DEF Leave
<1>13. ASSUME NEW p \in Procs, CheckToken(p) PROVE LeakInv'
  BY <1>13 DEF CheckToken, OthersToken
<1>14. ASSUME NEW p \in Procs, ReleaseLock(p) PROVE LeakInv'
  BY <1>14 DEF ReleaseLock
<1>15. ASSUME NEW p \in Procs, LeaveOpen(p) PROVE LeakInv'
  BY <1>15 DEF LeaveOpen
<1>16. ASSUME NEW p \in Procs, Signal(p) PROVE LeakInv'
  BY <1>16 DEF Signal
<1>17. ASSUME NEW p \in Procs, Crash(p) PROVE LeakInv'
  BY <1>17 DEF Crash
<1>18. ASSUME NEW p \in Procs, RecyclePid(p) PROVE LeakInv'
  BY <1>18 DEF RecyclePid
<1>19. CASE ClearLocks
  BY <1>19 DEF ClearLocks
<1>20. CASE GrowOld
  BY <1>20 DEF GrowOld
<1>21. CASE UNCHANGED vars
  BY <1>21 DEF vars
<1> QED
  BY <1>1, <1>2, <1>3, <1>4, <1>5, <1>6, <1>7, <1>8, <1>9, <1>10, <1>11,
     <1>12, <1>13, <1>14, <1>15, <1>16, <1>17, <1>18, <1>19, <1>20, <1>21
     DEF Next, Step

-----------------------------------------------------------------------------
(* What a holder keeps until it is robbed. *)
LEMMA UnrobbedNext == TypeOK /\ UnrobbedHolds /\ [Next]_vars => UnrobbedHolds'
<1> SUFFICES ASSUME TypeOK, UnrobbedHolds, [Next]_vars PROVE UnrobbedHolds'
  OBVIOUS
<1>w. \A p \in Procs : WriteOwner(p) => Rewritten(p)
  BY WrittenDir
<1>n. \A p \in Procs : WriteOwnerFails(p) => UNCHANGED dir \/ Rewritten(NoProc)
  BY NamelessDir
<1> USE ConstantsAssumption, NoDirAssumption DEF TypeOK, Waiting, Holding, InCS, Dir, Fresh, Old, Stale,
        Goto, Forget, Sleep, GiveUp, UnrobbedHolds
<1>1. ASSUME NEW p \in Procs, Start(p) PROVE UnrobbedHolds'
  BY <1>1 DEF Start
<1>2. ASSUME NEW p \in Procs, Mkdir(p) PROVE UnrobbedHolds'
  BY <1>2 DEF Mkdir
<1>3. ASSUME NEW p \in Procs, MkdirExists(p) PROVE UnrobbedHolds'
  BY <1>3 DEF MkdirExists
<1>4. ASSUME NEW p \in Procs, ReadLockOwner(p) PROVE UnrobbedHolds'
  BY <1>4 DEF ReadLockOwner
<1>5. ASSUME NEW p \in Procs, JudgeAbandoned(p) PROVE UnrobbedHolds'
  BY <1>5 DEF JudgeAbandoned
<1>6. ASSUME NEW p \in Procs, JudgeHeld(p) PROVE UnrobbedHolds'
  BY <1>6 DEF JudgeHeld
<1>7. ASSUME NEW p \in Procs, StealLock(p) PROVE UnrobbedHolds'
  BY <1>7 DEF StealLock, Holder
<1>8. ASSUME NEW p \in Procs, StealLost(p) PROVE UnrobbedHolds'
  BY <1>8 DEF StealLost
<1>9. ASSUME NEW p \in Procs, WriteOwner(p) PROVE UnrobbedHolds'
  <2>1. Rewritten(p)
    BY <1>9, <1>w
  <2> QED
    BY <1>9, <2>1 DEF WriteOwner, Rewritten
<1>10. ASSUME NEW p \in Procs, WriteOwnerFails(p) PROVE UnrobbedHolds'
  <2>1. UNCHANGED dir \/ Rewritten(NoProc)
    BY <1>10, <1>n
  <2> QED
    BY <1>10, <2>1 DEF WriteOwnerFails, Rewritten
<1>11. ASSUME NEW p \in Procs, Touch(p) PROVE UnrobbedHolds'
  BY <1>11 DEF Touch
<1>12. ASSUME NEW p \in Procs, Leave(p) PROVE UnrobbedHolds'
  BY <1>12 DEF Leave
<1>13. ASSUME NEW p \in Procs, CheckToken(p) PROVE UnrobbedHolds'
  BY <1>13 DEF CheckToken, OthersToken
<1>14. ASSUME NEW p \in Procs, ReleaseLock(p) PROVE UnrobbedHolds'
  BY <1>14 DEF ReleaseLock, Holder
<1>15. ASSUME NEW p \in Procs, LeaveOpen(p) PROVE UnrobbedHolds'
  BY <1>15 DEF LeaveOpen
<1>16. ASSUME NEW p \in Procs, Signal(p) PROVE UnrobbedHolds'
  BY <1>16 DEF Signal
<1>17. ASSUME NEW p \in Procs, Crash(p) PROVE UnrobbedHolds'
  BY <1>17 DEF Crash
<1>18. ASSUME NEW p \in Procs, RecyclePid(p) PROVE UnrobbedHolds'
  BY <1>18 DEF RecyclePid
<1>19. CASE ClearLocks
  BY <1>19 DEF ClearLocks, Holder
<1>20. CASE GrowOld
  BY <1>20 DEF GrowOld
<1>21. CASE UNCHANGED vars
  BY <1>21 DEF vars
<1> QED
  BY <1>1, <1>2, <1>3, <1>4, <1>5, <1>6, <1>7, <1>8, <1>9, <1>10, <1>11,
     <1>12, <1>13, <1>14, <1>15, <1>16, <1>17, <1>18, <1>19, <1>20, <1>21
     DEF Next, Step

(* Two processes run their fn at once only after one lost its directory.     *)
THEOREM ExclusionTheorem == Spec => []ExclusionUnlessRobbed
<1>1. Init => UnrobbedHolds
  BY DEF Init, UnrobbedHolds, Holding, InCS
<1>2. UnrobbedHolds => ExclusionUnlessRobbed
  BY DEF UnrobbedHolds, ExclusionUnlessRobbed, Holding
<1> QED
  BY <1>1, <1>2, UnrobbedNext, TypeCorrect, PTL DEF Spec

(* A directory at lockPath always names a call in progress or a dead process *)
(* or, without a name, belongs to one that has yet to release it: no         *)
(* interleaving of release, steal, failed write and token check leaves one   *)
(* behind that a live process has forgotten.                                 *)
THEOREM NoLeak == Spec => []NoLeakedLock
<1>1. Init => UnrobbedHolds /\ LeakInv
  BY DEF Init, UnrobbedHolds, Waiting, Holding, InCS, LeakInv, NoLeakedLock
<1>2. LeakInv => NoLeakedLock
  BY DEF LeakInv
<1> QED
  BY <1>1, <1>2, LeakNext, UnrobbedNext, TypeCorrect, PTL DEF Spec

-----------------------------------------------------------------------------
(* A pid reads as dead only when its process is. *)
LEMMA DeadPidsNext == TypeOK /\ DeadPids /\ [Next]_vars => DeadPids'
<1> SUFFICES ASSUME TypeOK, DeadPids, [Next]_vars PROVE DeadPids'
  OBVIOUS
<1> USE ConstantsAssumption, NoDirAssumption DEF TypeOK, Waiting, Holding, InCS, Dir,
        Fresh, Old, Stale, Goto, Forget, Sleep, GiveUp, DeadPids
<1>1. ASSUME NEW p \in Procs, Start(p) PROVE DeadPids'
  BY <1>1 DEF Start
<1>2. ASSUME NEW p \in Procs, Mkdir(p) PROVE DeadPids'
  BY <1>2 DEF Mkdir
<1>3. ASSUME NEW p \in Procs, MkdirExists(p) PROVE DeadPids'
  BY <1>3 DEF MkdirExists
<1>4. ASSUME NEW p \in Procs, ReadLockOwner(p) PROVE DeadPids'
  BY <1>4 DEF ReadLockOwner
<1>5. ASSUME NEW p \in Procs, JudgeAbandoned(p) PROVE DeadPids'
  BY <1>5 DEF JudgeAbandoned
<1>6. ASSUME NEW p \in Procs, JudgeHeld(p) PROVE DeadPids'
  BY <1>6 DEF JudgeHeld
<1>7. ASSUME NEW p \in Procs, StealLock(p) PROVE DeadPids'
  BY <1>7 DEF StealLock
<1>8. ASSUME NEW p \in Procs, StealLost(p) PROVE DeadPids'
  BY <1>8 DEF StealLost
<1>9. ASSUME NEW p \in Procs, WriteOwner(p) PROVE DeadPids'
  BY <1>9 DEF WriteOwner
<1>10. ASSUME NEW p \in Procs, WriteOwnerFails(p) PROVE DeadPids'
  BY <1>10 DEF WriteOwnerFails
<1>11. ASSUME NEW p \in Procs, Touch(p) PROVE DeadPids'
  BY <1>11 DEF Touch
<1>12. ASSUME NEW p \in Procs, Leave(p) PROVE DeadPids'
  BY <1>12 DEF Leave
<1>13. ASSUME NEW p \in Procs, CheckToken(p) PROVE DeadPids'
  BY <1>13 DEF CheckToken
<1>14. ASSUME NEW p \in Procs, ReleaseLock(p) PROVE DeadPids'
  BY <1>14 DEF ReleaseLock
<1>15. ASSUME NEW p \in Procs, LeaveOpen(p) PROVE DeadPids'
  BY <1>15 DEF LeaveOpen
<1>16. ASSUME NEW p \in Procs, Signal(p) PROVE DeadPids'
  BY <1>16 DEF Signal
<1>17. ASSUME NEW p \in Procs, Crash(p) PROVE DeadPids'
  BY <1>17 DEF Crash
<1>18. ASSUME NEW p \in Procs, RecyclePid(p) PROVE DeadPids'
  BY <1>18 DEF RecyclePid
<1>19. CASE ClearLocks
  BY <1>19 DEF ClearLocks
<1>20. CASE GrowOld
  BY <1>20 DEF GrowOld, Stalled, Sync, Holder
<1>21. CASE UNCHANGED vars
  BY <1>21 DEF vars
<1> QED
  BY <1>1, <1>2, <1>3, <1>4, <1>5, <1>6, <1>7, <1>8, <1>9, <1>10, <1>11,
     <1>12, <1>13, <1>14, <1>15, <1>16, <1>17, <1>18, <1>19, <1>20, <1>21
     DEF Next, Step

-----------------------------------------------------------------------------
(* A step that disturbs nothing keeps the lock quiet. *)
LEMMA QuietNext == TypeOK /\ UnrobbedHolds /\ DeadPids /\ Quiet /\ disturbed' = {} /\ [Next]_vars => Quiet'
<1> SUFFICES ASSUME TypeOK, UnrobbedHolds, DeadPids, Quiet, disturbed' = {}, [Next]_vars PROVE Quiet'
  OBVIOUS
<1>w. \A p \in Procs : WriteOwner(p) => Rewritten(p)
  BY WrittenDir
<1>n. \A p \in Procs : WriteOwnerFails(p) => UNCHANGED dir \/ Rewritten(NoProc)
  BY NamelessDir
<1> USE ConstantsAssumption, NoDirAssumption DEF TypeOK, Waiting, Holding, InCS, Dir,
        Fresh, Old, Stale, Goto, Forget, Sleep, GiveUp, UnrobbedHolds, DeadPids, Quiet,
        QuietDir, QuietJudge, QuietSteal, QuietPC
<1>1. ASSUME NEW p \in Procs, Start(p) PROVE Quiet'
  BY <1>1 DEF Start
<1>2. ASSUME NEW p \in Procs, Mkdir(p) PROVE Quiet'
  BY <1>2 DEF Mkdir
<1>3. ASSUME NEW p \in Procs, MkdirExists(p) PROVE Quiet'
  BY <1>3 DEF MkdirExists
<1>4. ASSUME NEW p \in Procs, ReadLockOwner(p) PROVE Quiet'
  BY <1>4 DEF ReadLockOwner
<1>5. ASSUME NEW p \in Procs, JudgeAbandoned(p) PROVE Quiet'
  BY <1>5 DEF JudgeAbandoned, Abandoned, SeenOwner
<1>6. ASSUME NEW p \in Procs, JudgeHeld(p) PROVE Quiet'
  BY <1>6 DEF JudgeHeld, Abandoned, SeenOwner
<1>7. ASSUME NEW p \in Procs, StealLock(p) PROVE Quiet'
  BY <1>7 DEF StealLock, Holder, RobsUnseen
<1>8. ASSUME NEW p \in Procs, StealLost(p) PROVE Quiet'
  BY <1>8 DEF StealLost
<1>9. ASSUME NEW p \in Procs, WriteOwner(p) PROVE Quiet'
  <2>1. /\ dir \in Dir /\ dir' \in Dir
        /\ dir'.maker = p /\ dir'.owner = p /\ dir'.age = Fresh
    <3>1. /\ dir \in Dir /\ dir' \in Dir
          /\ dir'.maker = dir.maker /\ dir'.owner = p
          /\ dir'.age \in {Fresh, dir.age}
      <4>1. Rewritten(p)
        BY <1>9, <1>w
      <4> QED
        BY <4>1 DEF Rewritten
    <3>2. dir.maker = p /\ pc[p] = "write" /\ dir.age = Fresh
      BY <1>9, <3>1 DEF WriteOwner
    <3> QED
      BY <3>1, <3>2
  <2>2. /\ pc' = [pc EXCEPT ![p] = "cs"]
        /\ pc[p] = "write" /\ UNCHANGED <<seen, robbed>>
    BY <1>9 DEF WriteOwner
  <2>3. QuietDir'
    BY <2>1, <2>2
  <2> QED
    BY <2>1, <2>2, <2>3
<1>10. ASSUME NEW p \in Procs, WriteOwnerFails(p) PROVE Quiet'
  BY <1>10 DEF WriteOwnerFails
<1>11. ASSUME NEW p \in Procs, Touch(p) PROVE Quiet'
  BY <1>11 DEF Touch
<1>12. ASSUME NEW p \in Procs, Leave(p) PROVE Quiet'
  BY <1>12 DEF Leave
<1>13. ASSUME NEW p \in Procs, CheckToken(p) PROVE Quiet'
  BY <1>13 DEF CheckToken, OthersToken
<1>14. ASSUME NEW p \in Procs, ReleaseLock(p) PROVE Quiet'
  BY <1>14 DEF ReleaseLock, Holder
<1>15. ASSUME NEW p \in Procs, LeaveOpen(p) PROVE Quiet'
  BY <1>15 DEF LeaveOpen
<1>16. ASSUME NEW p \in Procs, Signal(p) PROVE Quiet'
  BY <1>16 DEF Signal
<1>17. ASSUME NEW p \in Procs, Crash(p) PROVE Quiet'
  BY <1>17 DEF Crash
<1>18. ASSUME NEW p \in Procs, RecyclePid(p) PROVE Quiet'
  BY <1>18 DEF RecyclePid
<1>19. CASE ClearLocks
  BY <1>19 DEF ClearLocks, Holder
<1>20. CASE GrowOld
  <2>1. ~Stalled
    BY <1>20 DEF GrowOld
  <2>2. \A p \in Procs : pc[p] \notin {"judge", "steal", "write"}
    BY <2>1 DEF Stalled, Sync
  <2>3. dir.age = Old => pc[dir.maker] \notin Holding
    BY <1>20, <2>1 DEF GrowOld, Stalled, Holder
  <2>4. /\ dir # NoDir /\ dir \in Dir
        /\ dir'.maker = dir.maker /\ dir'.owner = dir.owner
        /\ dir.age \in {Fresh, Old} /\ dir'.age = dir.age + 1
    BY <1>20 DEF GrowOld
  <2>5. UNCHANGED <<pc, seen, robbed>>
    BY <1>20 DEF GrowOld
  <2>6. QuietDir'
    BY <2>2, <2>3, <2>4, <2>5
  <2>7. QuietJudge' /\ QuietSteal' /\ QuietPC'
    BY <2>2, <2>5
  <2> QED
    BY <2>5, <2>6, <2>7
<1>21. CASE UNCHANGED vars
  BY <1>21 DEF vars
<1> QED
  BY <1>1, <1>2, <1>3, <1>4, <1>5, <1>6, <1>7, <1>8, <1>9, <1>10, <1>11,
     <1>12, <1>13, <1>14, <1>15, <1>16, <1>17, <1>18, <1>19, <1>20, <1>21
     DEF Next, Step

(* Crashes, recycled pids, dead owners and give-ups included, exclusion      *)
(* holds until a signal, clearLocks, a stalled process, the theft of an      *)
(* unseen directory or a failed write of owner.json.                         *)
THEOREM UndisturbedTheorem == Spec => []UndisturbedExclusion
<1>1. Init => IInv
  BY TypeInit DEF Init, IInv, UnrobbedHolds, DeadPids, Quiet, QuietDir, QuietJudge,
     QuietSteal, QuietPC, Holding, InCS
<1>2. [Next]_vars => disturbed \subseteq disturbed'
  BY DEF Next, Step, vars, Start, Mkdir, MkdirExists, ReadLockOwner, JudgeAbandoned,
     JudgeHeld, StealLock, StealLost, WriteOwner, WriteOwnerFails, Touch, Leave,
     CheckToken, ReleaseLock, LeaveOpen, Signal, Crash, RecyclePid, ClearLocks, GrowOld
<1>3. IInv /\ [Next]_vars => IInv'
  BY <1>2, TypeNext, UnrobbedNext, DeadPidsNext, QuietNext DEF IInv
<1>4. IInv => UndisturbedExclusion
  BY DEF IInv, Quiet, UnrobbedHolds, UndisturbedExclusion, MutualExclusion, Holding
<1> QED
  BY <1>1, <1>3, <1>4, PTL DEF Spec

=============================================================================
