-------------------------- MODULE CacheStoreProofs ---------------------------
(* Machine-checked proofs about CacheStore. *)
EXTENDS CacheStore, TLAPS

(* The file lock is held exactly by the process between its load and save.   *)
LockedSection ==
  \A p \in Procs : pc[p] = "save" <=> fileLock = p

(* What was loaded under the lock is what the file still holds: all of it,   *)
(* or, for set, all but expired entries, or nothing when the load failed.    *)
SnapCurrent ==
  \A p \in Procs : pc[p] = "save" =>
    /\ call[p].write # "set" => ~call[p].blind /\ call[p].snap = file
    /\ call[p].blind => call[p].snap = EmptyFile
    /\ ~call[p].blind =>
         \A k \in Keys :
           \/ call[p].snap[k] = file[k]
           \/ Expired(file[k]) /\ call[p].snap[k] = NoEntry

(* A process that is to store something has it. *)
HasValue ==
  \A p \in Procs : call[p].write = "set" => call[p].new \in Entries

IInv == TypeOK /\ LockedSection /\ SnapCurrent /\ HasValue

-----------------------------------------------------------------------------
LEMMA EmptyFileType == EmptyFile \in Files
  BY DEF EmptyFile, Files

LEMMA NewCallType ==
  ASSUME NEW o \in {"get", "getOrSet", "set", "delete", "clearAll"}, NEW k \in Keys
  PROVE  NewCall(o, k) \in Calls
  BY EmptyFileType DEF NewCall, Calls

LEMMA NoCallType == NoCall \in Calls
<1>1. (CHOOSE k \in Keys : TRUE) \in Keys
  BY ConstantsAssumption
<1> QED
  BY <1>1, NewCallType DEF NoCall

LEMMA SettingType ==
  ASSUME TypeOK, NEW c \in Calls, nextId < MaxId
  PROVE  Setting(c) \in Calls /\ Setting(c).new \in Entries /\ nextId + 1 \in 0..MaxId
<1> DEFINE e == [id |-> nextId, exp |-> now + Ttl, locked |-> c.mode = "held"]
<1>1. e \in Entries /\ nextId + 1 \in 0..MaxId
  BY ConstantsAssumption DEF TypeOK, Entries
<1>2. Setting(c) = [c EXCEPT !.new = e, !.write = "set", !.blind = FALSE]
  BY DEF Setting
<1> HIDE DEF e
<1> QED
  BY <1>1, <1>2 DEF Calls

LEMMA LoadedType ==
  ASSUME TypeOK, NEW c \in Calls
  PROVE  Loaded(c) \in Files
  BY DEF TypeOK, Loaded, Files

LEMMA ContentsType ==
  ASSUME NEW c \in Calls, c.write = "set" => c.new \in Entries
  PROVE  Contents(c) \in Files
  BY EmptyFileType DEF Contents, Calls, Files

(* Every action moves one process through Goto. *)
LEMMA GotoType ==
  ASSUME TypeOK, NEW p \in Procs, NEW l \in PCs, NEW c \in Calls, Goto(p, l, c)
  PROVE  /\ pc' \in [Procs -> PCs]
         /\ call' \in [Procs -> Calls]
  BY NoCallType DEF Goto, TypeOK

LEMMA CallType == ASSUME TypeOK, NEW p \in Procs PROVE call[p] \in Calls
  BY DEF TypeOK

LEMMA TypeInit == Init => TypeOK
  BY ConstantsAssumption, EmptyFileType, NoCallType DEF Init, TypeOK, PCs

LEMMA TypeNext == TypeOK /\ [Next]_vars => TypeOK'
<1> SUFFICES ASSUME TypeOK, [Next]_vars PROVE TypeOK'
  OBVIOUS
<1> DEFINE Moved == pc' \in [Procs -> PCs] /\ call' \in [Procs -> Calls]
<1>1. ASSUME NEW p \in Procs, NEW k \in Keys, NEW o \in {"get", "getOrSet"}, CallGet(p, o, k)
      PROVE  TypeOK'
  <2>1. NewCall(o, k) \in Calls
    BY NewCallType
  <2>2. Moved
    BY <1>1, <2>1, GotoType DEF CallGet, PCs
  <2> QED
    BY <1>1, <2>2 DEF CallGet, TypeOK
<1>2. ASSUME NEW p \in Procs, NEW k \in Keys, CallSet(p, k) PROVE TypeOK'
  <2>1. Setting(NewCall("set", k)) \in Calls /\ nextId + 1 \in 0..MaxId
    BY <1>2, NewCallType, SettingType DEF CallSet
  <2>2. Moved
    BY <1>2, <2>1, GotoType DEF CallSet, PCs
  <2> QED
    BY <1>2, <2>1, <2>2 DEF CallSet, TypeOK
<1>3. ASSUME NEW p \in Procs, NEW k \in Keys, CallDelete(p, k) PROVE TypeOK'
  <2>1. NewCall("delete", k) \in Calls
    BY NewCallType
  <2>2. Moved
    BY <1>3, <2>1, GotoType DEF CallDelete, PCs
  <2> QED
    BY <1>3, <2>2 DEF CallDelete, TypeOK
<1>4. ASSUME NEW p \in Procs, CallClearAll(p) PROVE TypeOK'
  <2>1. [NoCall EXCEPT !.op = "clearAll", !.write = "clearAll"] \in Calls
    BY NoCallType DEF Calls
  <2>2. Moved
    BY <1>4, <2>1, GotoType DEF CallClearAll, PCs
  <2> QED
    BY <1>4, <2>2 DEF CallClearAll, TypeOK
<1>5a. ASSUME NEW p \in Procs, LoadFails(p) PROVE TypeOK'
  <2> DEFINE c == [call[p] EXCEPT !.ent = NoEntry, !.write = "delete", !.blind = TRUE]
  <2>1. c \in Calls
    BY CallType DEF Calls
  <2>2. \E l \in PCs : Goto(p, l, c)
    BY <1>5a DEF LoadFails, AfterMiss, PCs
  <2> HIDE DEF c
  <2>3. Moved
    BY <2>1, <2>2, GotoType
  <2> QED
    BY <1>5a, <2>3 DEF LoadFails, TypeOK
<1>5. ASSUME NEW p \in Procs, Load(p) PROVE TypeOK'
  <2> DEFINE c == [call[p] EXCEPT !.ent = file[call[p].key], !.write = "delete",
                                  !.blind = FALSE]
  <2>1. c \in Calls
    BY CallType DEF Calls, TypeOK, Files
  <2>2. \E l \in PCs : Goto(p, l, c)
    BY <1>5 DEF Load, AfterMiss, PCs
  <2> HIDE DEF c
  <2>3. Moved
    BY <2>1, <2>2, GotoType
  <2> QED
    BY <1>5, <2>3 DEF Load, TypeOK
<1>6. ASSUME NEW p \in Procs,
             Decrypt(p) \/ ProduceNothing(p) \/ Encrypt(p) \/ FileLockTimeout(p)
      PROVE  TypeOK'
  <2>1. \E l \in PCs : Goto(p, l, call[p])
    BY <1>6 DEF Decrypt, ProduceNothing, Encrypt, FileLockTimeout, AfterValue,
         AfterWrite, AfterMiss, PCs
  <2>2. Moved
    BY <2>1, CallType, GotoType
  <2> QED
    BY <1>6, <2>2 DEF Decrypt, ProduceNothing, Encrypt, FileLockTimeout, TypeOK
<1>7. ASSUME NEW p \in Procs, TakeKeyLock(p) \/ KeyLockTimeout(p) PROVE TypeOK'
  <2>1. /\ [call[p] EXCEPT !.mode = "held"] \in Calls
        /\ [call[p] EXCEPT !.mode = "open"] \in Calls
        /\ call[p].key \in Keys
    BY CallType DEF Calls
  <2>2. Moved
    BY <1>7, <2>1, GotoType DEF TakeKeyLock, KeyLockTimeout, PCs
  <2>3. keyLock' \in [Keys -> Procs \cup {NoProc}]
    BY <1>7, <2>1 DEF TakeKeyLock, KeyLockTimeout, TypeOK
  <2> QED
    BY <1>7, <2>2, <2>3 DEF TakeKeyLock, KeyLockTimeout, TypeOK
<1>8. ASSUME NEW p \in Procs, ProduceValue(p) PROVE TypeOK'
  <2>1. Setting(call[p]) \in Calls /\ nextId + 1 \in 0..MaxId
    BY <1>8, CallType, SettingType DEF ProduceValue
  <2>2. Moved
    BY <1>8, <2>1, GotoType DEF ProduceValue, PCs
  <2> QED
    BY <1>8, <2>1, <2>2 DEF ProduceValue, TypeOK
<1>9. ASSUME NEW p \in Procs, TakeFileLock(p) PROVE TypeOK'
  <2>1. Loaded(call[p]) \in Files
    BY CallType, LoadedType
  <2>2. [call[p] EXCEPT !.snap = Loaded(call[p]), !.blind = FALSE] \in Calls
    BY <2>1, CallType DEF Calls
  <2>3. Moved
    BY <1>9, <2>2, GotoType DEF TakeFileLock, PCs
  <2> QED
    BY <1>9, <2>3 DEF TakeFileLock, TypeOK
<1>9a. ASSUME NEW p \in Procs, TakeFileLockBlind(p) PROVE TypeOK'
  <2> DEFINE c == [call[p] EXCEPT !.snap = EmptyFile, !.blind = TRUE]
  <2>1. c \in Calls
    BY EmptyFileType, CallType DEF Calls
  <2>2. AfterWrite(call[p]) \in PCs /\ "save" \in PCs
    BY DEF AfterWrite, AfterMiss, PCs
  <2>3. Goto(p, "save", c) \/ Goto(p, AfterWrite(call[p]), call[p])
    BY <1>9a DEF TakeFileLockBlind
  <2> HIDE DEF c
  <2>4. Moved
    BY <2>1, <2>2, <2>3, CallType, GotoType
  <2> QED
    BY <1>9a, <2>4 DEF TakeFileLockBlind, TypeOK
<1>10. ASSUME NEW p \in Procs, Save(p) \/ SaveFails(p) PROVE TypeOK'
  <2>1. [call[p] EXCEPT !.snap = EmptyFile] \in Calls
    BY CallType, EmptyFileType DEF Calls
  <2>2. AfterWrite(call[p]) \in PCs
    BY DEF AfterWrite, AfterMiss, PCs
  <2>3. Moved
    BY <1>10, <2>1, <2>2, GotoType DEF Save, SaveFails
  <2>4. file' \in Files
    BY <1>10, CallType, EmptyFileType DEF Save, SaveFails, Contents, Calls, Files, TypeOK
  <2> QED
    BY <1>10, <2>3, <2>4 DEF Save, SaveFails, TypeOK
<1>11. ASSUME NEW p \in Procs, Unlock(p) \/ Crash(p) PROVE TypeOK'
  <2>1. Moved
    BY <1>11, CallType, GotoType DEF Unlock, Crash, PCs
  <2>2. keyLock' \in [Keys -> Procs \cup {NoProc}]
    BY <1>11, CallType DEF Unlock, Crash, TypeOK, Calls
  <2> QED
    BY <1>11, <2>1, <2>2, ConstantsAssumption DEF Unlock, Crash, TypeOK
<1>12. CASE Tick
  BY <1>12, ConstantsAssumption DEF Tick, TypeOK
<1>13. CASE UNCHANGED vars
  BY <1>13 DEF vars, TypeOK
<1> QED
  BY <1>1, <1>2, <1>3, <1>4, <1>5, <1>5a, <1>6, <1>7, <1>8, <1>9, <1>9a, <1>10, <1>11, <1>12,
     <1>13
     DEF Next, Step

(* The locals of every call and the file keep their types. *)
THEOREM TypeCorrect == Spec => []TypeOK
  BY TypeInit, TypeNext, PTL DEF Spec

-----------------------------------------------------------------------------
(* The locals of a call that has just begun, or ended. *)
LEMMA FreshCall ==
  /\ \A o, k : NewCall(o, k).write = "delete"
  /\ NoCall.write = "delete"
  BY DEF NewCall, NoCall

(* A step that stays outside the locked section and leaves the file alone.   *)
LEMMA StepAside ==
  ASSUME IInv, NEW p \in Procs, NEW l \in PCs \ {"save"}, NEW c \in Calls,
         Goto(p, l, c), pc[p] # "save", UNCHANGED <<file, now, fileLock>>,
         c.write = "set" => c.new \in Entries
  PROVE  LockedSection' /\ SnapCurrent' /\ HasValue'
<1>1. /\ pc' = [pc EXCEPT ![p] = l]
      /\ call' = [call EXCEPT ![p] = IF l = "idle" THEN NoCall ELSE c]
      /\ pc \in [Procs -> PCs]
      /\ call \in [Procs -> Calls]
  BY DEF Goto, IInv, TypeOK
<1>2. LockedSection'
  BY <1>1 DEF IInv, LockedSection
<1>3. SnapCurrent'
  BY <1>1 DEF IInv, SnapCurrent, Expired
<1>4. HasValue'
  BY <1>1, FreshCall DEF IInv, HasValue
<1> QED
  BY <1>2, <1>3, <1>4

(* A process that gives up the file lock without writing. *)
LEMMA StepOut ==
  ASSUME IInv, NEW p \in Procs, NEW l \in PCs \ {"save"}, NEW c \in Calls,
         Goto(p, l, c), fileLock' = (IF fileLock = p THEN NoProc ELSE fileLock),
         UNCHANGED <<file, now>>, c.write = "set" => c.new \in Entries
  PROVE  LockedSection' /\ SnapCurrent' /\ HasValue'
<1>1. /\ pc' = [pc EXCEPT ![p] = l]
      /\ call' = [call EXCEPT ![p] = IF l = "idle" THEN NoCall ELSE c]
      /\ pc \in [Procs -> PCs]
      /\ call \in [Procs -> Calls]
  BY DEF Goto, IInv, TypeOK
<1>2. LockedSection'
  BY <1>1, ConstantsAssumption DEF IInv, LockedSection
<1>3. SnapCurrent'
  BY <1>1 DEF IInv, SnapCurrent, Expired
<1>4. HasValue'
  BY <1>1, FreshCall DEF IInv, HasValue
<1> QED
  BY <1>2, <1>3, <1>4

(* Whoever takes the file lock loads what the file holds. *)
LEMMA TakeFileLockKeeps ==
  ASSUME IInv, NEW p \in Procs, TakeFileLock(p)
  PROVE  LockedSection' /\ SnapCurrent' /\ HasValue'
<1> DEFINE snap == Loaded(call[p])
<1>1. /\ pc' = [pc EXCEPT ![p] = "save"]
      /\ call' = [call EXCEPT ![p] = [call[p] EXCEPT !.snap = snap, !.blind = FALSE]]
      /\ fileLock = NoProc /\ fileLock' = p
      /\ UNCHANGED <<file, now>>
      /\ pc \in [Procs -> PCs]
      /\ call \in [Procs -> Calls]
      /\ call[p] \in Calls
      /\ file \in Files
  BY DEF TakeFileLock, Goto, IInv, TypeOK
<1>2. /\ call[p].write # "set" => snap = file
      /\ \A k \in Keys : snap[k] = file[k] \/ (Expired(file[k]) /\ snap[k] = NoEntry)
  BY <1>1 DEF Loaded, Files
<1> HIDE DEF snap
<1>3. /\ call'[p].snap = snap /\ call'[p].write = call[p].write
      /\ call'[p].new = call[p].new /\ ~call'[p].blind
      /\ \A q \in Procs \ {p} : call'[q] = call[q] /\ pc'[q] = pc[q] /\ pc[q] # "save"
  BY <1>1, ConstantsAssumption DEF Calls, IInv, LockedSection
<1>4. LockedSection'
  BY <1>1, <1>3, ConstantsAssumption DEF LockedSection
<1>5. SnapCurrent'
  BY <1>1, <1>2, <1>3 DEF SnapCurrent, Expired
<1>6. HasValue'
  BY <1>3 DEF IInv, HasValue
<1> QED
  BY <1>4, <1>5, <1>6

(* A set that could not load the file holds an empty snapshot. *)
LEMMA TakeFileLockBlindKeeps ==
  ASSUME IInv, NEW p \in Procs, TakeFileLockBlind(p)
  PROVE  LockedSection' /\ SnapCurrent' /\ HasValue'
<1> DEFINE c == [call[p] EXCEPT !.snap = EmptyFile, !.blind = TRUE]
<1>0. /\ call[p] \in Calls /\ (call[p].write = "set" => call[p].new \in Entries)
      /\ pc[p] = "fileWait" /\ fileLock = NoProc /\ UNCHANGED <<file, now>>
  BY CallType DEF IInv, HasValue, TakeFileLockBlind
<1>1. CASE call[p].write # "set"
  <2>1. Goto(p, AfterWrite(call[p]), call[p]) /\ UNCHANGED fileLock
    BY <1>1 DEF TakeFileLockBlind
  <2>2. AfterWrite(call[p]) \in PCs \ {"save"}
    BY DEF AfterWrite, AfterMiss, PCs
  <2> QED
    BY <1>0, <1>1, <2>1, <2>2, StepAside
<1>2. CASE call[p].write = "set"
  <2>1. /\ pc' = [pc EXCEPT ![p] = "save"]
        /\ call' = [call EXCEPT ![p] = c]
        /\ fileLock' = p
        /\ pc \in [Procs -> PCs]
        /\ call \in [Procs -> Calls]
    BY <1>2 DEF TakeFileLockBlind, Goto, IInv, TypeOK
  <2>2. /\ c.snap = EmptyFile /\ c.write = "set" /\ c.new = call[p].new /\ c.blind
    BY <1>0, <1>2 DEF Calls
  <2> HIDE DEF c
  <2>3. /\ call'[p] = c
        /\ \A q \in Procs \ {p} : call'[q] = call[q] /\ pc'[q] = pc[q] /\ pc[q] # "save"
    BY <1>0, <2>1, ConstantsAssumption DEF IInv, LockedSection
  <2>4. LockedSection'
    BY <2>1, <2>3, ConstantsAssumption DEF LockedSection
  <2>5. SnapCurrent'
    BY <2>1, <2>2, <2>3 DEF SnapCurrent
  <2>6. HasValue'
    BY <1>0, <1>2, <2>2, <2>3 DEF IInv, HasValue
  <2> QED
    BY <2>4, <2>5, <2>6
<1> QED
  BY <1>1, <1>2

(* Only the holder of the file lock writes, so no other snapshot is current. *)
LEMMA SaveKeeps ==
  ASSUME IInv, NEW p \in Procs, Save(p)
  PROVE  LockedSection' /\ SnapCurrent' /\ HasValue'
<1> DEFINE l == AfterWrite(call[p])
<1>1. /\ l \in PCs \ {"save"}
      /\ pc' = [pc EXCEPT ![p] = l]
      /\ call' = [call EXCEPT ![p] = IF l = "idle" THEN NoCall
                                     ELSE [call[p] EXCEPT !.snap = EmptyFile]]
  <2>1. l \in PCs \ {"save"}
    BY DEF AfterWrite, AfterMiss, PCs
  <2> QED
    BY <2>1 DEF Save, Goto
<1> HIDE DEF l
<1>2. /\ fileLock = p /\ fileLock' = NoProc
      /\ pc \in [Procs -> PCs]
      /\ call \in [Procs -> Calls]
      /\ \A q \in Procs \ {p} : pc[q] # "save"
  BY ConstantsAssumption DEF Save, IInv, TypeOK, LockedSection
<1>3. \A q \in Procs : pc'[q] # "save"
  BY <1>1, <1>2
<1>4. LockedSection' /\ SnapCurrent'
  BY <1>2, <1>3, ConstantsAssumption DEF LockedSection, SnapCurrent
<1>5. HasValue'
  BY <1>1, <1>2, FreshCall DEF IInv, HasValue, Calls
<1> QED
  BY <1>4, <1>5

LEMMA InvNext == IInv /\ [Next]_vars => IInv'
<1> SUFFICES ASSUME IInv, [Next]_vars PROVE LockedSection' /\ SnapCurrent' /\ HasValue'
  BY TypeNext DEF IInv
<1> USE DEF PCs
<1> DEFINE Kept == LockedSection' /\ SnapCurrent' /\ HasValue'
<1>0. ASSUME NEW p \in Procs
      PROVE  call[p] \in Calls /\ (call[p].write = "set" => call[p].new \in Entries)
  BY <1>0, CallType DEF IInv, HasValue
<1>1. ASSUME NEW p \in Procs, NEW k \in Keys, NEW o \in {"get", "getOrSet"}, CallGet(p, o, k)
      PROVE  Kept
  BY <1>1, NewCallType, FreshCall, StepAside DEF CallGet
<1>2. ASSUME NEW p \in Procs, NEW k \in Keys, CallSet(p, k) PROVE Kept
  <2>1. /\ Setting(NewCall("set", k)) \in Calls
        /\ Setting(NewCall("set", k)).new \in Entries
    BY <1>2, NewCallType, SettingType DEF CallSet, IInv
  <2> QED
    BY <1>2, <2>1, StepAside DEF CallSet
<1>3. ASSUME NEW p \in Procs, NEW k \in Keys, CallDelete(p, k) PROVE Kept
  BY <1>3, NewCallType, FreshCall, StepAside DEF CallDelete
<1>4. ASSUME NEW p \in Procs, CallClearAll(p) PROVE Kept
  <2> DEFINE c == [NoCall EXCEPT !.op = "clearAll", !.write = "clearAll"]
  <2>1. c \in Calls /\ c.write = "clearAll"
    BY NoCallType DEF Calls
  <2> HIDE DEF c
  <2>2. Goto(p, "fileWait", c) /\ pc[p] # "save" /\ UNCHANGED <<file, now, fileLock>>
    BY <1>4 DEF CallClearAll, c
  <2> QED
    BY <2>1, <2>2, StepAside
<1>5a. ASSUME NEW p \in Procs, LoadFails(p) PROVE Kept
  <2> DEFINE c == [call[p] EXCEPT !.ent = NoEntry, !.write = "delete", !.blind = TRUE]
  <2>1. c \in Calls /\ c.write = "delete"
    BY <1>0 DEF Calls
  <2>2. \E l \in PCs \ {"save"} : Goto(p, l, c)
    BY <1>5a DEF LoadFails, AfterMiss
  <2> HIDE DEF c
  <2>3. pc[p] # "save" /\ UNCHANGED <<file, now, fileLock>>
    BY <1>5a DEF LoadFails
  <2> QED
    BY <2>1, <2>2, <2>3, StepAside
<1>5. ASSUME NEW p \in Procs, Load(p) PROVE Kept
  <2> DEFINE c == [call[p] EXCEPT !.ent = file[call[p].key], !.write = "delete",
                                  !.blind = FALSE]
  <2>1. c \in Calls /\ c.write = "delete"
    BY CallType DEF Calls, IInv, TypeOK, Files
  <2>2. \E l \in PCs \ {"save"} : Goto(p, l, c)
    BY <1>5 DEF Load, AfterMiss
  <2> HIDE DEF c
  <2>3. pc[p] # "save" /\ UNCHANGED <<file, now, fileLock>>
    BY <1>5 DEF Load
  <2> QED
    BY <2>1, <2>2, <2>3, StepAside
<1>6. ASSUME NEW p \in Procs,
             Decrypt(p) \/ ProduceNothing(p) \/ Encrypt(p) \/ FileLockTimeout(p) \/ Unlock(p)
      PROVE  Kept
  <2>1. \E l \in PCs \ {"save"} : Goto(p, l, call[p])
    BY <1>6 DEF Decrypt, ProduceNothing, Encrypt, FileLockTimeout, Unlock, AfterValue,
         AfterWrite, AfterMiss
  <2>2. pc[p] # "save" /\ UNCHANGED <<file, now, fileLock>>
    BY <1>6 DEF Decrypt, ProduceNothing, Encrypt, FileLockTimeout, Unlock
  <2> QED
    BY <1>0, <2>1, <2>2, StepAside
<1>7. ASSUME NEW p \in Procs, NEW m \in {"held", "open"},
             Goto(p, "load", [call[p] EXCEPT !.mode = m]),
             pc[p] = "keyWait", UNCHANGED <<file, now, fileLock>>
      PROVE  Kept
  <2> DEFINE c == [call[p] EXCEPT !.mode = m]
  <2>1. c \in Calls /\ c.write = call[p].write /\ c.new = call[p].new
    BY <1>0 DEF Calls
  <2> HIDE DEF c
  <2>2. Goto(p, "load", c)
    BY <1>7 DEF c
  <2> QED
    BY <1>0, <1>7, <2>1, <2>2, StepAside
<1>8. ASSUME NEW p \in Procs, TakeKeyLock(p) \/ KeyLockTimeout(p) PROVE Kept
  BY <1>7, <1>8 DEF TakeKeyLock, KeyLockTimeout
<1>9. ASSUME NEW p \in Procs, ProduceValue(p) PROVE Kept
  <2>1. Setting(call[p]) \in Calls /\ Setting(call[p]).new \in Entries
    BY <1>9, <1>0, SettingType DEF ProduceValue, IInv
  <2> QED
    BY <1>9, <2>1, StepAside DEF ProduceValue
<1>10. ASSUME NEW p \in Procs, TakeFileLock(p) PROVE Kept
  BY <1>10, TakeFileLockKeeps
<1>10a. ASSUME NEW p \in Procs, TakeFileLockBlind(p) PROVE Kept
  BY <1>10a, TakeFileLockBlindKeeps
<1>11. ASSUME NEW p \in Procs, Save(p) PROVE Kept
  BY <1>11, SaveKeeps
<1>12. ASSUME NEW p \in Procs, Crash(p) PROVE Kept
  BY <1>12, <1>0, StepOut DEF Crash
<1>13. ASSUME NEW p \in Procs, SaveFails(p) PROVE Kept
  <2> DEFINE c == [call[p] EXCEPT !.snap = EmptyFile]
  <2>1. c \in Calls /\ c.write = call[p].write /\ c.new = call[p].new
    BY <1>0, EmptyFileType DEF Calls
  <2>2. \E l \in PCs \ {"save"} : Goto(p, l, c)
    BY <1>13 DEF SaveFails, AfterWrite, AfterMiss
  <2> HIDE DEF c
  <2>3. fileLock = p
    BY <1>13 DEF SaveFails, IInv, LockedSection
  <2> QED
    BY <1>0, <1>13, <2>1, <2>2, <2>3, StepOut DEF SaveFails
<1>14. CASE Tick
  BY <1>14, ConstantsAssumption
     DEF Tick, IInv, TypeOK, Files, Entries, LockedSection, SnapCurrent, HasValue, Expired
<1>15. CASE UNCHANGED vars
  BY <1>15 DEF vars, IInv, LockedSection, SnapCurrent, HasValue, Expired
<1> QED
  BY <1>1, <1>2, <1>3, <1>4, <1>5, <1>5a, <1>6, <1>8, <1>9, <1>10, <1>10a, <1>11, <1>12,
     <1>13, <1>14, <1>15
     DEF Next, Step

LEMMA InvInit == Init => IInv
<1> SUFFICES ASSUME Init PROVE IInv
  OBVIOUS
<1>1. \A p \in Procs : pc[p] = "idle" /\ call[p] = NoCall
  BY Zenon DEF Init
<1> QED
  BY <1>1, TypeInit, FreshCall, ConstantsAssumption
     DEF Init, IInv, LockedSection, SnapCurrent, HasValue

-----------------------------------------------------------------------------
(* Only the holder of the file lock can have misread the file. *)
LEMMA MisreadHolder ==
  ASSUME IInv, NEW p \in Procs, pc[p] = "save"
  PROVE  Misread <=> call[p].blind
<1>1. \A q \in Procs : pc[q] = "save" => q = p
  BY DEF IInv, LockedSection
<1> QED
  BY <1>1 DEF Misread

LEMMA NobodyMisread ==
  ASSUME LockedSection, fileLock = NoProc
  PROVE  ~Misread
  BY ConstantsAssumption DEF LockedSection, Misread

(* A save is one update of the abstract map, at the key of the call. *)
LEMMA SaveRefines ==
  ASSUME IInv, IInv', NEW p \in Procs, Save(p)
  PROVE  Map!Next
<1> DEFINE c == call[p]
           k == c.key
<1>1. /\ file' = Contents(c)
      /\ UNCHANGED now
      /\ c \in Calls
      /\ k \in Keys
      /\ file \in Files
      /\ pc[p] = "save"
  BY CallType DEF Save, IInv, TypeOK, Calls
<1>2. /\ c.write # "set" => ~c.blind /\ c.snap = file
      /\ c.blind => c.snap = EmptyFile
      /\ ~c.blind =>
           \A j \in Keys : c.snap[j] = file[j] \/ (Expired(file[j]) /\ c.snap[j] = NoEntry)
      /\ c.write = "set" => c.new \in Entries
  BY <1>1 DEF IInv, SnapCurrent, HasValue
<1>3. c.write \in {"set", "delete", "clearAll"} /\ c.snap \in Files
  BY <1>1 DEF Calls
<1>m. (Misread <=> c.blind) /\ ~Misread'
  <2>1. \A q \in Procs : pc'[q] # "save"
    BY ConstantsAssumption DEF Save, IInv, LockedSection
  <2> QED
    BY <1>1, <2>1, MisreadHolder DEF Misread
<1> HIDE DEF c
<1>4. CASE c.blind
  <2>1. file' = [EmptyFile EXCEPT ![k] = c.new] /\ c.new \in Entries
    BY <1>1, <1>2, <1>3, <1>4 DEF Contents
  <2>2. Map!PutAlone(k, c.new)
    BY <2>1 DEF Map!PutAlone, EmptyFile
  <2> QED
    BY <1>1, <1>4, <1>m, <2>1, <2>2 DEF Map!Next, Map!EndMisread
<1>5. CASE ~c.blind
  <2>1. ASSUME c.write = "set" PROVE Map!Put(k, c.new)
    <3>1. file' = [c.snap EXCEPT ![k] = c.new] /\ file' \in Files
      BY <1>1, <1>2, <1>3, <2>1 DEF Contents, Files
    <3>2. Map!OthersKept(k) /\ file'[k] = c.new
      BY <1>1, <1>2, <1>3, <1>5, <3>1 DEF Map!OthersKept, Map!Expired, Expired, Files
    <3> QED
      BY <3>2 DEF Map!Put
  <2>2. ASSUME c.write = "delete" PROVE Map!Remove(k)
    BY <1>1, <1>2, <2>2 DEF Contents, Map!Remove
  <2>3. ASSUME c.write = "clearAll" PROVE Map!RemoveAll
    BY <1>1, <2>3 DEF Contents, EmptyFile, Map!RemoveAll
  <2>4. \/ Map!RemoveAll
        \/ \E j \in Keys : Map!Remove(j) \/ \E e \in Entries : Map!Put(j, e)
    BY <1>1, <1>2, <1>3, <2>1, <2>2, <2>3
  <2>5. ~Misread /\ UNCHANGED Misread
    BY <1>5, <1>m DEF Misread
  <2>6. Map!Update
    BY <1>1, <2>4, <2>5 DEF Map!Update
  <2> QED
    BY <2>6 DEF Map!Next
<1> QED
  BY <1>4, <1>5

(* Everything else leaves the map alone, but for the passing of time and the *)
(* beginning and the end of a set that could not load the file.              *)
LEMMA StepRefines == IInv /\ IInv' /\ [Next]_vars => [Map!Next]_<<file, now, Misread>>
<1> SUFFICES ASSUME IInv, IInv', [Next]_vars
             PROVE  Map!Next \/ UNCHANGED <<file, now, Misread>>
  OBVIOUS
<1>1. ASSUME NEW p \in Procs, Save(p) PROVE Map!Next
  BY <1>1, SaveRefines
<1>2. CASE Tick
  BY <1>2 DEF Tick, Map!Next, Map!Tick, Misread
<1>3. CASE UNCHANGED vars
  BY <1>3 DEF vars, Misread
(* A step that leaves the file alone can only raise or lower misread. *)
<1>4. ASSUME UNCHANGED <<file, now>>
      PROVE  Map!Next \/ UNCHANGED <<file, now, Misread>>
  <2>1. Misread \in BOOLEAN /\ Misread' \in BOOLEAN
    BY DEF Misread
  <2> QED
    BY <1>4, <2>1 DEF Map!Next, Map!Misread, Map!EndMisread
<1>5. ASSUME NEW p \in Procs,
             \/ CallClearAll(p) \/ Crash(p) \/ (Step(p) /\ ~Save(p))
             \/ \E k \in Keys : \/ CallGet(p, "get", k)
                                 \/ CallGet(p, "getOrSet", k)
                                 \/ CallSet(p, k) \/ CallDelete(p, k)
      PROVE  UNCHANGED <<file, now>>
  BY <1>5 DEF CallClearAll, Crash, Step, CallGet, CallSet, CallDelete, Load, LoadFails, Decrypt,
       TakeKeyLock, KeyLockTimeout, ProduceValue, ProduceNothing, Encrypt, TakeFileLock,
       TakeFileLockBlind, FileLockTimeout, SaveFails, Unlock
<1> QED
  BY <1>1, <1>2, <1>3, <1>4, <1>5 DEF Next

(* The store implements the atomic map for any number of processes, keys,    *)
(* values, crashes and failed reads: every operation is one update of its    *)
(* own key, and no process overwrites what another has stored between its    *)
(* load and its save; the one that could not load the file replaces it all.  *)
THEOREM RefinesMap == Spec => AtomicUpdates
<1>1. Init => Map!Init
  BY DEF Init, EmptyFile, Map!Init, Misread
<1> QED
  BY <1>1, InvInit, InvNext, StepRefines, PTL DEF Spec, AtomicUpdates, Map!Spec

-----------------------------------------------------------------------------
(* The key lock.  What a call may assume of its own locals: it is written    *)
(* for the place l, the locals c, the file f, the time t and the number of   *)
(* productions n, so that it can be stated of a state and of its successor.  *)
CallShape(l, c, n) ==
  /\ c.mode = "held" => c.op = "getOrSet" /\ c.write # "clearAll" /\ l # "idle"
  /\ l \in {"keyWait", "produce"} => c.write = "delete"
  /\ l = "keyWait" => c.op = "getOrSet" /\ c.mode = "none"
  /\ c.write = "set" => c.new.id < n /\ (c.new.locked <=> c.mode = "held")
  /\ c.write = "delete" /\ l \in {"decrypt", "encrypt", "fileWait", "save"} => ~c.blind

(* e is not the value of a later production under the lock than `new'. *)
NotLater(e, new) == e = NoEntry \/ ~e.locked \/ e.id <= new.id

(* e is no reason for a lock holder with the locals c not to produce. *)
Missed(e, c, t) == e = NoEntry \/ t > e.exp \/ ~e.locked \/ e = c.ent

(* What a lock holder knows of the file stays true until it uses it. *)
CallFresh(l, c, f, t) ==
  c.mode = "held" =>
    /\ c.write = "set" => NotLater(f[c.key], c.new)
    /\ c.write = "delete" /\ l # "load" => c.blind \/ Missed(f[c.key], c, t)

(* The key lock is held exactly by the call that took it. *)
KeySection ==
  \A p \in Procs, k \in Keys :
    keyLock[k] = p <=> call[p].mode = "held" /\ call[p].key = k

OldIds == \A k \in Keys : file[k] # NoEntry => file[k].id < nextId

CallsOK ==
  \A p \in Procs : /\ CallShape(pc[p], call[p], nextId)
                   /\ CallFresh(pc[p], call[p], file, now)

KInv == IInv /\ KeySection /\ OldIds /\ CallsOK

(* A step that stays outside the key lock, or inside it. *)
LEMMA KeyKept ==
  ASSUME TypeOK, KeySection, NEW p \in Procs, NEW l \in PCs, NEW c \in Calls,
         Goto(p, l, c), UNCHANGED keyLock,
         \/ call[p].mode # "held" /\ (l = "idle" \/ c.mode # "held")
         \/ l # "idle" /\ c.mode = call[p].mode /\ c.key = call[p].key
  PROVE  KeySection'
<1>1. NoCall.mode = "none"
  BY DEF NoCall, NewCall
<1>2. /\ call'[p] = (IF l = "idle" THEN NoCall ELSE c)
      /\ \A q \in Procs \ {p} : call'[q] = call[q]
  BY DEF Goto, TypeOK
<1>3. ASSUME NEW q \in Procs, NEW k \in Keys
      PROVE  keyLock'[k] = q <=> call'[q].mode = "held" /\ call'[q].key = k
  <2>1. keyLock[k] = q <=> call[q].mode = "held" /\ call[q].key = k
    BY DEF KeySection
  <2>2. CASE q # p
    BY <1>2, <2>1, <2>2
  <2>3. CASE q = p
    BY <1>1, <1>2, <2>1, <2>3
  <2> QED
    BY <2>2, <2>3
<1> QED
  BY <1>3 DEF KeySection

(* A call that ends gives the key lock up. *)
LEMMA KeyReleased ==
  ASSUME TypeOK, KeySection, NEW p \in Procs, NEW c \in Calls, Goto(p, "idle", c),
         \A k \in Keys : keyLock'[k] = IF keyLock[k] = p THEN NoProc ELSE keyLock[k]
  PROVE  KeySection'
<1>1. NoCall.mode = "none"
  BY DEF NoCall, NewCall
<1>2. call'[p] = NoCall /\ \A q \in Procs \ {p} : call'[q] = call[q]
  BY DEF Goto, TypeOK
<1>3. ASSUME NEW q \in Procs, NEW k \in Keys
      PROVE  keyLock'[k] = q <=> call'[q].mode = "held" /\ call'[q].key = k
  BY <1>1, <1>2, ConstantsAssumption DEF KeySection
<1> QED
  BY <1>3 DEF KeySection

(* A step that leaves the file alone moves one call, which may assume what   *)
(* its next place needs.                                                     *)
LEMMA CallMoves ==
  ASSUME TypeOK, OldIds, CallsOK, NEW p \in Procs, NEW l \in PCs, NEW c \in Calls,
         Goto(p, l, c), UNCHANGED <<file, now>>, nextId' \in {nextId, nextId + 1},
         HasValue,
         l # "idle" => CallShape(l, c, nextId') /\ CallFresh(l, c, file, now)
  PROVE  OldIds' /\ CallsOK'
<1>1. NoCall.mode = "none" /\ NoCall.write = "delete"
  BY DEF NoCall, NewCall
<1>2. /\ pc'[p] = l /\ call'[p] = (IF l = "idle" THEN NoCall ELSE c)
      /\ \A q \in Procs \ {p} : call'[q] = call[q] /\ pc'[q] = pc[q]
  BY DEF Goto, TypeOK
<1>3. nextId \in Nat /\ \A i \in Nat : i < nextId => i < nextId'
  BY ConstantsAssumption DEF TypeOK
<1>4. OldIds'
  BY <1>3 DEF OldIds, TypeOK, Files, Entries
<1>5. ASSUME NEW q \in Procs, q # p
      PROVE  CallShape(pc'[q], call'[q], nextId')
  <2>1. call[q].write = "set" => call[q].new.id \in Nat
    BY DEF HasValue, Entries
  <2> QED
    BY <1>2, <1>3, <1>5, <2>1 DEF CallsOK, CallShape
<1>6. CallShape(pc'[p], call'[p], nextId') /\ CallFresh(pc'[p], call'[p], file, now)
  BY <1>1, <1>2 DEF CallShape, CallFresh
<1>7. ASSUME NEW q \in Procs
      PROVE  /\ CallShape(pc'[q], call'[q], nextId')
             /\ CallFresh(pc'[q], call'[q], file', now')
  BY <1>2, <1>5, <1>6 DEF CallsOK
<1> QED
  BY <1>4, <1>7 DEF CallsOK

(* Only a lock holder stores a locked value for the key it has locked.       *)
LEMMA SaveOthers ==
  ASSUME TypeOK, SnapCurrent, HasValue, KeySection, CallsOK,
         NEW p \in Procs, Save(p), NEW k \in Keys
  PROVE  \/ file'[k] \in {NoEntry, file[k]}
         \/ /\ k = call[p].key /\ call[p].write = "set"
            /\ file'[k] = call[p].new /\ call[p].new \in Entries
            /\ call[p].new.id < nextId
            /\ call[p].new.locked <=> keyLock[k] = p
<1> DEFINE c == call[p]
<1>1. c \in Calls /\ c.key \in Keys /\ c.snap \in Files /\ file' = Contents(c)
  BY CallType DEF Save, Calls
<1>2. c.snap[k] \in {NoEntry, file[k]}
  BY DEF SnapCurrent, Save, EmptyFile
<1>3. c.write \in {"set", "delete", "clearAll"}
  BY <1>1 DEF Calls
<1>4. c.write = "set" => /\ c.new \in Entries /\ c.new.id < nextId
                         /\ c.new.locked <=> keyLock[c.key] = p
  BY <1>1 DEF HasValue, CallsOK, CallShape, KeySection
<1>5. DOMAIN c.snap = Keys
  BY <1>1 DEF Files
<1> HIDE DEF c
<1>6. CASE c.write = "set"
  <2>1. file' = [c.snap EXCEPT ![c.key] = c.new]
    BY <1>1, <1>6 DEF Contents
  <2> QED
    BY <1>1, <1>2, <1>4, <1>5, <1>6, <2>1 DEF c
<1>7. CASE c.write = "delete"
  <2>1. file' = [c.snap EXCEPT ![c.key] = NoEntry]
    BY <1>1, <1>7 DEF Contents
  <2> QED
    BY <1>1, <1>2, <1>5, <2>1
<1>8. CASE c.write = "clearAll"
  BY <1>1, <1>8 DEF Contents, EmptyFile
<1> QED
  BY <1>3, <1>6, <1>7, <1>8

(* A save of one process takes nothing from what another one knows. *)
LEMMA SaveKeepsFresh ==
  ASSUME TypeOK, SnapCurrent, HasValue, KeySection, OldIds, CallsOK,
         NEW p \in Procs, Save(p)
  PROVE  OldIds' /\ CallsOK'
<1> DEFINE c == call[p]
           l == AfterWrite(c)
<1>1. /\ c \in Calls /\ c.key \in Keys /\ c.write \in {"set", "delete", "clearAll"}
      /\ c.snap \in Files
      /\ file' = Contents(c)
      /\ UNCHANGED <<now, nextId, keyLock>>
  BY CallType DEF Save, Calls
<1>2. /\ pc'[p] = l
      /\ call'[p] = (IF l = "idle" THEN NoCall ELSE [c EXCEPT !.snap = EmptyFile])
      /\ \A q \in Procs \ {p} : call'[q] = call[q] /\ pc'[q] = pc[q]
  BY DEF Save, Goto, TypeOK
<1>3. CallShape(pc[p], c, nextId) /\ CallFresh(pc[p], c, file, now) /\ pc[p] = "save"
  BY DEF CallsOK, Save
<1>4. OldIds'
  BY <1>1, SaveOthers DEF OldIds
<1>5. ASSUME NEW q \in Procs, q # p
      PROVE  CallShape(pc'[q], call'[q], nextId') /\ CallFresh(pc'[q], call'[q], file', now')
  <2> DEFINE k == call[q].key
  <2>1. k \in Keys /\ CallShape(pc[q], call[q], nextId) /\ CallFresh(pc[q], call[q], file, now)
    BY CallType DEF Calls, CallsOK
  <2>2. CASE call[q].mode # "held"
    BY <1>1, <1>2, <1>5, <2>1, <2>2 DEF CallShape, CallFresh
  <2>3. CASE call[q].mode = "held"
    <3>1. keyLock[k] # p
      BY <1>5, <2>1, <2>3 DEF KeySection
    <3>2. file'[k] = NoEntry \/ file'[k] = file[k] \/ ~file'[k].locked
      BY <2>1, <3>1, SaveOthers
    <3> QED
      BY <1>1, <1>2, <1>5, <2>1, <3>2 DEF CallShape, CallFresh, NotLater, Missed
  <2> QED
    BY <2>2, <2>3
<1>6. CallShape(pc'[p], call'[p], nextId') /\ CallFresh(pc'[p], call'[p], file', now')
  <2>1. CASE l = "idle"
    BY <1>2, <2>1 DEF CallShape, CallFresh, NoCall, NewCall
  <2>2. CASE l # "idle"
    <3>1. /\ call'[p].mode = c.mode /\ call'[p].write = c.write /\ call'[p].op = c.op
          /\ call'[p].key = c.key /\ call'[p].new = c.new /\ call'[p].ent = c.ent
      BY <1>1, <1>2, <2>2 DEF Calls
    <3>2. c.op = "getOrSet" /\ c.write # "clearAll"
      BY <2>2 DEF AfterWrite
    <3>3. CASE c.write = "set"
      <4>1. l = "unlock" /\ file'[c.key] = c.new
        BY <1>1, <3>2, <3>3 DEF AfterWrite, Contents, Files
      <4>2. c.new.id \in Nat
        BY <3>3 DEF HasValue, Entries
      <4> HIDE DEF c, l
      <4> QED
        BY <1>1, <1>2, <1>3, <3>1, <3>2, <3>3, <4>1, <4>2
           DEF CallShape, CallFresh, NotLater
    <3>4. CASE c.write = "delete"
      <4>1. file'[c.key] = NoEntry
        BY <1>1, <3>4 DEF Contents, Files
      <4>2. l = IF c.mode = "none" THEN "keyWait" ELSE "produce"
        BY <3>2, <3>4 DEF AfterWrite, AfterMiss
      <4> HIDE DEF c, l
      <4> QED
        BY <1>2, <3>1, <3>2, <3>4, <4>1, <4>2 DEF CallShape, CallFresh, Missed
    <3> QED
      BY <1>1, <3>2, <3>3, <3>4
  <2> QED
    BY <2>1, <2>2
<1> QED
  BY <1>4, <1>5, <1>6 DEF CallsOK

LEMMA KInvNext == KInv /\ [Next]_vars => KInv'
<1> SUFFICES ASSUME KInv, [Next]_vars PROVE KeySection' /\ OldIds' /\ CallsOK'
  BY InvNext DEF KInv
<1> USE DEF PCs
<1> DEFINE Kept == KeySection' /\ OldIds' /\ CallsOK'
<1>0. /\ TypeOK /\ SnapCurrent /\ HasValue /\ KeySection /\ OldIds /\ CallsOK
      /\ nextId \in Nat
      /\ \A p \in Procs : /\ call[p] \in Calls
                          /\ CallShape(pc[p], call[p], nextId)
                          /\ CallFresh(pc[p], call[p], file, now)
  BY CallType DEF KInv, IInv, TypeOK, CallsOK
<1>1. ASSUME NEW p \in Procs, pc[p] = "idle" PROVE call[p].mode # "held"
  BY <1>0, <1>1 DEF CallShape
<1>2. ASSUME NEW p \in Procs, NEW k \in Keys, NEW o \in {"get", "getOrSet"}, CallGet(p, o, k)
      PROVE  Kept
  <2> DEFINE c == NewCall(o, k)
  <2>1. c \in Calls /\ c.mode = "none" /\ c.write = "delete"
    BY NewCallType DEF NewCall
  <2>2. CallShape("load", c, nextId) /\ CallFresh("load", c, file, now)
    BY <2>1 DEF CallShape, CallFresh
  <2>3. Goto(p, "load", c) /\ pc[p] = "idle" /\ UNCHANGED <<file, now, keyLock, nextId>>
    BY <1>2 DEF CallGet
  <2> HIDE DEF c
  <2> QED
    BY <1>0, <1>1, <2>1, <2>2, <2>3, KeyKept, CallMoves
<1>3. ASSUME NEW p \in Procs, NEW k \in Keys, CallSet(p, k) PROVE Kept
  <2> DEFINE c == Setting(NewCall("set", k))
  <2>1. c \in Calls
    BY <1>0, <1>3, NewCallType, SettingType DEF CallSet
  <2>2. c.mode = "none" /\ c.write = "set" /\ c.new.id = nextId /\ c.new.locked = FALSE
    BY DEF Setting, NewCall
  <2>3. /\ Goto(p, "encrypt", c) /\ pc[p] = "idle" /\ nextId' = nextId + 1
        /\ UNCHANGED <<file, now, keyLock>>
    BY <1>3 DEF CallSet
  <2> HIDE DEF c
  <2>4. CallShape("encrypt", c, nextId') /\ CallFresh("encrypt", c, file, now)
    BY <1>0, <2>2, <2>3 DEF CallShape, CallFresh
  <2> QED
    BY <1>0, <1>1, <2>1, <2>2, <2>3, <2>4, KeyKept, CallMoves
<1>4. ASSUME NEW p \in Procs, NEW c \in Calls, Goto(p, "fileWait", c), pc[p] = "idle",
             c.mode = "none", c.write # "set", ~c.blind,
             UNCHANGED <<file, now, keyLock, nextId>>
      PROVE  Kept
  <2>1. CallShape("fileWait", c, nextId) /\ CallFresh("fileWait", c, file, now)
    BY <1>4 DEF CallShape, CallFresh
  <2> QED
    BY <1>0, <1>1, <1>4, <2>1, KeyKept, CallMoves
<1>5. ASSUME NEW p \in Procs, NEW k \in Keys, CallDelete(p, k) PROVE Kept
  <2> DEFINE c == NewCall("delete", k)
  <2>1. c \in Calls /\ c.mode = "none" /\ c.write # "set" /\ ~c.blind
    BY NewCallType DEF NewCall
  <2>2. Goto(p, "fileWait", c) /\ pc[p] = "idle" /\ UNCHANGED <<file, now, keyLock, nextId>>
    BY <1>5 DEF CallDelete
  <2> HIDE DEF c
  <2> QED
    BY <1>4, <2>1, <2>2
<1>6. ASSUME NEW p \in Procs, CallClearAll(p) PROVE Kept
  <2> DEFINE c == [NoCall EXCEPT !.op = "clearAll", !.write = "clearAll"]
  <2>1. c \in Calls /\ c.mode = "none" /\ c.write # "set" /\ ~c.blind
    BY NoCallType DEF Calls, NoCall, NewCall
  <2>2. Goto(p, "fileWait", c) /\ pc[p] = "idle" /\ UNCHANGED <<file, now, keyLock, nextId>>
    BY <1>6 DEF CallClearAll
  <2> HIDE DEF c
  <2> QED
    BY <1>4, <2>1, <2>2
<1>7. ASSUME NEW p \in Procs, Load(p) PROVE Kept
  <2> DEFINE e == file[call[p].key]
             c == [call[p] EXCEPT !.ent = e, !.write = "delete", !.blind = FALSE]
  <2>1. /\ c \in Calls /\ c.write = "delete" /\ c.ent = e /\ c.blind = FALSE
        /\ c.mode = call[p].mode /\ c.key = call[p].key /\ c.op = call[p].op
    BY <1>0 DEF Calls, TypeOK, Files
  <2>2. /\ \E l \in {AfterMiss(c), "fileWait", "decrypt"} : Goto(p, l, c)
        /\ pc[p] = "load" /\ UNCHANGED <<file, now, keyLock, nextId>>
    BY <1>7 DEF Load
  <2>3. CallShape(pc[p], call[p], nextId)
    BY <1>0
  <2> HIDE DEF c
  <2>4. PICK l \in {AfterMiss(c), "fileWait", "decrypt"} : Goto(p, l, c)
    BY <2>2
  <2>5. l \in {"idle", "keyWait", "produce", "fileWait", "decrypt"}
    BY DEF AfterMiss
  <2>6. l = "idle" => c.mode # "held"
    BY <2>1, <2>3 DEF AfterMiss, CallShape
  <2>7. l # "idle" => CallShape(l, c, nextId) /\ CallFresh(l, c, file, now)
    <3>1. l = "keyWait" => c.op = "getOrSet" /\ c.mode = "none"
      BY DEF AfterMiss
    <3>2. c.mode = "held" => c.op = "getOrSet"
      BY <2>1, <2>3 DEF CallShape
    <3> QED
      BY <2>1, <2>5, <3>1, <3>2 DEF CallShape, CallFresh, Missed
  <2>8. KeySection'
    <3>1. CASE l = "idle"
      BY <1>0, <2>1, <2>2, <2>4, <2>6, <3>1, KeyKept
    <3>2. CASE l # "idle"
      BY <1>0, <2>1, <2>2, <2>4, <2>5, <3>2, KeyKept
    <3> QED
      BY <3>1, <3>2
  <2>9. OldIds' /\ CallsOK'
    BY <1>0, <2>1, <2>2, <2>4, <2>5, <2>7, CallMoves
  <2> QED
    BY <2>8, <2>9
<1>7a. ASSUME NEW p \in Procs, LoadFails(p) PROVE Kept
  <2> DEFINE c == [call[p] EXCEPT !.ent = NoEntry, !.write = "delete", !.blind = TRUE]
  <2>1. /\ c \in Calls /\ c.write = "delete" /\ c.blind
        /\ c.mode = call[p].mode /\ c.key = call[p].key /\ c.op = call[p].op
    BY <1>0 DEF Calls
  <2>2. /\ Goto(p, AfterMiss(c), c)
        /\ pc[p] = "load" /\ UNCHANGED <<file, now, keyLock, nextId>>
    BY <1>7a DEF LoadFails
  <2>3. CallShape(pc[p], call[p], nextId)
    BY <1>0
  <2> DEFINE l == AfterMiss(c)
  <2> HIDE DEF c
  <2>4. l \in {"idle", "keyWait", "produce"}
    BY DEF AfterMiss
  <2>5. l = "idle" => c.mode # "held"
    BY <2>1, <2>3 DEF AfterMiss, CallShape
  <2>6. l # "idle" => CallShape(l, c, nextId) /\ CallFresh(l, c, file, now)
    <3>1. l = "keyWait" => c.op = "getOrSet" /\ c.mode = "none"
      BY DEF AfterMiss
    <3>2. c.mode = "held" => c.op = "getOrSet"
      BY <2>1, <2>3 DEF CallShape
    <3> HIDE DEF l
    <3> QED
      BY <2>1, <2>4, <3>1, <3>2 DEF CallShape, CallFresh
  <2> HIDE DEF l
  <2>7. Goto(p, l, c)
    BY <2>2 DEF l
  <2>8. KeySection'
    <3>1. CASE l = "idle"
      BY <1>0, <2>1, <2>2, <2>5, <2>7, <3>1, KeyKept
    <3>2. CASE l # "idle"
      BY <1>0, <2>1, <2>2, <2>4, <2>7, <3>2, KeyKept
    <3> QED
      BY <3>1, <3>2
  <2>9. OldIds' /\ CallsOK'
    BY <1>0, <2>1, <2>2, <2>4, <2>6, <2>7, CallMoves
  <2> QED
    BY <2>8, <2>9
(* A call that goes on, with the same locals, to a place that is no loading  *)
(* and no waiting for the key lock.                                          *)
<1>8. ASSUME NEW p \in Procs, NEW l \in PCs \ {"load"}, Goto(p, l, call[p]), pc[p] # "load",
             l = "idle" => call[p].mode # "held",
             l \in {"keyWait", "produce"} => call[p].write = "delete",
             l = "keyWait" => call[p].op = "getOrSet" /\ call[p].mode = "none",
             l \in {"decrypt", "encrypt", "fileWait", "save"}
               => pc[p] \in {"decrypt", "encrypt", "fileWait", "save"},
             UNCHANGED <<file, now, keyLock, nextId>>
      PROVE  Kept
  <2>1. CallShape(pc[p], call[p], nextId) /\ CallFresh(pc[p], call[p], file, now)
    BY <1>0
  <2>2. l # "idle" => CallShape(l, call[p], nextId) /\ CallFresh(l, call[p], file, now)
    BY <1>8, <2>1 DEF CallShape, CallFresh
  <2>3. KeySection'
    <3>1. CASE l = "idle"
      BY <1>0, <1>8, <3>1, KeyKept
    <3>2. CASE l # "idle"
      BY <1>0, <1>8, <3>2, KeyKept
    <3> QED
      BY <3>1, <3>2
  <2> QED
    BY <1>0, <1>8, <2>2, <2>3, CallMoves
<1>9. ASSUME NEW p \in Procs, Decrypt(p) \/ ProduceNothing(p) \/ Encrypt(p) PROVE Kept
  <2>1. \E l \in {AfterValue(call[p]), "fileWait", "unlock"} : Goto(p, l, call[p])
    BY <1>9 DEF Decrypt, ProduceNothing, Encrypt
  <2>2. PICK l \in {AfterValue(call[p]), "fileWait", "unlock"} : Goto(p, l, call[p])
    BY <2>1
  <2>3. l \in {"idle", "fileWait", "unlock"} /\ (l = "idle" => call[p].mode # "held")
    BY DEF AfterValue
  <2>4. /\ pc[p] # "load" /\ UNCHANGED <<file, now, keyLock, nextId>>
        /\ l = "fileWait" => pc[p] \in {"decrypt", "encrypt"}
    <3>1. pc'[p] = l /\ pc \in [Procs -> PCs]
      BY <1>0, <2>2 DEF Goto, TypeOK
    <3>2. ProduceNothing(p) => pc'[p] = "unlock"
      BY <3>1 DEF ProduceNothing, Goto
    <3> QED
      BY <1>9, <3>1, <3>2 DEF Decrypt, ProduceNothing, Encrypt
  <2> QED
    BY <1>8, <2>2, <2>3, <2>4
<1>10. ASSUME NEW p \in Procs PROVE
         /\ AfterWrite(call[p]) \in {"idle", "unlock", "keyWait", "produce"}
         /\ AfterWrite(call[p]) = "idle" => call[p].mode # "held"
         /\ AfterWrite(call[p]) \in {"keyWait", "produce"} => call[p].write = "delete"
         /\ AfterWrite(call[p]) = "keyWait" => call[p].op = "getOrSet" /\ call[p].mode = "none"
  <2>1. /\ CallShape(pc[p], call[p], nextId)
        /\ call[p].write \in {"set", "delete", "clearAll"}
    BY <1>0 DEF Calls
  <2> QED
    BY <2>1 DEF AfterWrite, AfterMiss, CallShape
<1>11. ASSUME NEW p \in Procs, FileLockTimeout(p) PROVE Kept
  <2>1. /\ Goto(p, AfterWrite(call[p]), call[p]) /\ pc[p] # "load"
        /\ UNCHANGED <<file, now, keyLock, nextId>>
    BY <1>11 DEF FileLockTimeout
  <2> QED
    BY <1>8, <1>10, <2>1
<1>12. ASSUME NEW p \in Procs, NEW m \in {"held", "open"},
              Goto(p, "load", [call[p] EXCEPT !.mode = m]),
              pc[p] = "keyWait", UNCHANGED <<file, now, nextId>>
       PROVE  OldIds' /\ CallsOK'
  <2> DEFINE c == [call[p] EXCEPT !.mode = m]
  <2>1. c \in Calls /\ c.op = call[p].op /\ c.write = call[p].write
    BY <1>0 DEF Calls
  <2>2. CallShape("keyWait", call[p], nextId)
    BY <1>0, <1>12
  <2> HIDE DEF c
  <2>3. Goto(p, "load", c)
    BY <1>12 DEF c
  <2>4. CallShape("load", c, nextId) /\ CallFresh("load", c, file, now)
    BY <2>1, <2>2 DEF CallShape, CallFresh
  <2> QED
    BY <1>0, <1>12, <2>1, <2>3, <2>4, CallMoves
<1>13. ASSUME NEW p \in Procs, TakeKeyLock(p) PROVE Kept
  <2>1. OldIds' /\ CallsOK'
    BY <1>12, <1>13 DEF TakeKeyLock
  <2>2. /\ call'[p].mode = "held" /\ call'[p].key = call[p].key /\ call[p].key \in Keys
        /\ \A q \in Procs \ {p} : call'[q] = call[q]
    BY <1>0, <1>13 DEF TakeKeyLock, Goto, TypeOK, Calls
  <2>3. /\ keyLock[call[p].key] = NoProc
        /\ \A k \in Keys : keyLock'[k] = IF k = call[p].key THEN p ELSE keyLock[k]
    BY <1>0, <1>13, <2>2 DEF TakeKeyLock, TypeOK
  <2>4. call[p].mode = "none"
    BY <1>0, <1>13 DEF TakeKeyLock, CallShape
  <2>5. ASSUME NEW q \in Procs, NEW k \in Keys
        PROVE  keyLock'[k] = q <=> call'[q].mode = "held" /\ call'[q].key = k
    <3>1. keyLock[k] = q <=> call[q].mode = "held" /\ call[q].key = k
      BY <1>0 DEF KeySection
    <3> QED
      BY <2>2, <2>3, <2>4, <3>1, ConstantsAssumption
  <2> QED
    BY <2>1, <2>5 DEF KeySection
<1>14. ASSUME NEW p \in Procs, KeyLockTimeout(p) PROVE Kept
  <2>1. OldIds' /\ CallsOK'
    BY <1>12, <1>14 DEF KeyLockTimeout
  <2> DEFINE c == [call[p] EXCEPT !.mode = "open"]
  <2>2. c \in Calls /\ c.mode = "open"
    BY <1>0 DEF Calls
  <2> HIDE DEF c
  <2>3. Goto(p, "load", c) /\ UNCHANGED keyLock /\ call[p].mode # "held"
    BY <1>0, <1>14 DEF KeyLockTimeout, CallShape, c
  <2> QED
    BY <1>0, <2>1, <2>2, <2>3, KeyKept
<1>15. ASSUME NEW p \in Procs, ProduceValue(p) PROVE Kept
  <2> DEFINE c == Setting(call[p])
  <2>1. c \in Calls
    BY <1>0, <1>15, SettingType DEF ProduceValue
  <2>2. /\ c.mode = call[p].mode /\ c.key = call[p].key /\ c.op = call[p].op
        /\ c.write = "set" /\ c.new.id = nextId /\ (c.new.locked <=> call[p].mode = "held")
    BY <1>0 DEF Setting, Calls
  <2>3. /\ Goto(p, "encrypt", c) /\ nextId' = nextId + 1
        /\ UNCHANGED <<file, now, keyLock>>
    BY <1>15 DEF ProduceValue
  <2>4. CallShape(pc[p], call[p], nextId) /\ call[p].key \in Keys
    BY <1>0 DEF Calls
  <2> HIDE DEF c
  <2>5. CallShape("encrypt", c, nextId')
    <3>1. c.new.id < nextId'
      BY <1>0, <2>2, <2>3
    <3>2. c.mode = "held" => c.op = "getOrSet"
      BY <2>2, <2>4 DEF CallShape
    <3> QED
      BY <2>2, <3>1, <3>2 DEF CallShape
  <2>6. NotLater(file[c.key], c.new)
    BY <1>0, <2>2, <2>4 DEF NotLater, OldIds, TypeOK, Files, Entries
  <2>7. CallFresh("encrypt", c, file, now)
    BY <2>2, <2>6 DEF CallFresh
  <2> QED
    BY <1>0, <2>1, <2>2, <2>3, <2>5, <2>7, KeyKept, CallMoves
<1>16. ASSUME NEW p \in Procs, TakeFileLock(p) PROVE Kept
  <2> DEFINE c == [call[p] EXCEPT !.snap = Loaded(call[p]), !.blind = FALSE]
  <2>1. /\ c \in Calls /\ c.mode = call[p].mode /\ c.key = call[p].key /\ c.op = call[p].op
        /\ c.write = call[p].write /\ c.new = call[p].new /\ c.ent = call[p].ent
        /\ c.blind = FALSE
    BY <1>0, LoadedType DEF Calls
  <2> HIDE DEF c
  <2>2. /\ Goto(p, "save", c) /\ pc[p] = "fileWait"
        /\ UNCHANGED <<file, now, keyLock, nextId>>
    BY <1>16 DEF TakeFileLock, c
  <2>3. CallShape(pc[p], call[p], nextId) /\ CallFresh(pc[p], call[p], file, now)
    BY <1>0
  <2>4. CallShape("save", c, nextId) /\ CallFresh("save", c, file, now)
    BY <2>1, <2>2, <2>3 DEF CallShape, CallFresh, Missed
  <2> QED
    BY <1>0, <2>1, <2>2, <2>4, KeyKept, CallMoves
<1>16a. ASSUME NEW p \in Procs, TakeFileLockBlind(p) PROVE Kept
  <2>1. CASE call[p].write # "set"
    <3>1. /\ Goto(p, AfterWrite(call[p]), call[p]) /\ pc[p] # "load"
          /\ UNCHANGED <<file, now, keyLock, nextId>>
      BY <1>16a, <2>1 DEF TakeFileLockBlind
    <3> QED
      BY <1>8, <1>10, <3>1
  <2>2. CASE call[p].write = "set"
    <3> DEFINE c == [call[p] EXCEPT !.snap = EmptyFile, !.blind = TRUE]
    <3>1. /\ c \in Calls /\ c.mode = call[p].mode /\ c.key = call[p].key /\ c.op = call[p].op
          /\ c.write = call[p].write /\ c.new = call[p].new /\ c.ent = call[p].ent
      BY <1>0, EmptyFileType DEF Calls
    <3> HIDE DEF c
    <3>2. /\ Goto(p, "save", c) /\ pc[p] = "fileWait"
          /\ UNCHANGED <<file, now, keyLock, nextId>>
      BY <1>16a, <2>2 DEF TakeFileLockBlind, c
    <3>3. CallShape(pc[p], call[p], nextId) /\ CallFresh(pc[p], call[p], file, now)
      BY <1>0
    <3>4. CallShape("save", c, nextId) /\ CallFresh("save", c, file, now)
      BY <2>2, <3>1, <3>2, <3>3 DEF CallShape, CallFresh
    <3> QED
      BY <1>0, <3>1, <3>2, <3>4, KeyKept, CallMoves
  <2> QED
    BY <2>1, <2>2
<1>17. ASSUME NEW p \in Procs, Save(p) \/ SaveFails(p) PROVE KeySection'
  <2> DEFINE c == [call[p] EXCEPT !.snap = EmptyFile]
             l == AfterWrite(call[p])
  <2>1. c \in Calls /\ c.mode = call[p].mode /\ c.key = call[p].key
    BY <1>0, EmptyFileType DEF Calls
  <2>2. l \in PCs /\ (l = "idle" => call[p].mode # "held")
    BY <1>10
  <2>3. Goto(p, l, c) /\ UNCHANGED keyLock
    BY <1>17 DEF Save, SaveFails
  <2> HIDE DEF c, l
  <2>4. CASE l = "idle"
    BY <1>0, <2>1, <2>2, <2>3, <2>4, KeyKept
  <2>5. CASE l # "idle"
    BY <1>0, <2>1, <2>2, <2>3, <2>5, KeyKept
  <2> QED
    BY <2>4, <2>5
<1>18. ASSUME NEW p \in Procs, Save(p) PROVE Kept
  BY <1>0, <1>17, <1>18, SaveKeepsFresh
<1>19. ASSUME NEW p \in Procs, SaveFails(p) PROVE Kept
  <2> DEFINE c == [call[p] EXCEPT !.snap = EmptyFile]
             l == AfterWrite(call[p])
  <2>1. /\ c \in Calls /\ c.mode = call[p].mode /\ c.key = call[p].key /\ c.op = call[p].op
        /\ c.write = call[p].write /\ c.new = call[p].new /\ c.ent = call[p].ent
        /\ c.blind = call[p].blind
    BY <1>0, EmptyFileType DEF Calls
  <2>2. /\ Goto(p, l, c) /\ pc[p] = "save" /\ UNCHANGED <<file, now, nextId>>
    BY <1>19 DEF SaveFails
  <2>3. /\ l \in {"idle", "unlock", "keyWait", "produce"}
        /\ l \in {"keyWait", "produce"} => call[p].write = "delete"
        /\ l = "keyWait" => call[p].op = "getOrSet" /\ call[p].mode = "none"
    BY <1>10
  <2>4. CallShape(pc[p], call[p], nextId) /\ CallFresh(pc[p], call[p], file, now)
    BY <1>0
  <2> HIDE DEF c, l
  <2>5. l # "idle" => CallShape(l, c, nextId) /\ CallFresh(l, c, file, now)
    BY <2>1, <2>2, <2>3, <2>4 DEF CallShape, CallFresh, Missed
  <2> QED
    BY <1>0, <1>17, <1>19, <2>1, <2>2, <2>3, <2>5, CallMoves
<1>20. ASSUME NEW p \in Procs, Unlock(p) \/ Crash(p) PROVE Kept
  <2>1. Goto(p, "idle", call[p]) /\ UNCHANGED <<file, now, nextId>>
    BY <1>20 DEF Unlock, Crash
  <2>2. \A k \in Keys : keyLock'[k] = IF keyLock[k] = p THEN NoProc ELSE keyLock[k]
    BY <1>0, <1>20 DEF Unlock, Crash, KeySection, TypeOK, Calls
  <2> QED
    BY <1>0, <2>1, <2>2, KeyReleased, CallMoves
<1>21. CASE Tick
  <2>1. /\ UNCHANGED <<file, keyLock, pc, call, nextId>>
        /\ now \in Nat /\ now' = now + 1
    BY <1>0, <1>21, ConstantsAssumption DEF Tick, TypeOK
  <2>2. KeySection' /\ OldIds'
    BY <1>0, <2>1 DEF KeySection, OldIds
  <2>3. ASSUME NEW p \in Procs
        PROVE  CallShape(pc[p], call[p], nextId) /\ CallFresh(pc[p], call[p], file, now')
    <3>1. file[call[p].key] = NoEntry \/ file[call[p].key].exp \in Nat
      BY <1>0, ConstantsAssumption DEF TypeOK, Files, Entries, Calls
    <3>2. file[call[p].key] # NoEntry /\ now > file[call[p].key].exp
            => now' > file[call[p].key].exp
      BY <2>1, <3>1
    <3> QED
      BY <1>0, <3>2 DEF CallFresh, Missed
  <2> QED
    BY <2>1, <2>2, <2>3 DEF CallsOK
<1>22. CASE UNCHANGED vars
  BY <1>0, <1>22 DEF vars, KeySection, OldIds, CallsOK
<1> QED
  BY <1>2, <1>3, <1>5, <1>6, <1>7, <1>7a, <1>9, <1>11, <1>13, <1>14, <1>15, <1>16, <1>16a,
     <1>18, <1>19,
     <1>20, <1>21, <1>22
     DEF Next, Step

LEMMA KInvInit == Init => KInv
<1> SUFFICES ASSUME Init PROVE KInv
  OBVIOUS
<1>1. /\ \A p \in Procs : pc[p] = "idle" /\ call[p] = NoCall
      /\ \A k \in Keys : file[k] = NoEntry /\ keyLock[k] = NoProc
  BY DEF Init, EmptyFile
<1>2. NoCall.mode = "none" /\ NoCall.write = "delete"
  BY DEF NoCall, NewCall
<1> QED
  BY <1>1, <1>2, InvInit, ConstantsAssumption
     DEF KInv, KeySection, OldIds, CallsOK, CallShape, CallFresh

(* A producer under the key lock never runs because its call missed a value  *)
(* that another lock holder had stored, unless the file would not load: the  *)
(* second get of getOrSet is not outdated by the time its result is used,    *)
(* whatever writers without the lock, expiry, time outs, failed reads of     *)
(* others and crashes do in between.                                         *)
THEOREM ProducesOnlyOnMissThm == Spec => []ProducesOnlyOnMiss
<1>1. KInv => ProducesOnlyOnMiss
  <2> SUFFICES ASSUME KInv, NEW p \in Procs, pc[p] = "produce", call[p].mode = "held"
               PROVE  LET e == file[call[p].key] IN
                      \/ e = NoEntry \/ Expired(e) \/ ~e.locked
                      \/ e = call[p].ent
                      \/ call[p].blind
    BY DEF ProducesOnlyOnMiss
  <2>1. CallShape("produce", call[p], nextId) /\ CallFresh("produce", call[p], file, now)
    BY DEF KInv, CallsOK
  <2> QED
    BY <2>1 DEF CallShape, CallFresh, Missed, Expired
<1> QED
  BY <1>1, KInvInit, KInvNext, PTL DEF Spec

LEMMA OnlySaveWrites == [Next]_vars => UNCHANGED file \/ \E p \in Procs : Save(p)
<1>1. CASE \E p \in Procs : \/ CallClearAll(p) \/ Crash(p)
                            \/ \E k \in Keys : \/ CallGet(p, "get", k)
                                               \/ CallGet(p, "getOrSet", k)
                                               \/ CallSet(p, k) \/ CallDelete(p, k)
  BY <1>1 DEF CallClearAll, Crash, CallGet, CallSet, CallDelete
<1>2. ASSUME NEW p \in Procs, Step(p) PROVE UNCHANGED file \/ Save(p)
  BY <1>2 DEF Step, Load, Decrypt, TakeKeyLock, KeyLockTimeout, ProduceValue,
     ProduceNothing, Encrypt, TakeFileLock, FileLockTimeout, SaveFails, Unlock, LoadFails,
     TakeFileLockBlind
<1>3. CASE Tick \/ UNCHANGED vars
  BY <1>3 DEF Tick, vars
<1> QED
  BY <1>1, <1>2, <1>3 DEF Next

(* A save puts a value over the value of a lock holder only when its own     *)
(* production was later.                                                     *)
LEMMA LaterWinsStep ==
  KInv /\ [Next]_vars =>
    [\A k \in Keys :
       file[k] # NoEntry /\ file'[k] # NoEntry /\ file[k].locked /\ file'[k].locked
         => file'[k].id >= file[k].id]_file
<1> SUFFICES ASSUME KInv, [Next]_vars, file' # file
             PROVE  \A k \in Keys :
                      file[k] # NoEntry /\ file'[k] # NoEntry /\ file[k].locked
                        /\ file'[k].locked => file'[k].id >= file[k].id
  OBVIOUS
<1> SUFFICES ASSUME NEW k \in Keys, file[k] # NoEntry, file'[k] # NoEntry,
                    file[k].locked, file'[k].locked
             PROVE  file'[k].id >= file[k].id
  OBVIOUS
<1>1. PICK p \in Procs : Save(p)
  BY OnlySaveWrites
<1>2. TypeOK /\ SnapCurrent /\ HasValue /\ KeySection /\ CallsOK
  BY DEF KInv, IInv
<1>3. file[k].id \in Nat
  BY <1>2 DEF TypeOK, Files, Entries
<1>4. CASE file'[k] = file[k]
  BY <1>3, <1>4
<1>5. CASE file'[k] # file[k]
  <2>1. /\ k = call[p].key /\ call[p].write = "set" /\ file'[k] = call[p].new
        /\ call[p].new \in Entries /\ keyLock[k] = p
    BY <1>1, <1>2, <1>5, SaveOthers
  <2>2. call[p].mode = "held"
    BY <1>2, <2>1 DEF KeySection
  <2>3. NotLater(file[k], file'[k])
    BY <1>2, <2>1, <2>2 DEF CallsOK, CallFresh
  <2> QED
    BY <1>3, <2>1, <2>3 DEF NotLater, Entries
<1> QED
  BY <1>4, <1>5

(* Among lock holders the later production wins, for any number of them: a   *)
(* value is never overwritten with the value of an earlier production.       *)
THEOREM LatestProductionWinsThm == Spec => LatestProductionWins
  BY LaterWinsStep, KInvInit, KInvNext, PTL DEF Spec, LatestProductionWins

=============================================================================
