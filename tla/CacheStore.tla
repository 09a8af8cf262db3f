----------------------------- MODULE CacheStore ------------------------------
(***************************************************************************)
(* CacheStore (packages/varlock/src/lib/cache/cache-store.ts): one cache   *)
(* file shared by several processes.  A step ends where the code awaits or *)
(* where another process can observe the file.                             *)
(*                                                                         *)
(* The two locks are withDirLock, whose own behavior is module DirLock:    *)
(* here a lock is free or held, a process that dies gives up what it holds *)
(* (its lock is reclaimed), the key lock fails open at its deadline and    *)
(* the file lock throws at its own.                                        *)
(***************************************************************************)
EXTENDS Naturals

CONSTANTS
  Procs,    \* processes using the file, one call at a time each
  Keys,     \* cache keys
  NoProc,   \* a lock nobody holds
  NoEntry,  \* no entry for a key
  Ttl,      \* time to live of a cacheable value
  MaxTime,  \* bound on the clock
  MaxId,    \* bound on the values produced
  MaxCrash  \* bound on crashes

ASSUME ConstantsAssumption ==
  /\ NoProc \notin Procs
  /\ Keys # {}
  /\ {Ttl, MaxTime, MaxId, MaxCrash} \subseteq Nat
  /\ MaxTime > 0

VARIABLES
  file,      \* the cache file
  now,       \* Date.now()
  keyLock,   \* holder of each per-key lock
  fileLock,  \* holder of the lock of the file
  pc,        \* where each process is in its call
  call,      \* the arguments and local variables of the call
  nextId,    \* number of values produced so far
  crashes

vars == <<file, now, keyLock, fileLock, pc, call, nextId, crashes>>

(* A value is the number of its production; `locked' is a ghost: whether the *)
(* producer ran under the key lock.                                          *)
Entries == [id : 0..MaxId, exp : 0..(MaxTime + Ttl), locked : BOOLEAN]

ASSUME NoEntryAssumption == NoEntry \notin Entries

Files == [Keys -> Entries \cup {NoEntry}]

EmptyFile == [k \in Keys |-> NoEntry]

(* Date.now() > entry.e *)
Expired(e) == e # NoEntry /\ now > e.exp

PCs == {"idle", "load", "decrypt", "keyWait", "produce", "encrypt", "fileWait",
        "save", "unlock"}

(* op is the method and key its cacheKey; mode tells the key lock: "open" is *)
(* going on without it after its deadline; ent is the entry the last get of  *)
(* the call found, new the entry being stored, write what the process wants  *)
(* the file lock for, snap the contents it loaded under that lock; blind     *)
(* tells that loadFile met an error, which it swallows, and returned {}.     *)
Calls == [op : {"get", "getOrSet", "set", "delete", "clearAll"},
          key : Keys,
          mode : {"none", "held", "open"},
          ent : Entries \cup {NoEntry},
          new : Entries \cup {NoEntry},
          write : {"set", "delete", "clearAll"},
          snap : Files,
          blind : BOOLEAN]

NewCall(o, k) == [op |-> o, key |-> k, mode |-> "none", ent |-> NoEntry,
                  new |-> NoEntry, write |-> "delete", snap |-> EmptyFile,
                  blind |-> FALSE]

NoCall == NewCall("get", CHOOSE k \in Keys : TRUE)

Init ==
  /\ file = EmptyFile
  /\ now = 0
  /\ keyLock = [k \in Keys |-> NoProc]
  /\ fileLock = NoProc
  /\ pc = [p \in Procs |-> "idle"]
  /\ call = [p \in Procs |-> NoCall]
  /\ nextId = 0
  /\ crashes = 0

(* Process p goes on at l with the locals c, which end with the call. *)
Goto(p, l, c) ==
  /\ pc' = [pc EXCEPT ![p] = l]
  /\ call' = [call EXCEPT ![p] = IF l = "idle" THEN NoCall ELSE c]

(* Mutant: an entry lives one unit of time too long. *)
SettingTooLong(c) ==
  [c EXCEPT !.new = [id |-> nextId, exp |-> now + Ttl + 1, locked |-> c.mode = "held"],
            !.write = "set", !.blind = FALSE]

(* set() of the next value: the expiry is computed before the value is       *)
(* encrypted and before the file lock is awaited.                            *)
Setting(c) ==
  [c EXCEPT !.new = [id |-> nextId, exp |-> now + Ttl, locked |-> c.mode = "held"],
            !.write = "set", !.blind = FALSE]

-----------------------------------------------------------------------------
(* get and getOrSet begin by loading the file. *)
CallGet(p, o, k) ==
  /\ pc[p] = "idle"
  /\ Goto(p, "load", NewCall(o, k))
  /\ UNCHANGED <<file, now, keyLock, fileLock, nextId, crashes>>

CallSet(p, k) ==
  /\ pc[p] = "idle"
  /\ nextId < MaxId
  /\ nextId' = nextId + 1
  /\ Goto(p, "encrypt", Setting(NewCall("set", k)))
  /\ UNCHANGED <<file, now, keyLock, fileLock, crashes>>

CallDelete(p, k) ==
  /\ pc[p] = "idle"
  /\ Goto(p, "fileWait", NewCall("delete", k))
  /\ UNCHANGED <<file, now, keyLock, fileLock, nextId, crashes>>

CallClearAll(p) ==
  /\ pc[p] = "idle"
  /\ Goto(p, "fileWait", [NoCall EXCEPT !.op = "clearAll", !.write = "clearAll"])
  /\ UNCHANGED <<file, now, keyLock, fileLock, nextId, crashes>>

(* What follows a get that found nothing usable: get returns undefined;      *)
(* getOrSet waits for the key lock, or, when this was the second get, runs   *)
(* its producer.                                                             *)
AfterMiss(c) ==
  CASE c.op = "get" -> "idle"
    [] c.op = "getOrSet" /\ c.mode = "none" -> "keyWait"
    [] OTHER -> "produce"

(* What follows a value: the end of the key lock's callback, or of the call. *)
AfterValue(c) == IF c.mode = "none" THEN "idle" ELSE "unlock"

(* get: loadFile and the expiry check; an expired entry is to be deleted.    *)
Load(p) ==
  LET e == file[call[p].key]
      c == [call[p] EXCEPT !.ent = e, !.write = "delete", !.blind = FALSE]
  IN /\ pc[p] = "load"
     /\ \/ e = NoEntry /\ Goto(p, AfterMiss(c), c)
        \/ Expired(e) /\ Goto(p, "fileWait", c)
        \/ e # NoEntry /\ ~Expired(e) /\ Goto(p, "decrypt", c)
     /\ UNCHANGED <<file, now, keyLock, fileLock, nextId, crashes>>

(* get: loadFile fails to read or parse the file, which looks like a miss.   *)
LoadFails(p) ==
  LET c == [call[p] EXCEPT !.ent = NoEntry, !.write = "delete", !.blind = TRUE]
  IN /\ pc[p] = "load"
     /\ Goto(p, AfterMiss(c), c)
     /\ UNCHANGED <<file, now, keyLock, fileLock, nextId, crashes>>

(* get: the value decrypts, or decryption or the envelope check fails and    *)
(* the entry is to be deleted.                                               *)
Decrypt(p) ==
  /\ pc[p] = "decrypt"
  /\ \/ Goto(p, AfterValue(call[p]), call[p])
     \/ Goto(p, "fileWait", call[p])
  /\ UNCHANGED <<file, now, keyLock, fileLock, nextId, crashes>>

(* Mutant: the producer runs as soon as the key lock is taken. *)
TakeKeyLockAndProduce(p) ==
  /\ pc[p] = "keyWait"
  /\ keyLock[call[p].key] = NoProc
  /\ keyLock' = [keyLock EXCEPT ![call[p].key] = p]
  /\ Goto(p, "produce", [call[p] EXCEPT !.mode = "held"])
  /\ UNCHANGED <<file, now, fileLock, nextId, crashes>>

(* The key lock is taken, or its deadline passes and the call goes on        *)
(* without it (failOpen).  Either way get runs a second time.                *)
TakeKeyLock(p) ==
  /\ pc[p] = "keyWait"
  /\ keyLock[call[p].key] = NoProc
  /\ keyLock' = [keyLock EXCEPT ![call[p].key] = p]
  /\ Goto(p, "load", [call[p] EXCEPT !.mode = "held"])
  /\ UNCHANGED <<file, now, fileLock, nextId, crashes>>

KeyLockTimeout(p) ==
  /\ pc[p] = "keyWait"
  /\ keyLock[call[p].key] # NoProc
  /\ Goto(p, "load", [call[p] EXCEPT !.mode = "open"])
  /\ UNCHANGED <<file, now, keyLock, fileLock, nextId, crashes>>

(* Mutant: the key lock is released before the value is stored. *)
ProduceAndRelease(p) ==
  /\ pc[p] = "produce"
  /\ nextId < MaxId
  /\ nextId' = nextId + 1
  /\ keyLock' = [keyLock EXCEPT ![call[p].key] = NoProc]
  /\ Goto(p, "encrypt", Setting(call[p]))
  /\ UNCHANGED <<file, now, fileLock, crashes>>

(* The producer settles: a value worth caching goes to set(); undefined, an  *)
(* error, or a ttl of zero or less stores nothing.                           *)
ProduceValue(p) ==
  /\ pc[p] = "produce"
  /\ nextId < MaxId
  /\ nextId' = nextId + 1
  /\ Goto(p, "encrypt", Setting(call[p]))
  /\ UNCHANGED <<file, now, keyLock, fileLock, crashes>>

ProduceNothing(p) ==
  /\ pc[p] = "produce"
  /\ Goto(p, "unlock", call[p])
  /\ UNCHANGED <<file, now, keyLock, fileLock, nextId, crashes>>

(* set: the value is encrypted, or encryption fails and nothing is stored.   *)
Encrypt(p) ==
  /\ pc[p] = "encrypt"
  /\ \/ Goto(p, "fileWait", call[p])
     \/ Goto(p, AfterValue(call[p]), call[p])
  /\ UNCHANGED <<file, now, keyLock, fileLock, nextId, crashes>>

(* withFileLock: the lock is taken and loadFile runs under it; set drops     *)
(* what has expired (pruneExpired).                                          *)
Loaded(c) ==
  [k \in Keys |-> IF c.write = "set" /\ Expired(file[k]) THEN NoEntry ELSE file[k]]

(* Mutant: the file is loaded without waiting for the lock. *)
LoadUnlocked(p) ==
  /\ pc[p] = "fileWait"
  /\ fileLock' = p
  /\ Goto(p, "save", [call[p] EXCEPT !.snap = Loaded(call[p]), !.blind = FALSE])
  /\ UNCHANGED <<file, now, keyLock, nextId, crashes>>

TakeFileLock(p) ==
  /\ pc[p] = "fileWait"
  /\ fileLock = NoProc
  /\ fileLock' = p
  /\ Goto(p, "save", [call[p] EXCEPT !.snap = Loaded(call[p]), !.blind = FALSE])
  /\ UNCHANGED <<file, now, keyLock, nextId, crashes>>

(* What follows a write: getOrSet has its value after set, and goes on with  *)
(* its miss after the housekeeping delete of get.                            *)
AfterWrite(c) ==
  CASE c.op = "getOrSet" /\ c.write = "set" -> "unlock"
    [] c.op = "getOrSet" /\ c.write = "delete" -> AfterMiss(c)
    [] OTHER -> "idle"

(* The lock is taken and loadFile fails: set goes on to save its own entry   *)
(* alone; delete and clearAll see nothing to remove and save nothing.        *)
TakeFileLockBlind(p) ==
  /\ pc[p] = "fileWait"
  /\ fileLock = NoProc
  /\ \/ /\ call[p].write = "set"
        /\ fileLock' = p
        /\ Goto(p, "save", [call[p] EXCEPT !.snap = EmptyFile, !.blind = TRUE])
     \/ /\ call[p].write # "set"
        /\ Goto(p, AfterWrite(call[p]), call[p])
        /\ UNCHANGED fileLock
  /\ UNCHANGED <<file, now, keyLock, nextId, crashes>>

(* The file lock times out: set and housekeeping swallow the error, delete   *)
(* and clearAll report it to their caller.                                   *)
FileLockTimeout(p) ==
  /\ pc[p] = "fileWait"
  /\ fileLock # NoProc
  /\ Goto(p, AfterWrite(call[p]), call[p])
  /\ UNCHANGED <<file, now, keyLock, fileLock, nextId, crashes>>

(* saveFile renames the new contents over the file; the lock is released.    *)
Contents(c) ==
  CASE c.write = "set"      -> [c.snap EXCEPT ![c.key] = c.new]
    [] c.write = "delete"   -> [c.snap EXCEPT ![c.key] = NoEntry]
    [] c.write = "clearAll" -> EmptyFile

Save(p) ==
  /\ pc[p] = "save"
  /\ file' = Contents(call[p])
  /\ fileLock' = NoProc
  /\ Goto(p, AfterWrite(call[p]), [call[p] EXCEPT !.snap = EmptyFile])
  /\ UNCHANGED <<now, keyLock, nextId, crashes>>

(* saveFile throws before its rename: the file stays as it is, and the call  *)
(* goes on as after a time out.                                              *)
SaveFails(p) ==
  /\ pc[p] = "save"
  /\ fileLock' = NoProc
  /\ Goto(p, AfterWrite(call[p]), [call[p] EXCEPT !.snap = EmptyFile])
  /\ UNCHANGED <<file, now, keyLock, nextId, crashes>>

(* withDirLock returns: the key lock, if it was taken, is released. *)
Unlock(p) ==
  /\ pc[p] = "unlock"
  /\ keyLock' = IF call[p].mode = "held"
                THEN [keyLock EXCEPT ![call[p].key] = NoProc] ELSE keyLock
  /\ Goto(p, "idle", call[p])
  /\ UNCHANGED <<file, now, fileLock, nextId, crashes>>

(* The process dies, between the load and the rename included; its locks are *)
(* reclaimed and another process may take its place.                         *)
Crash(p) ==
  /\ pc[p] # "idle"
  /\ crashes < MaxCrash
  /\ crashes' = crashes + 1
  /\ keyLock' = [k \in Keys |-> IF keyLock[k] = p THEN NoProc ELSE keyLock[k]]
  /\ fileLock' = IF fileLock = p THEN NoProc ELSE fileLock
  /\ Goto(p, "idle", call[p])
  /\ UNCHANGED <<file, now, nextId>>

Tick ==
  /\ now < MaxTime
  /\ now' = now + 1
  /\ UNCHANGED <<file, keyLock, fileLock, pc, call, nextId, crashes>>

-----------------------------------------------------------------------------
Step(p) ==
  \/ Load(p) \/ LoadFails(p) \/ Decrypt(p) \/ TakeKeyLock(p) \/ KeyLockTimeout(p)
  \/ ProduceValue(p) \/ ProduceNothing(p) \/ Encrypt(p)
  \/ TakeFileLock(p) \/ TakeFileLockBlind(p) \/ FileLockTimeout(p)
  \/ Save(p) \/ SaveFails(p) \/ Unlock(p)

Next ==
  \/ \E p \in Procs :
       \/ \E k \in Keys :
            CallGet(p, "get", k) \/ CallGet(p, "getOrSet", k)
              \/ CallSet(p, k) \/ CallDelete(p, k)
       \/ CallClearAll(p) \/ Step(p) \/ Crash(p)
  \/ Tick

Spec == Init /\ [][Next]_vars

-----------------------------------------------------------------------------
TypeOK ==
  /\ file \in Files
  /\ now \in 0..MaxTime
  /\ keyLock \in [Keys -> Procs \cup {NoProc}]
  /\ fileLock \in Procs \cup {NoProc}
  /\ pc \in [Procs -> PCs]
  /\ call \in [Procs -> Calls]
  /\ nextId \in 0..MaxId
  /\ crashes \in 0..MaxCrash

(* A set is under way that holds the file lock and could not read the file.  *)
Misread == \E p \in Procs : pc[p] = "save" /\ call[p].blind

(* Every operation of the store is one atomic update of its own key (module  *)
(* CacheMap), although it loads the file, computes and saves it in several   *)
(* steps, and may die between them: no update of another process is lost,    *)
(* but to a set whose own read of the file, under the lock, failed: that one *)
(* replaces the whole file by its entry, and no other operation does.        *)
Map == INSTANCE CacheMap WITH Keys <- Keys, Entries <- Entries, NoEntry <- NoEntry,
                             file <- file, now <- now, misread <- Misread
AtomicUpdates == Map!Spec

(* "Atomically get a cache entry or compute+store it once per key": a        *)
(* producer that runs under the key lock runs for an entry that is missing,  *)
(* expired, the one this call failed to decrypt, or one it failed to read    *)
(* because the whole file would not load; never because it read the file too *)
(* early to see the value another lock holder has stored.                    *)
ProducesOnlyOnMiss ==
  \A p \in Procs :
    LET e == file[call[p].key] IN
    pc[p] = "produce" /\ call[p].mode = "held" =>
      \/ e = NoEntry \/ Expired(e) \/ ~e.locked
      \/ e = call[p].ent
      \/ call[p].blind

(* Among lock holders the later production wins: an entry is never replaced  *)
(* by the value of an earlier production for its key.                        *)
LatestProductionWins ==
  [][\A k \in Keys :
       file[k] # NoEntry /\ file'[k] # NoEntry /\ file[k].locked /\ file'[k].locked
         => file'[k].id >= file[k].id]_file

=============================================================================
