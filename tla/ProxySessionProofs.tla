-------------------------- MODULE ProxySessionProofs --------------------------
(* Machine-checked proofs about ProxySession. *)
EXTENDS ProxySession, TLAPS

(* While the proxy listens and no probe has misjudged it, nobody is about to *)
(* mark or delete its record, and what tasks have read of it is not marked   *)
(* ended either.                                                             *)
OpenInv ==
  PortOpen /\ ~misjudged =>
    /\ rec # NoRecord /\ ~rec.ended
    /\ command \in {"idle", "stopping"}
    /\ \A t \in Tasks : held[t] # NoRecord => ~held[t].ended

(* A run that attaches will write itself. *)
AttachInv == \A r \in Runs : run[r] \in {"listed", "adding"} => r \in held[r].attached

USE SessionAssumption DEF OwnTasks, Tasks, Records, Versions, Hold, NoWrite, Unowned, Others,
  OwnerRuns, PortOpen, Listed, Markable, Ended, Judge, FindsNone,
  FindsRecord, WriteFails

-----------------------------------------------------------------------------
LEMMA TaskNames ==
  \A r \in Runs : r # "reload" /\ r # "flush" /\ r # "close" /\ r # "command"
<1>1. \A r \in Runs : r \notin {"reload", "flush", "close", "command"}
  BY ONLY SessionAssumption
<1> QED
  BY <1>1

LEMMA ListedRecord == TypeOK => (rec # NoRecord => rec \in Records)
BY DEF TypeOK

(* What a task holds when it has read the record. *)
LEMMA HeldType ==
  ASSUME TypeOK, NEW t \in Tasks, NEW x \in Records, held' = [held EXCEPT ![t] = x]
  PROVE  /\ held' \in [Tasks -> Records \cup {NoRecord}]
         /\ held'[t] # NoRecord
         /\ \A u \in Tasks : u # t => held'[u] = held[u]
<1>1. x # NoRecord
  BY SessionAssumption DEF Records, Versions
<1> QED
  BY <1>1 DEF TypeOK

(* What it holds when it has written the record, or failed to. *)
LEMMA Released ==
  ASSUME TypeOK, NEW t \in Tasks, held[t] # NoRecord, held' = [held EXCEPT ![t] = NoRecord]
  PROVE  /\ held[t] \in Records
         /\ held' \in [Tasks -> Records \cup {NoRecord}]
         /\ held'[t] = NoRecord
         /\ \A u \in Tasks : u # t => held'[u] = held[u]
BY DEF TypeOK

LEMMA TypeInit == Init => TypeOK
<1>1. [ended |-> FALSE, attached |-> {}, fp |-> 0] \in Records
  OBVIOUS
<1> QED
  BY <1>1 DEF Init, TypeOK

LEMMA TypeNext == TypeOK /\ [Next]_vars => TypeOK'
<1> SUFFICES ASSUME TypeOK, [Next]_vars PROVE TypeOK'
  OBVIOUS
<1> USE DEF TypeOK
<1>1. CASE UNCHANGED vars
  BY <1>1 DEF vars
<1>2. CASE ReadToFlush
  BY <1>2 DEF ReadToFlush
<1>3. CASE Flush
  <2>1. /\ held["flush"] # NoRecord /\ held' = [held EXCEPT !["flush"] = NoRecord]
        /\ rec' = held["flush"] \/ rec' = rec
        /\ crossed' \in BOOLEAN
        /\ UNCHANGED <<owner, reload, active, run, command, misjudged>>
    BY <1>3 DEF Flush, Write
  <2>2. /\ held["flush"] \in Records
        /\ held' \in [Tasks -> Records \cup {NoRecord}]
        /\ held'["flush"] = NoRecord
        /\ \A u \in Tasks : u # "flush" => held'[u] = held[u]
    BY <2>1, Released
  <2>3. held["flush"] \in Records
    BY <2>2
  <2> QED
    BY <2>1, <2>2, <2>3, TaskNames
<1>4. CASE Install
  BY <1>4 DEF Install
<1>5. CASE ReadToReload
  <2>1. /\ \/ /\ Listed /\ reload' = "writing"
              /\ held' = [held EXCEPT !["reload"] = rec]
           \/ reload' = "unrecorded" /\ held' = held
        /\ reload = "installed" /\ UNCHANGED <<rec, owner, active, run, command, crossed, misjudged>>
    BY <1>5 DEF ReadToReload
  <2>2. CASE reload' = "writing"
    <3>1. rec \in Records /\ held' = [held EXCEPT !["reload"] = rec]
      BY <2>1, <2>2, ListedRecord
    <3>2. /\ held' \in [Tasks -> Records \cup {NoRecord}]
          /\ held'["reload"] # NoRecord
          /\ \A u \in Tasks : u # "reload" => held'[u] = held[u]
      BY <3>1, HeldType
    <3> QED
      BY <2>1, <2>2, <3>2, TaskNames
  <2>3. CASE held' = held /\ reload' = "unrecorded"
    BY <2>1, <2>3
  <2> QED
    BY <2>1, <2>2, <2>3
<1>6. CASE WriteReloaded
  <2>1. /\ reload = "writing" /\ reload' \in {"idle", "unrecorded"}
        /\ held["reload"] # NoRecord /\ held' = [held EXCEPT !["reload"] = NoRecord]
        /\ rec' = [held["reload"] EXCEPT !.fp = active] \/ rec' = rec
        /\ crossed' \in BOOLEAN
        /\ UNCHANGED <<owner, active, run, command, misjudged>>
    BY <1>6 DEF WriteReloaded, Write
  <2>2. /\ held["reload"] \in Records
        /\ held' \in [Tasks -> Records \cup {NoRecord}]
        /\ held'["reload"] = NoRecord
        /\ \A u \in Tasks : u # "reload" => held'[u] = held[u]
    BY <2>1, Released
  <2>3. [held["reload"] EXCEPT !.fp = active] \in Records
    BY <2>2
  <2> QED
    BY <2>1, <2>2, <2>3, TaskNames
<1>7. CASE Close
  <2>1. /\ \/ /\ Listed /\ owner' = "closing"
              /\ held' = [held EXCEPT !["close"] = rec]
           \/ owner' = "flushed" /\ held' = held
        /\ owner = "up" /\ UNCHANGED <<rec, reload, active, run, command, crossed, misjudged>>
    BY <1>7 DEF Close, OwnerStep
  <2>2. CASE owner' = "closing"
    <3>1. rec \in Records /\ held' = [held EXCEPT !["close"] = rec]
      BY <2>1, <2>2, ListedRecord
    <3>2. /\ held' \in [Tasks -> Records \cup {NoRecord}]
          /\ held'["close"] # NoRecord
          /\ \A u \in Tasks : u # "close" => held'[u] = held[u]
      BY <3>1, HeldType
    <3> QED
      BY <2>1, <2>2, <3>2, TaskNames
  <2>3. CASE held' = held /\ owner' = "flushed"
    BY <2>1, <2>3
  <2> QED
    BY <2>1, <2>2, <2>3
<1>8. CASE LastFlush
  <2>1. /\ owner = "closing" /\ owner' \in {"flushed"}
        /\ held["close"] # NoRecord /\ held' = [held EXCEPT !["close"] = NoRecord]
        /\ rec' = held["close"] \/ rec' = rec
        /\ crossed' \in BOOLEAN
        /\ UNCHANGED <<reload, active, run, command, misjudged>>
    BY <1>8 DEF LastFlush, OwnerStep, Write
  <2>2. /\ held["close"] \in Records
        /\ held' \in [Tasks -> Records \cup {NoRecord}]
        /\ held'["close"] = NoRecord
        /\ \A u \in Tasks : u # "close" => held'[u] = held[u]
    BY <2>1, Released
  <2>3. held["close"] \in Records
    BY <2>2
  <2> QED
    BY <2>1, <2>2, <2>3, TaskNames
<1>9. CASE StopRuntime
  BY <1>9 DEF StopRuntime, OwnerStep
<1>10. CASE ReadToEnd
  <2>1. /\ \/ /\ Markable /\ owner' = "marking"
              /\ held' = [held EXCEPT !["close"] = rec]
           \/ owner' = "unmarked" /\ held' = held
        /\ owner = "stopped" /\ UNCHANGED <<rec, reload, active, run, command, crossed, misjudged>>
    BY <1>10 DEF ReadToEnd, OwnerStep
  <2>2. CASE owner' = "marking"
    <3>1. rec \in Records /\ held' = [held EXCEPT !["close"] = rec]
      BY <2>1, <2>2, ListedRecord
    <3>2. /\ held' \in [Tasks -> Records \cup {NoRecord}]
          /\ held'["close"] # NoRecord
          /\ \A u \in Tasks : u # "close" => held'[u] = held[u]
      BY <3>1, HeldType
    <3>3. /\ held'["reload"] = held["reload"] /\ held'["command"] = held["command"]
          /\ \A r \in Runs : held'[r] = held[r]
      BY <3>2, TaskNames
    <3> QED
      BY <2>1, <2>2, <3>2, <3>3
  <2>3. CASE held' = held /\ owner' = "unmarked"
    BY <2>1, <2>3
  <2> QED
    BY <2>1, <2>2, <2>3
<1>11. CASE EndOwn
  <2>1. /\ owner = "marking" /\ owner' \in {"exiting", "unmarked"}
        /\ UNCHANGED <<reload, active, run, command, misjudged>>
    BY <1>11 DEF EndOwn, OwnerStep, Write
  <2>2. /\ held["close"] # NoRecord /\ held' = [held EXCEPT !["close"] = NoRecord]
        /\ rec' = [held["close"] EXCEPT !.ended = TRUE] \/ rec' = rec
        /\ crossed' \in BOOLEAN
    BY <1>11 DEF EndOwn, OwnerStep, Write
  <2>3. /\ held["close"] \in Records
        /\ held' \in [Tasks -> Records \cup {NoRecord}]
        /\ held'["close"] = NoRecord
        /\ \A u \in Tasks : u # "close" => held'[u] = held[u]
    BY <2>2, Released
  <2>4. rec' \in Records \cup {NoRecord}
    <3> DEFINE x == [held["close"] EXCEPT !.ended = TRUE]
    <3>1. x \in Records
      BY <2>3
    <3>2. rec' = x \/ rec' = rec
      BY <2>2
    <3> HIDE DEF x
    <3> QED
      BY <3>1, <3>2
  <2>5. /\ held'["reload"] = held["reload"] /\ held'["command"] = held["command"]
        /\ \A r \in Runs : held'[r] = held[r]
    BY <2>3, TaskNames
  <2>6. crossed' \in BOOLEAN /\ held' \in [Tasks -> Records \cup {NoRecord}]
    BY <2>2, <2>3
  <2> QED
    BY <2>1, <2>3, <2>4, <2>5, <2>6
<1>12. CASE Exit
  <2>1. held' = [t \in Tasks |-> IF t \in OwnTasks THEN NoRecord ELSE held[t]]
    BY <1>12 DEF Exit
  <2>2. /\ owner' = "gone" /\ reload' = "idle" /\ active' = 0
        /\ crossed' = FALSE /\ misjudged' = FALSE
        /\ UNCHANGED <<rec, run, command>>
    BY <1>12 DEF Exit
  <2>3. held' \in [Tasks -> Records \cup {NoRecord}]
    BY <2>1
  <2>4. held'["reload"] = NoRecord /\ held'["close"] = NoRecord
    BY <2>1
  <2>5. held'["command"] = held["command"] /\ \A r \in Runs : held'[r] = held[r]
    BY <2>1, TaskNames
  <2>6. active' \in Versions
    BY <2>2, SessionAssumption
  <2> QED
    BY <2>2, <2>3, <2>4, <2>5, <2>6
<1>13. ASSUME NEW r \in Runs, ListToAttach(r) \/ ListToDetach(r) PROVE TypeOK'
  <2>1. /\ run[r] \in {"out", "in", "unlisted"}
        /\ UNCHANGED <<rec, owner, reload, active, command, crossed, misjudged>>
        /\ \/ run' = [run EXCEPT ![r] = "unlisted"] /\ held' = held
           \/ run' = [run EXCEPT ![r] = "left"] /\ held' = held
           \/ /\ \/ run' = [run EXCEPT ![r] = "listed"]
                 \/ run' = [run EXCEPT ![r] = "leaving"]
              /\ Listed
              /\ \E pids \in {OtherPids(r, rec.attached), OtherPids(r, rec.attached) \cup {r}} :
                   held' = [held EXCEPT ![r] = [ended |-> FALSE, attached |-> pids, fp |-> 0]]
    BY <1>13 DEF ListToAttach, ListToDetach, RunStep, HoldPids
  <2>2. CASE held' = held /\ \E w \in {"unlisted", "left"} : run' = [run EXCEPT ![r] = w]
    BY <2>1, <2>2
  <2>3. ASSUME Listed, NEW w \in {"listed", "leaving"}, run' = [run EXCEPT ![r] = w],
               NEW pids \in {OtherPids(r, rec.attached), OtherPids(r, rec.attached) \cup {r}},
               held' = [held EXCEPT ![r] = [ended |-> FALSE, attached |-> pids, fp |-> 0]]
        PROVE  TypeOK'
    <3>1. [ended |-> FALSE, attached |-> pids, fp |-> 0] \in Records
      BY <2>3 DEF OtherPids
    <3>2. /\ held' \in [Tasks -> Records \cup {NoRecord}]
          /\ held'[r] # NoRecord
          /\ \A u \in Tasks : u # r => held'[u] = held[u]
      BY <2>3, <3>1, HeldType
    <3> QED
      BY <2>1, <2>3, <3>2, TaskNames
  <2> QED
    BY <2>1, <2>2, <2>3
<1>15. ASSUME NEW r \in Runs, ReadAgain(r) PROVE TypeOK'
  <2>1. /\ run[r] \in {"listed", "leaving"} /\ held[r] # NoRecord
        /\ UNCHANGED <<rec, owner, reload, active, command, crossed, misjudged>>
        /\ \/ /\ \/ run' = [run EXCEPT ![r] = "unlisted"]
                 \/ run' = [run EXCEPT ![r] = "left"]
              /\ held' = [held EXCEPT ![r] = NoRecord]
           \/ /\ \/ run' = [run EXCEPT ![r] = "adding"]
                 \/ run' = [run EXCEPT ![r] = "removing"]
              /\ Listed
              /\ held' = [held EXCEPT ![r] = [rec EXCEPT !.attached = held[r].attached]]
    BY <1>15 DEF ReadAgain, RunStep
  <2>2. ASSUME NEW w \in {"unlisted", "left"}, run' = [run EXCEPT ![r] = w],
               held' = [held EXCEPT ![r] = NoRecord]
        PROVE  TypeOK'
    <3>1. /\ held' \in [Tasks -> Records \cup {NoRecord}]
          /\ held'[r] = NoRecord
          /\ \A u \in Tasks : u # r => held'[u] = held[u]
      BY <2>1, <2>2, Released
    <3> QED
      BY <2>1, <2>2, <3>1, TaskNames
  <2>3. ASSUME NEW w \in {"adding", "removing"}, run' = [run EXCEPT ![r] = w], Listed,
               held' = [held EXCEPT ![r] = [rec EXCEPT !.attached = held[r].attached]]
        PROVE  TypeOK'
    <3>1. [rec EXCEPT !.attached = held[r].attached] \in Records
      BY <2>1, <2>3
    <3>2. /\ held' \in [Tasks -> Records \cup {NoRecord}]
          /\ held'[r] # NoRecord
          /\ \A u \in Tasks : u # r => held'[u] = held[u]
      BY <2>3, <3>1, HeldType
    <3> QED
      BY <2>1, <2>3, <3>2, TaskNames
  <2> QED
    BY <2>1, <2>2, <2>3
<1>16. ASSUME NEW r \in Runs, WriteAttachment(r) \/ AttachmentFails(r) PROVE TypeOK'
  <2>1. /\ run[r] \in {"adding", "removing"} /\ held[r] # NoRecord
        /\ held' = [held EXCEPT ![r] = NoRecord]
        /\ run' = [run EXCEPT ![r] = "in"] \/ run' = [run EXCEPT ![r] = "left"]
        /\ rec' = held[r] \/ rec' = rec
        /\ crossed' \in BOOLEAN
        /\ UNCHANGED <<owner, reload, active, command, misjudged>>
    BY <1>16 DEF WriteAttachment, AttachmentFails, RunStep
  <2>2. /\ held[r] \in Records
        /\ held' \in [Tasks -> Records \cup {NoRecord}]
        /\ held'[r] = NoRecord
        /\ \A u \in Tasks : u # r => held'[u] = held[u]
    BY <2>1, Released
  <2> QED
    BY <2>1, <2>2, TaskNames
<1>17. ASSUME NEW r \in Runs, RunDies(r) PROVE TypeOK'
  BY <1>17 DEF RunDies, RunStep, Live
<1>18. CASE Command
  <2>1. CASE FindStale \/ SignalStop \/ SeeStopped \/ FindEnded
    <3>1. /\ command' \in {"judged", "stopping", "pruning"} /\ command # "marking"
          /\ misjudged' \in BOOLEAN
          /\ UNCHANGED <<rec, owner, reload, active, run, held, crossed>>
      BY <2>1 DEF CommandStep, FindStale, SignalStop, SeeStopped, FindEnded
    <3> QED
      BY <3>1
  <2>2. CASE ReadToMark
    <3>1. /\ \/ /\ Markable /\ command' = "marking"
                /\ held' = [held EXCEPT !["command"] = rec]
             \/ command' = "idle" /\ held' = held
          /\ command = "judged" /\ UNCHANGED <<rec, owner, reload, active, run, crossed, misjudged>>
      BY <2>2 DEF ReadToMark, CommandStep
    <3>2. CASE command' = "marking"
      <4>1. rec \in Records /\ held' = [held EXCEPT !["command"] = rec]
        BY <3>1, <3>2, ListedRecord
      <4>2. /\ held' \in [Tasks -> Records \cup {NoRecord}]
            /\ held'["command"] # NoRecord
            /\ \A u \in Tasks : u # "command" => held'[u] = held[u]
        BY <4>1, HeldType
      <4>3. /\ held'["reload"] = held["reload"] /\ held'["close"] = held["close"]
            /\ \A r \in Runs : held'[r] = held[r]
        BY <4>2, TaskNames
      <4> QED
        BY <3>1, <3>2, <4>2, <4>3
    <3>3. CASE held' = held /\ command' = "idle"
      BY <3>1, <3>3
    <3> QED
      BY <3>1, <3>2, <3>3
  <2>3. CASE Mark
    <3>1. /\ command = "marking" /\ command' = "idle"
          /\ UNCHANGED <<owner, reload, active, run, misjudged>>
      BY <2>3 DEF Mark, CommandStep, Write
    <3>2. /\ held["command"] # NoRecord /\ held' = [held EXCEPT !["command"] = NoRecord]
          /\ rec' = [held["command"] EXCEPT !.ended = TRUE] \/ rec' = rec
          /\ crossed' \in BOOLEAN
      BY <2>3 DEF Mark, CommandStep, Write
    <3>3. /\ held["command"] \in Records
          /\ held' \in [Tasks -> Records \cup {NoRecord}]
          /\ held'["command"] = NoRecord
          /\ \A u \in Tasks : u # "command" => held'[u] = held[u]
      BY <3>2, Released
    <3>4. rec' \in Records \cup {NoRecord}
      <4> DEFINE x == [held["command"] EXCEPT !.ended = TRUE]
      <4>1. x \in Records
        BY <3>3
      <4>2. rec' = x \/ rec' = rec
        BY <3>2
      <4> HIDE DEF x
      <4> QED
        BY <4>1, <4>2
    <3>5. /\ held'["reload"] = held["reload"] /\ held'["close"] = held["close"]
          /\ \A r \in Runs : held'[r] = held[r]
      BY <3>3, TaskNames
    <3>6. crossed' \in BOOLEAN /\ held' \in [Tasks -> Records \cup {NoRecord}]
      BY <3>2, <3>3
    <3> QED
      BY <3>1, <3>3, <3>4, <3>5, <3>6
  <2>4. CASE Prune
    BY <2>4 DEF Prune, CommandStep
  <2> QED
    BY <1>18, <2>1, <2>2, <2>3, <2>4 DEF Command
<1> QED
  BY <1>1, <1>2, <1>3, <1>4, <1>5, <1>6, <1>7, <1>8, <1>9, <1>10, <1>11, <1>12, <1>13,
     <1>15, <1>16, <1>17, <1>18 DEF Next, Reload, Cleanup, Attach

(* Types, and who holds a record when. *)
THEOREM TypeTheorem == Spec => []TypeOK
BY TypeInit, TypeNext, PTL DEF Spec

-----------------------------------------------------------------------------
LEMMA OpenNext == TypeOK /\ TypeOK' /\ OpenInv /\ [Next]_vars => OpenInv'
<1> SUFFICES ASSUME TypeOK, TypeOK', OpenInv, [Next]_vars, PortOpen', ~misjudged'
             PROVE  OpenInv'
  BY DEF OpenInv
<1>0. PortOpen /\ ~misjudged
  <2>1. UNCHANGED <<owner, misjudged>> => PortOpen /\ ~misjudged
    OBVIOUS
  <2>2. CASE UNCHANGED vars
    BY <2>1, <2>2 DEF vars
  <2>3. CASE ReadToFlush \/ Flush \/ Reload
    BY <2>1, <2>3 DEF Reload, ReadToFlush, Flush, Install, ReadToReload, WriteReloaded, Write
  <2>4. CASE Cleanup
    BY <2>4 DEF Cleanup, Close, LastFlush, StopRuntime, ReadToEnd, EndOwn, OwnerStep, Write
  <2>5. CASE Exit
    BY <2>5 DEF Exit
  <2>6. ASSUME NEW r \in Runs, Attach(r) \/ RunDies(r) PROVE PortOpen /\ ~misjudged
    BY <2>1, <2>6 DEF Attach, ListToAttach, ListToDetach, ReadAgain, WriteAttachment,
      AttachmentFails, RunDies, RunStep, HoldPids
  <2>7. CASE Command
    <3>1. UNCHANGED owner /\ (misjudged' = misjudged \/ misjudged' = TRUE \/ misjudged' = (misjudged \/ FALSE))
      BY <2>7 DEF Command, CommandStep, FindStale, ReadToMark, Mark, SignalStop, SeeStopped,
        FindEnded, Prune, Write
    <3>2. ~misjudged
      BY <3>1
    <3> QED
      BY <3>1, <3>2
  <2> QED
    BY <2>2, <2>3, <2>4, <2>5, <2>6, <2>7 DEF Next
<1> USE <1>0 DEF OpenInv
<1>1. CASE UNCHANGED vars
  BY <1>1 DEF vars
<1>2. CASE ReadToFlush
  BY <1>2 DEF ReadToFlush, TypeOK
<1>3. CASE Flush
  BY <1>3 DEF Flush, Write, TypeOK
<1>4. CASE Install
  BY <1>4 DEF Install
<1>5. CASE ReadToReload
  BY <1>5 DEF ReadToReload, TypeOK
<1>6. CASE WriteReloaded
  BY <1>6 DEF WriteReloaded, Write, TypeOK
<1>7. CASE Close \/ LastFlush
  BY <1>7 DEF Close, LastFlush, OwnerStep, Write, TypeOK
<1>8. CASE StopRuntime \/ ReadToEnd \/ EndOwn \/ Exit
  BY <1>8 DEF StopRuntime, ReadToEnd, EndOwn, Exit, OwnerStep
<1>9. ASSUME NEW r \in Runs, Attach(r) PROVE OpenInv'
  <2>1. CASE ListToAttach(r) \/ ListToDetach(r)
    BY <2>1 DEF ListToAttach, ListToDetach, RunStep, HoldPids, OtherPids, TypeOK
  <2>2. CASE ReadAgain(r)
    BY <2>2 DEF ReadAgain, RunStep, TypeOK
  <2>3. CASE WriteAttachment(r)
    BY <2>3 DEF WriteAttachment, RunStep, TypeOK
  <2>4. CASE AttachmentFails(r)
    BY <2>4 DEF AttachmentFails, RunStep, TypeOK
  <2> QED
    BY <1>9, <2>1, <2>2, <2>3, <2>4 DEF Attach
<1>10. ASSUME NEW r \in Runs, RunDies(r) PROVE OpenInv'
  BY <1>10 DEF RunDies, RunStep, TypeOK
<1>11. CASE Command
  BY <1>11 DEF Command, CommandStep, FindStale, ReadToMark, Mark, SignalStop, SeeStopped,
    FindEnded, Prune, Write
<1> QED
  BY <1>1, <1>2, <1>3, <1>4, <1>5, <1>6, <1>7, <1>8, <1>9, <1>10, <1>11 DEF Next, Reload, Cleanup

(* A session whose proxy listens keeps its record, unmarked. *)
THEOREM LiveKeptTheorem == Spec => []LiveKept
<1>1. Init => OpenInv
  <2> SUFFICES ASSUME Init PROVE OpenInv
    OBVIOUS
  <2>1. TypeOK
    BY TypeInit
  <2>2. [ended |-> FALSE, attached |-> {}, fp |-> 0] \in Records
    OBVIOUS
  <2>3. rec # NoRecord /\ ~rec.ended /\ command = "idle"
    BY <2>2, SessionAssumption DEF Init, Records, Versions
  <2>4. \A t \in Tasks : held[t] = NoRecord
    BY DEF Init
  <2> QED
    BY <2>3, <2>4 DEF OpenInv
<1>2. OpenInv => LiveKept
  BY DEF OpenInv, LiveKept
<1> QED
  BY <1>1, <1>2, OpenNext, TypeTheorem, PTL DEF Spec

-----------------------------------------------------------------------------
(* A write that does not cross another leaves the record as it was read, but *)
(* for the change of the task itself.                                        *)
LEMMA TruthNext ==
  TypeOK /\ TypeOK' /\ AttachInv /\ RecordTruth /\ [Next]_vars => AttachInv' /\ RecordTruth'
<1> SUFFICES ASSUME TypeOK, TypeOK', AttachInv, RecordTruth, [Next]_vars
             PROVE  AttachInv' /\ RecordTruth'
  OBVIOUS
<1> USE DEF AttachInv, RecordTruth
<1>1. CASE UNCHANGED vars
  BY <1>1 DEF vars
<1>2. CASE ReadToFlush
  BY <1>2 DEF ReadToFlush, TypeOK
<1>3. CASE Flush
  <2>1. CASE Write("flush", held["flush"])
    BY <1>3, <2>1 DEF Flush, Write, TypeOK
  <2>2. CASE WriteFails("flush")
    BY <1>3, <2>2 DEF Flush, TypeOK
  <2> QED
    BY <1>3, <2>1, <2>2 DEF Flush
<1>4. CASE Install
  BY <1>4 DEF Install, TypeOK
<1>5. CASE ReadToReload
  BY <1>5 DEF ReadToReload, TypeOK
<1>6. CASE WriteReloaded
  BY <1>6 DEF WriteReloaded, Write, TypeOK
<1>7. CASE Close
  BY <1>7 DEF Close, OwnerStep, TypeOK
<1>8. CASE LastFlush
  BY <1>8 DEF LastFlush, OwnerStep, Write, TypeOK
<1>9. CASE StopRuntime \/ ReadToEnd
  BY <1>9 DEF StopRuntime, ReadToEnd, OwnerStep, TypeOK
<1>10. CASE EndOwn
  BY <1>10 DEF EndOwn, OwnerStep, Write, TypeOK
<1>11. CASE Exit
  BY <1>11 DEF Exit, TypeOK
<1>12. ASSUME NEW r \in Runs, Attach(r) PROVE AttachInv' /\ RecordTruth'
  <2>1. CASE ListToAttach(r)
    <3>1. CASE held' = held /\ run' = [run EXCEPT ![r] = "unlisted"]
      BY <2>1, <3>1 DEF ListToAttach, RunStep, HoldPids, TypeOK
    <3>2. CASE run' = [run EXCEPT ![r] = "listed"]
      <4> DEFINE pids == OtherPids(r, rec.attached) \cup {r}
                 x == [ended |-> FALSE, attached |-> pids, fp |-> 0]
      <4>1. /\ held' = [held EXCEPT ![r] = x]
            /\ UNCHANGED <<rec, owner, reload, active, crossed>>
        BY <2>1, <3>2 DEF ListToAttach, RunStep, HoldPids, TypeOK
      <4>2. x.attached = pids /\ r \in pids
        OBVIOUS
      <4> HIDE DEF pids, x
      <4> QED
        BY <3>2, <4>1, <4>2 DEF TypeOK
    <3> QED
      BY <2>1, <3>1, <3>2 DEF ListToAttach, RunStep
  <2>2. CASE ListToDetach(r)
    <3>1. /\ run' = [run EXCEPT ![r] = "leaving"] \/ run' = [run EXCEPT ![r] = "left"]
          /\ UNCHANGED <<rec, owner, reload, active, crossed>>
      BY <2>2 DEF ListToDetach, RunStep, HoldPids
    <3>2. \A q \in Runs : q # r => held'[q] = held[q]
      <4> DEFINE x == [ended |-> FALSE, attached |-> OtherPids(r, rec.attached), fp |-> 0]
      <4>1. held' = [held EXCEPT ![r] = x] \/ held' = held
        BY <2>2 DEF ListToDetach, HoldPids
      <4> HIDE DEF x
      <4> QED
        BY <4>1 DEF TypeOK
    <3> QED
      BY <3>1, <3>2 DEF TypeOK
  <2>3. CASE ReadAgain(r)
    <3>1. UNCHANGED <<rec, owner, reload, active, crossed>>
      BY <2>3 DEF ReadAgain, RunStep
    <3>2. CASE /\ run' = [run EXCEPT ![r] = "unlisted"] \/ run' = [run EXCEPT ![r] = "left"]
               /\ held' = [held EXCEPT ![r] = NoRecord]
      BY <3>1, <3>2 DEF TypeOK
    <3>3. CASE Listed /\ held' = [held EXCEPT ![r] = [rec EXCEPT !.attached = held[r].attached]]
      <4>1. rec \in Records
        BY <3>3, ListedRecord
      <4>2. held[r] \in Records
        BY <2>3 DEF ReadAgain, RunStep, TypeOK
      <4> DEFINE x == [rec EXCEPT !.attached = held[r].attached]
      <4>3. x \in Records /\ x.attached = held[r].attached
        BY <4>1, <4>2
      <4>4. held' = [held EXCEPT ![r] = x]
        BY <3>3
      <4> HIDE DEF x
      <4>5. \A u \in Tasks : u # r => held'[u] = held[u]
        BY <4>3, <4>4, HeldType
      <4>6. held'[r].attached = held[r].attached
        BY <4>3, <4>4 DEF TypeOK
      <4>7. \/ run[r] = "listed"  /\ run' = [run EXCEPT ![r] = "adding"]
            \/ run[r] = "listed"  /\ run' = [run EXCEPT ![r] = "unlisted"]
            \/ run[r] = "leaving" /\ run' = [run EXCEPT ![r] = "removing"]
            \/ run[r] = "leaving" /\ run' = [run EXCEPT ![r] = "left"]
        BY <2>3 DEF ReadAgain, RunStep
      <4>8. /\ \A q \in Runs : q # r => run'[q] = run[q]
            /\ run'[r] # "in" /\ run'[r] # "listed"
            /\ run'[r] = "adding" => run[r] = "listed"
        BY <4>7 DEF TypeOK
      <4>9. \A q \in Runs : held'[q].attached = held[q].attached
        BY <4>5, <4>6
      <4>10. AttachInv'
        BY <4>8, <4>9
      <4>11. RecordTruth'
        BY <3>1, <4>8
      <4> QED
        BY <4>10, <4>11
    <3> QED
      BY <2>3, <3>2, <3>3 DEF ReadAgain, RunStep
  <2>4. CASE WriteAttachment(r)
    <3>1. /\ rec' = held[r] /\ held' = [held EXCEPT ![r] = NoRecord]
          /\ UNCHANGED <<owner, reload, active, command>>
      BY <2>4 DEF WriteAttachment, RunStep, Unowned
    <3>2. \/ run[r] = "adding"   /\ run' = [run EXCEPT ![r] = "in"]
          \/ run[r] = "removing" /\ run' = [run EXCEPT ![r] = "left"]
      BY <2>4 DEF WriteAttachment, RunStep
    <3>3. AttachInv'
      BY <3>1, <3>2 DEF TypeOK
    <3>4. ASSUME Listed', ~crossed'
          PROVE  /\ rec # NoRecord /\ held[r] = [rec EXCEPT !.attached = held[r].attached]
                 /\ OtherPids(r, rec.attached) = OtherPids(r, held[r].attached)
                 /\ ~crossed
      BY <2>4, <3>4 DEF WriteAttachment
    <3>5. ASSUME Listed', ~crossed' PROVE Listed /\ rec.fp = rec'.fp
      BY <3>1, <3>4, <3>5 DEF TypeOK
    <3>6. ASSUME Listed', ~crossed', NEW q \in Runs, run'[q] = "in"
          PROVE  q \in rec'.attached
      <4>1. CASE q = r
        BY <3>1, <3>2, <3>6, <4>1 DEF TypeOK
      <4>2. CASE q # r
        <5>1. run[q] = "in"
          BY <3>2, <3>6, <4>2 DEF TypeOK
        <5>2. q \in OtherPids(r, rec.attached)
          BY <3>4, <3>5, <3>6, <4>2, <5>1 DEF OtherPids, Live
        <5> QED
          BY <3>1, <3>4, <3>6, <5>2 DEF OtherPids
      <4> QED
        BY <4>1, <4>2
    <3> QED
      BY <3>1, <3>3, <3>4, <3>5, <3>6
  <2>5. CASE AttachmentFails(r)
    BY <2>5 DEF AttachmentFails, RunStep, TypeOK
  <2> QED
    BY <1>12, <2>1, <2>2, <2>3, <2>4, <2>5 DEF Attach
<1>13. ASSUME NEW r \in Runs, RunDies(r) PROVE AttachInv' /\ RecordTruth'
  BY <1>13 DEF RunDies, RunStep, TypeOK
<1>14. CASE Command
  <2>1. CASE FindStale \/ SignalStop \/ SeeStopped \/ FindEnded
    BY <2>1 DEF CommandStep, FindStale, SignalStop, SeeStopped, FindEnded
  <2>2. CASE ReadToMark
    BY <2>2 DEF ReadToMark, CommandStep, TypeOK
  <2>3. CASE Mark
    BY <2>3 DEF Mark, CommandStep, Write, TypeOK
  <2>4. CASE Prune
    BY <2>4 DEF Prune, CommandStep
  <2> QED
    BY <1>14, <2>1, <2>2, <2>3, <2>4 DEF Command
<1> QED
  BY <1>1, <1>2, <1>3, <1>4, <1>5, <1>6, <1>7, <1>8, <1>9, <1>10, <1>11, <1>12, <1>13, <1>14
  DEF Next, Reload, Cleanup

(* Without writes that cross, the record of a running session is true. *)
THEOREM RecordTruthTheorem == Spec => []RecordTruth
<1>1. Init => AttachInv /\ RecordTruth
  BY DEF Init, AttachInv, RecordTruth
<1> QED
  BY <1>1, TruthNext, TypeTheorem, PTL DEF Spec

=============================================================================
