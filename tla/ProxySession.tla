------------------------------ MODULE ProxySession ----------------------------
(***************************************************************************)
(* The record of one `varlock proxy start` session, session.json, which    *)
(* tasks of several processes read, merge and rename into place            *)
(* (packages/varlock/src/proxy/session-registry.ts): the owner's           *)
(* statistics, reloads and clean up, the runs that attach and detach, and  *)
(* the commands that stop, clean up and prune                              *)
(* (cli/commands/proxy.command.ts).                                        *)
(*                                                                         *)
(* A read may fail, and then finds no record; a write may fail, and then   *)
(* changes none; and a probe may take a proxy that listens for dead.       *)
(*                                                                         *)
(* Of the record only endedAt, attachedPids and schemaFingerprint are kept;*)
(* a statistics write merges into the rest.  How a reload comes about is   *)
(* ProxyReload's subject.                                                  *)
(***************************************************************************)
EXTENDS Naturals, FiniteSets

CONSTANTS
  Runs,        \* `proxy run` processes that attach
  NoRecord,
  MaxReloads   \* bound on reloads of the schema

ASSUME SessionAssumption ==
  /\ Runs \cap {"reload", "flush", "close", "command"} = {}
  /\ MaxReloads \in Nat
  /\ NoRecord \notin [ended : BOOLEAN, attached : SUBSET Runs, fp : 0..MaxReloads]

VARIABLES
  rec,       \* session.json
  owner,     \* where the daemon is between start and exit
  reload,    \* where its reload is
  active,    \* the schema whose policy the runtime applies
  run,       \* where each attached run is
  command,   \* where the stop, clean up or prune command is
  held,      \* what a task has read and is about to write back, changed
  crossed,   \* a task has written back a record that was out of date
  misjudged  \* a probe has taken the proxy, while it listens, for dead

vars == <<rec, owner, reload, active, run, command, held, crossed, misjudged>>

Versions == 0..MaxReloads
OwnTasks == {"reload", "flush", "close"}
Tasks    == OwnTasks \cup Runs \cup {"command"}
Records  == [ended : BOOLEAN, attached : SUBSET Runs, fp : Versions]

Init ==
  /\ rec = [ended |-> FALSE, attached |-> {}, fp |-> 0]
  /\ owner = "up"
  /\ reload = "idle"
  /\ active = 0
  /\ run = [r \in Runs |-> "out"]
  /\ command = "idle"
  /\ held = [t \in Tasks |-> NoRecord]
  /\ crossed = FALSE
  /\ misjudged = FALSE

-----------------------------------------------------------------------------
(* The record. *)

OwnerRuns == owner # "gone"
PortOpen  == owner \in {"up", "closing", "flushed"}

(* listProxySessions and getProxySessionByToken, without includeEnded. *)
Listed == rec # NoRecord /\ ~rec.ended /\ OwnerRuns

Markable == rec # NoRecord /\ ~rec.ended
Ended(r) == [r EXCEPT !.ended = TRUE]

(* isProxySessionAlive of a record that is not marked ended: the pid, and a  *)
(* port that answers on 127.0.0.1.  A time out and any error count as dead,  *)
(* and a proxy exposed on another address only (`--expose=<addr>') always    *)
(* does: no listening proxy is sure to be found alive.                       *)
Judge(alive) ==
  /\ alive => OwnerRuns /\ PortOpen
  /\ misjudged' = (misjudged \/ (OwnerRuns /\ PortOpen /\ ~alive))
  /\ UNCHANGED <<rec, held, crossed>>

Hold(t, r) == held' = [held EXCEPT ![t] = r]

(* writeSessionRecordAtomic: the record as it was read, with the task's own  *)
(* change; the directory is made again if it is gone.                        *)
Write(t, r) ==
  /\ rec' = r
  /\ crossed' = (crossed \/ held[t] # rec)
  /\ Hold(t, NoRecord)
  /\ UNCHANGED misjudged

NoWrite == UNCHANGED <<rec, crossed, misjudged>>

WriteFails(t) == Hold(t, NoRecord) /\ NoWrite

(* A record that cannot be read is as good as missing. *)
FindsNone == UNCHANGED held /\ NoWrite
FindsRecord(t, there) == there /\ Hold(t, rec) /\ NoWrite

-----------------------------------------------------------------------------
(* The owner. *)

Unowned == UNCHANGED <<owner, reload, active>>
Others  == UNCHANGED <<run, command>>

(* The statistics timer: updateProxySessionRecord, in two steps. *)
ReadToFlush ==
  /\ held["flush"] = NoRecord
  /\ FindsRecord("flush", Listed)   \* else nothing is done
  /\ Unowned /\ Others

Flush ==
  /\ held["flush"] # NoRecord
  /\ Write("flush", held["flush"]) \/ WriteFails("flush")
  /\ Unowned /\ Others

(* A reload has resolved the schema: reconfigure, ... *)
Install ==
  /\ OwnerRuns /\ reload \in {"idle", "unrecorded"} /\ active < MaxReloads
  /\ active' = active + 1
  /\ reload' = "installed"
  /\ NoWrite /\ Others /\ UNCHANGED <<owner, held>>

(* Mutant: the test for a missing record is left out. *)
ReadToReloadUnlisted ==
  /\ reload = "installed"
  /\ reload' = "writing"
  /\ FindsRecord("reload", Listed) \/ FindsNone
  /\ Others /\ UNCHANGED <<owner, active>>

(* ... then updateProxySessionRecord, which does nothing to a record that is *)
(* not listed.                                                               *)
ReadToReload ==
  /\ reload = "installed"
  /\ \/ reload' = "writing" /\ FindsRecord("reload", Listed)
     \/ reload' = "unrecorded" /\ FindsNone
  /\ Others /\ UNCHANGED <<owner, active>>

(* Mutant: the record of before the reload is written over the file. *)
WriteReloadedStale ==
  /\ reload = "writing"
  /\ reload' = "idle"
  /\ Write("reload", held["reload"])
  /\ Others /\ UNCHANGED <<owner, active>>

(* A reload that fails here is reported as an error, its policy applied.     *)
WriteReloaded ==
  /\ reload = "writing"
  /\ \/ reload' = "idle" /\ Write("reload", [held["reload"] EXCEPT !.fp = active])
     \/ reload' = "unrecorded" /\ WriteFails("reload")
  /\ Others /\ UNCHANGED <<owner, active>>

OwnerStep(from, to) ==
  owner = from /\ owner' = to /\ Others /\ UNCHANGED <<reload, active>>

(* SIGINT, SIGTERM or Ctrl-C: cleanup writes the statistics once more, ...   *)
Close ==
  \/ OwnerStep("up", "closing") /\ FindsRecord("close", Listed)
  \/ OwnerStep("up", "flushed") /\ FindsNone

LastFlush ==
  /\ OwnerStep("closing", "flushed")
  /\ Write("close", held["close"]) \/ WriteFails("close")

(* ... stops the runtime, which closes the port, ... *)
StopRuntime ==
  /\ OwnerStep("flushed", "stopped")
  /\ misjudged' = FALSE
  /\ UNCHANGED <<rec, held, crossed>>

(* ... and marks the record ended. *)
ReadToEnd ==
  \/ OwnerStep("stopped", "marking") /\ FindsRecord("close", Markable)
  \/ OwnerStep("stopped", "unmarked") /\ FindsNone

EndOwn ==
  \/ OwnerStep("marking", "exiting") /\ Write("close", Ended(held["close"]))
  \/ OwnerStep("marking", "unmarked") /\ WriteFails("close")

(* The end of cleanup or of its four seconds, a second signal, a crash. *)
Exit ==
  /\ OwnerRuns
  /\ owner' = "gone"
  /\ reload' = "idle"
  /\ held' = [t \in Tasks |-> IF t \in OwnTasks THEN NoRecord ELSE held[t]]
  /\ active' = 0 /\ crossed' = FALSE /\ misjudged' = FALSE   \* of a running session only
  /\ Others /\ UNCHANGED rec

-----------------------------------------------------------------------------
(* `proxy run`, attached: addProxySessionAttachment and                      *)
(* removeProxySessionAttachment read the list of pids, and then              *)
(* updateProxySessionRecord reads the record again.                          *)

Live(r) == run[r] \notin {"out", "left"}
OtherPids(r, pids) == {p \in pids : Live(p) /\ p # r}

RunStep(r, from, to) ==
  run[r] = from /\ run' = [run EXCEPT ![r] = to] /\ Unowned /\ UNCHANGED command

(* The list of pids is all that is kept of the first read. *)
HoldPids(r, pids) ==
  Listed /\ Hold(r, [ended |-> FALSE, attached |-> pids, fp |-> 0]) /\ NoWrite

(* The daemon has just handed out the session's environment.  A run that     *)
(* finds no record goes on, off the record.                                  *)
ListToAttach(r) ==
  /\ OwnerRuns
  /\ \/ RunStep(r, "out", "listed") /\ HoldPids(r, OtherPids(r, rec.attached) \cup {r})
     \/ RunStep(r, "out", "unlisted") /\ FindsNone

ListToDetach(r) ==
  \E from \in {"in", "unlisted"} :
    \/ RunStep(r, from, "leaving") /\ HoldPids(r, OtherPids(r, rec.attached))
    \/ RunStep(r, from, "left") /\ FindsNone

ReadAgain(r) ==
  \/ /\ RunStep(r, "listed", "adding") \/ RunStep(r, "leaving", "removing")
     /\ Listed /\ Hold(r, [rec EXCEPT !.attached = held[r].attached]) /\ NoWrite
  \/ /\ RunStep(r, "listed", "unlisted") \/ RunStep(r, "leaving", "left")
     /\ Hold(r, NoRecord) /\ NoWrite

WriteAttachment(r) ==
  /\ RunStep(r, "adding", "in") \/ RunStep(r, "removing", "left")
  /\ rec' = held[r]
  /\ Hold(r, NoRecord)
  /\ crossed' = (crossed \/ rec = NoRecord
                   \/ [rec EXCEPT !.attached = held[r].attached] # held[r]
                   \/ OtherPids(r, rec.attached) # OtherPids(r, held[r].attached))
  /\ UNCHANGED misjudged

(* A run that cannot write its attachment does not start; one that cannot    *)
(* take it back ends all the same.                                           *)
AttachmentFails(r) ==
  /\ RunStep(r, "adding", "left") \/ RunStep(r, "removing", "left")
  /\ WriteFails(r)

RunDies(r) ==
  /\ Live(r)
  /\ RunStep(r, run[r], "left")
  /\ Hold(r, NoRecord)
  /\ NoWrite

-----------------------------------------------------------------------------
(* `proxy stop`, `proxy prune`, and cleanupStaleProxySessions, with which    *)
(* they and the attaching commands begin; one such command at a time.        *)

CommandStep(from, to) ==
  command = from /\ command' = to /\ Unowned /\ UNCHANGED run

(* Mutant: the clean up looks at the listed sessions only. *)
FindStaleListed ==
  /\ CommandStep("idle", "judged")
  /\ Listed
  /\ Judge(FALSE)

(* A record that is judged dead is about to be marked ended. *)
FindStale ==
  /\ CommandStep("idle", "judged")
  /\ Markable
  /\ Judge(FALSE)

(* markProxySessionEnded, which reads the file again. *)
ReadToMark ==
  \/ CommandStep("judged", "marking") /\ FindsRecord("command", Markable)
  \/ CommandStep("judged", "idle") /\ FindsNone

Mark ==
  /\ CommandStep("marking", "idle")
  /\ Write("command", Ended(held["command"])) \/ WriteFails("command")

(* stopOneSession: SIGTERM to a session that is alive.  What the signal does *)
(* is Close, or Exit when the clean up is under way.                         *)
SignalStop ==
  /\ CommandStep("idle", "stopping")
  /\ Markable
  /\ Judge(TRUE)

(* Mutant: the record is marked without waiting for the exit. *)
SeeStoppedAtOnce ==
  /\ CommandStep("stopping", "judged")
  /\ UNCHANGED held /\ NoWrite

(* waitForSessionExit, with the record as it was found: the pid is gone or   *)
(* the port does not answer.  After three seconds SIGKILL is sent, an Exit.  *)
SeeStopped ==
  /\ CommandStep("stopping", "judged")
  /\ Judge(FALSE)

(* pruneEndedProxySessions, or pruneAction of one session by its id. *)
FindEnded ==
  /\ CommandStep("idle", "pruning")
  /\ rec # NoRecord
  /\ IF rec.ended THEN UNCHANGED held /\ NoWrite ELSE Judge(FALSE)

(* deleteProxySession *)
Prune ==
  /\ CommandStep("pruning", "idle")
  /\ rec' \in {NoRecord, rec}   \* it may fail
  /\ UNCHANGED <<held, crossed, misjudged>>

-----------------------------------------------------------------------------
Reload  == Install \/ ReadToReload \/ WriteReloaded
Cleanup == Close \/ LastFlush \/ StopRuntime \/ ReadToEnd \/ EndOwn
Attach(r)  == ListToAttach(r) \/ ListToDetach(r) \/ ReadAgain(r) \/ WriteAttachment(r)
                \/ AttachmentFails(r)
Command == FindStale \/ ReadToMark \/ Mark \/ SignalStop \/ SeeStopped \/ FindEnded \/ Prune

Next ==
  \/ ReadToFlush \/ Flush \/ Reload \/ Cleanup \/ Exit
  \/ \E r \in Runs : Attach(r) \/ RunDies(r)
  \/ Command

Spec == Init /\ [][Next]_vars

(* A command or a run that has begun a change of the record goes on, and     *)
(* somebody runs a command that cleans up as long as there is a record to    *)
(* clean up; a command that is run again and again is not forever kept from  *)
(* reading and writing the file.  The owner may stop at any point for ever.  *)
Fairness ==
  /\ SF_vars(FindStale)
  /\ WF_vars(ReadToMark \/ Mark \/ SeeStopped \/ Prune)
  /\ SF_vars(ReadToMark /\ command' = "marking")
  /\ SF_vars(Mark /\ rec' = Ended(held["command"]))
  /\ \A r \in Runs : WF_vars(ReadAgain(r) \/ WriteAttachment(r))

FairSpec == Spec /\ Fairness

-----------------------------------------------------------------------------
(* The variables have their types, and a task keeps a record only between    *)
(* its read and its write.                                                   *)
TypeOK ==
  /\ rec \in Records \cup {NoRecord}
  /\ owner \in {"up", "closing", "flushed", "stopped", "marking", "exiting", "unmarked", "gone"}
  /\ reload \in {"idle", "installed", "writing", "unrecorded"}
  /\ active \in Versions
  /\ run \in [Runs -> {"out", "listed", "adding", "in", "unlisted", "leaving", "removing", "left"}]
  /\ command \in {"idle", "judged", "marking", "stopping", "pruning"}
  /\ held \in [Tasks -> Records \cup {NoRecord}]
  /\ crossed \in BOOLEAN
  /\ misjudged \in BOOLEAN
  /\ (held["reload"] # NoRecord) <=> (reload = "writing")
  /\ (held["close"] # NoRecord) <=> (owner \in {"closing", "marking"})
  /\ (held["command"] # NoRecord) <=> (command = "marking")
  /\ \A r \in Runs :
       (held[r] # NoRecord) <=> (run[r] \in {"listed", "adding", "leaving", "removing"})

(* A session whose proxy listens keeps its record, and the record is not     *)
(* marked ended, unless a probe has taken the listening proxy for dead:      *)
(* whatever `proxy stop', `proxy prune' and the clean up do, however late a  *)
(* task writes back what it has read, and whatever reads and writes fail.    *)
(* The exception is the code's (isPortAccepting: a time out, an error, a     *)
(* proxy that is exposed on another address than 127.0.0.1 only).            *)
LiveKept ==
  OwnerRuns /\ PortOpen /\ ~misjudged => rec # NoRecord /\ ~rec.ended

(* As long as no task has written back a record that another had changed     *)
(* since it was read, the record of a running session is true: the runs that *)
(* found it and attached are on it, so that what runs under them is          *)
(* recognised as proxied; after a reload that could read and write it it has *)
(* the fingerprint of the policy that is applied, whatever failed before;    *)
(* and once the owner has marked it ended it stays so.                       *)
RecordTruth ==
  Listed /\ ~crossed =>
    /\ \A r \in Runs : run[r] = "in" => r \in rec.attached
    /\ reload = "idle" => rec.fp = active
    /\ owner # "exiting"

(* The record of a daemon that is gone, killed at any point of its own clean *)
(* up, is in the end marked ended or deleted for good, although a run that   *)
(* read it before may write it back without endedAt, or after it was pruned. *)
DeadIsEnded == (owner = "gone") ~> [](rec = NoRecord \/ rec.ended)
=============================================================================
