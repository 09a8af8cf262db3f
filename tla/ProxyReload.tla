------------------------------- MODULE ProxyReload ----------------------------
(***************************************************************************)
(* Reloading the schema of a running proxy session: the two files through  *)
(* which `varlock proxy reload` asks the owner of the session and gets its *)
(* answer (packages/varlock/src/proxy/reload-channel.ts), the servicer in  *)
(* the owner that polls them, the keypress in the owner's terminal, and    *)
(* the command that waits (cli/commands/proxy.command.ts).                 *)
(*                                                                         *)
(* A schema is the number of its edits.  That the fingerprint of the       *)
(* session record is written by a read and a rename that may cross others' *)
(* is ProxySession's subject; here it is one step, which may fail.         *)
(***************************************************************************)
EXTENDS Naturals

CONSTANTS
  Commands,      \* `proxy reload` commands
  ChildCommands, \* those run from inside the proxied child
  NoRequest,
  Ticks,         \* ticks of the servicer that may overlap
  MaxEdits,      \* bound on edits of the schema
  MaxKeys        \* bound on reloads from the owner's terminal

ASSUME ReloadAssumption ==
  /\ ChildCommands \subseteq Commands
  /\ NoRequest \notin Commands
  /\ "key" \notin Ticks
  /\ MaxEdits \in Nat /\ MaxKeys \in Nat

VARIABLES
  reqFile,     \* reload-request.json
  resFile,     \* reload-result.json
  owner,       \* "up", "closing" or "gone"
  initialized, lastRequestId, busy,   \* of the servicer
  job,         \* each reload under way
  applied,     \* the schema whose policy the runtime applies
  fp,          \* schemaFingerprint of the session record
  asking,      \* where each reload command is
  disk,        \* the schema on disk
  keys,        \* keypresses so far
  asked,       \* the schema on disk when a request was written, while it can be done
  best,        \* the newest schema installed so far
  upsets       \* which of Upsets have happened

servicer == <<initialized, lastRequestId, busy>>
policy   == <<applied, fp, best>>
asks     == <<asking, asked>>
channel  == <<reqFile, resFile>>
reloadVars == <<channel, owner, servicer, job, policy, asks, disk, keys, upsets>>

Versions == 0..MaxEdits
Jobs     == Ticks \cup {"key"}
Statuses == {"done", "error", "denied"}

(* "doubled": a reload began while another was under way, which says all;    *)
(* "unrecorded": the last reload to get so far left an older fingerprint;    *)
(* "unanswered": the result of the request in the file could not be written. *)
Upsets == {"doubled", "unrecorded", "unanswered"}

NoJob == [at |-> "idle", request |-> NoRequest, schema |-> 0, status |-> "done"]

ReloadInit ==
  /\ reqFile = NoRequest
  /\ resFile = [request |-> NoRequest, status |-> "done"]
  /\ owner = "up"
  /\ initialized = FALSE
  /\ lastRequestId = NoRequest
  /\ busy = FALSE
  /\ job = [j \in Jobs |-> NoJob]
  /\ applied = 0
  /\ fp = 0
  /\ asking = [q \in Commands |-> "idle"]
  /\ disk = 0
  /\ keys = 0
  /\ asked = [q \in Commands |-> 0]
  /\ best = 0
  /\ upsets = {}

-----------------------------------------------------------------------------
(* The owner. *)

OwnerRuns == owner # "gone"

(* The first thing the servicer does: an earlier run's request is no request.*)
Seed ==
  /\ ~initialized /\ OwnerRuns
  /\ initialized' = TRUE
  /\ lastRequestId' = reqFile
  /\ UNCHANGED <<channel, owner, busy, job, policy, asks, disk, keys, upsets>>

Poll(j) ==
  /\ job[j].at = "idle" /\ reqFile # NoRequest
  /\ job' = [job EXCEPT ![j] = [NoJob EXCEPT !.at = "polled", !.request = reqFile]]
  /\ UNCHANGED <<channel, owner, servicer, policy, asks, disk, keys, upsets>>

(* The timer fires, and tick reads the request file; without one it is over. *)
ServicerTick(j) == owner = "up" /\ initialized /\ ~busy /\ Poll(j)

Reloading == {j \in Jobs : job[j].at \notin {"idle", "polled"}}
Upset(what) ==
  upsets' = IF "doubled" \in upsets THEN upsets ELSE upsets \cup {what}

Begin(j, at, status) ==
  /\ job' = [job EXCEPT ![j] = [@ EXCEPT !.at = at, !.status = status]]
  /\ upsets' = IF Reloading # {} THEN {"doubled"} ELSE upsets

(* What tick does with the request it read, some time later: nothing, or     *)
(* apply it.  busy was looked at before the read.                            *)
Polled(j) ==
  LET q == job[j].request IN
  /\ job[j].at = "polled"
  /\ \/ /\ q = lastRequestId
        /\ job' = [job EXCEPT ![j] = NoJob]
        /\ UNCHANGED <<servicer, upsets>>
     \/ /\ q # lastRequestId
        /\ lastRequestId' = q
        /\ busy' = TRUE
        /\ IF q \in ChildCommands THEN Begin(j, "reply", "denied") ELSE Begin(j, "load", "done")
        /\ UNCHANGED initialized
  /\ UNCHANGED <<channel, owner, policy, asks, disk, keys>>

(* `r`, then `y`, in the owner's terminal: applyTrustedReload, whatever the  *)
(* servicer is doing.                                                        *)
KeyReload ==
  /\ owner = "up" /\ keys < MaxKeys /\ job["key"].at = "idle"
  /\ keys' = keys + 1
  /\ Begin("key", "load", "done")
  /\ UNCHANGED <<channel, owner, servicer, policy, asks, disk>>

(* Where a reload goes when applyTrustedReload returns: the servicer writes  *)
(* a result, the keypress has nobody to tell.                                *)
Return(j, status) ==
  job' = [job EXCEPT ![j] = IF j = "key" THEN NoJob
                            ELSE [@ EXCEPT !.at = "reply", !.status = status, !.schema = 0]]

(* prepareProxyPolicy resolves the schema it finds on disk, or throws. *)
Load(j) ==
  /\ job[j].at = "load"
  /\ \/ job' = [job EXCEPT ![j].at = "loaded", ![j].schema = disk]
     \/ Return(j, "error")
  /\ UNCHANGED <<channel, owner, servicer, policy, asks, disk, keys, upsets>>

Install(j) ==
  /\ job[j].at = "loaded"
  /\ applied' = job[j].schema
  /\ best' = IF job[j].schema > best THEN job[j].schema ELSE best
  /\ job' = [job EXCEPT ![j].at = "record"]
  /\ UNCHANGED <<channel, owner, servicer, fp, asks, disk, keys, upsets>>

Record(j) ==
  /\ job[j].at = "record"
  /\ fp' = job[j].schema
  /\ upsets' = upsets \ {"unrecorded"}
  /\ Return(j, "done")
  /\ UNCHANGED <<channel, owner, servicer, applied, best, asks, disk, keys>>

(* The policy is in force, and its fingerprint is not written: an error when *)
(* the write fails, but done when the record is not found or not readable.   *)
RecordFails(j) ==
  /\ job[j].at = "record"
  /\ IF fp # job[j].schema THEN Upset("unrecorded") ELSE UNCHANGED upsets
  /\ Return(j, "error") \/ Return(j, "done")
  /\ UNCHANGED <<channel, owner, servicer, policy, asks, disk, keys>>

(* Mutant: busy is only reset after a reload that went well. *)
ReplyBusy(j) ==
  /\ job[j].at = "reply"
  /\ resFile' = [request |-> job[j].request, status |-> job[j].status]
  /\ busy' = (busy /\ job[j].status # "done")
  /\ job' = [job EXCEPT ![j] = NoJob]
  /\ UNCHANGED <<reqFile, owner, initialized, lastRequestId, policy, asks, disk, keys, upsets>>

(* writeReloadResult, and busy = false. *)
Reply(j) ==
  /\ job[j].at = "reply"
  /\ resFile' = [request |-> job[j].request, status |-> job[j].status]
  /\ busy' = FALSE
  /\ job' = [job EXCEPT ![j] = NoJob]
  /\ UNCHANGED <<reqFile, owner, initialized, lastRequestId, policy, asks, disk, keys, upsets>>

(* A result that cannot be written is dropped: nobody tries again. *)
ReplyFails(j) ==
  /\ job[j].at = "reply"
  /\ IF job[j].request = reqFile THEN Upset("unanswered") ELSE UNCHANGED upsets
  /\ busy' = FALSE
  /\ job' = [job EXCEPT ![j] = NoJob]
  /\ UNCHANGED <<channel, owner, initialized, lastRequestId, policy, asks, disk, keys>>

(* The clean up stops the timer and the keys; what is under way goes on. *)
Close ==
  /\ owner = "up"
  /\ owner' = "closing"
  /\ UNCHANGED <<channel, servicer, job, policy, asks, disk, keys, upsets>>

(* The end of the clean up, or a crash; what the servicer knows goes with it.*)
Exit ==
  /\ OwnerRuns
  /\ owner' = "gone"
  /\ job' = [j \in Jobs |-> NoJob]
  /\ initialized' = FALSE /\ lastRequestId' = NoRequest /\ busy' = FALSE
  /\ UNCHANGED <<channel, policy, asks, disk, keys, upsets>>

-----------------------------------------------------------------------------
(* `proxy reload`: reloadAction. *)

Unasked == UNCHANGED <<resFile, owner, servicer, job, policy, disk, keys>>

Ask(q) ==
  /\ asking[q] = "idle"
  /\ OwnerRuns
  /\ reqFile' = q
  /\ asking' = [asking EXCEPT ![q] = "waiting"]
  /\ asked' = [asked EXCEPT ![q] = disk]
  /\ upsets' = upsets \ {"unanswered"}
  /\ Unasked

(* What the command is told: done, or one way or the other not done. *)
Told(q, status) ==
  /\ asking' = [asking EXCEPT ![q] = IF status = "done" THEN "done" ELSE "failed"]
  /\ asked' = IF status = "done" THEN asked ELSE [asked EXCEPT ![q] = 0]

(* Mutant: any result is taken for the answer. *)
HearAny(q) ==
  /\ asking[q] = "waiting"
  /\ Told(q, resFile.status)
  /\ resFile.request # NoRequest
  /\ UNCHANGED <<reqFile, upsets>> /\ Unasked

(* The result is this request's ... *)
Hear(q) ==
  /\ asking[q] = "waiting"
  /\ resFile.request = q
  /\ Told(q, resFile.status)
  /\ UNCHANGED <<reqFile, upsets>> /\ Unasked

(* ... or it was not when it was read, and the owner is gone, whatever it    *)
(* may have written in between.                                              *)
SeeGone(q) ==
  /\ asking[q] = "waiting"
  /\ ~OwnerRuns
  /\ Told(q, "stopped")
  /\ UNCHANGED <<reqFile, upsets>> /\ Unasked

(* The fifteen minutes are over, or a signal: the request stays. *)
StopWaiting(q) ==
  /\ asking[q] = "waiting"
  /\ Told(q, "stopped")
  /\ UNCHANGED <<reqFile, upsets>> /\ Unasked

-----------------------------------------------------------------------------
(* Somebody edits the schema. *)
Edit ==
  /\ OwnerRuns /\ disk < MaxEdits
  /\ disk' = disk + 1
  /\ UNCHANGED <<channel, owner, servicer, job, policy, asks, keys, upsets>>

Apply(j)  == Load(j) \/ Install(j) \/ Record(j) \/ RecordFails(j)
Serve(j)  == ServicerTick(j) \/ Polled(j) \/ Apply(j) \/ Reply(j) \/ ReplyFails(j)

ReloadNext ==
  \/ Seed \/ KeyReload \/ Close \/ Exit \/ Edit
  \/ \E j \in Ticks : Serve(j)
  \/ Apply("key")
  \/ \E q \in Commands : Ask(q) \/ Hear(q) \/ SeeGone(q) \/ StopWaiting(q)

ReloadSpec == ReloadInit /\ [][ReloadNext]_reloadVars

(* The owner's event loop runs its ticks, resolvers answer, an owner that    *)
(* closes exits (after four seconds at the latest), a command polls.         *)
Fairness ==
  /\ WF_reloadVars(owner = "closing" /\ Exit)
  /\ \A j \in Ticks : WF_reloadVars(Serve(j))
  /\ WF_reloadVars(Apply("key"))
  /\ \A q \in Commands : WF_reloadVars(Hear(q) \/ SeeGone(q))

FairReloadSpec == ReloadSpec /\ Fairness

-----------------------------------------------------------------------------
(* The variables have their types, and the servicer is busy only while one   *)
(* of its reloads is under way.                                              *)
ReloadTypeOK ==
  /\ reqFile \in Commands \cup {NoRequest}
  /\ resFile \in [request : Commands \cup {NoRequest}, status : Statuses]
  /\ owner \in {"up", "closing", "gone"}
  /\ initialized \in BOOLEAN /\ busy \in BOOLEAN
  /\ lastRequestId \in Commands \cup {NoRequest}
  /\ job \in [Jobs -> [at : {"idle", "polled", "load", "loaded", "record", "reply"},
                      request : Commands \cup {NoRequest}, schema : Versions,
                      status : Statuses]]
  /\ applied \in Versions /\ fp \in Versions /\ disk \in Versions /\ best \in Versions
  /\ asking \in [Commands -> {"idle", "waiting", "done", "failed"}]
  /\ keys \in 0..MaxKeys
  /\ asked \in [Commands -> Versions]
  /\ upsets \subseteq Upsets
  /\ busy => Reloading \cap Ticks # {}

(* A `proxy reload` that is told "done" has had the schema installed that    *)
(* was on disk when it asked, or a newer one.  Unless two reloads overlap (a *)
(* keypress does not wait for the servicer, nor a tick that has read its     *)
(* request before), no older one is installed later.  Then too, the record   *)
(* never has the fingerprint of a newer policy than the one that is applied, *)
(* and between reloads that of the one applied, unless the last one could    *)
(* not write it: the next that can makes up for it.                          *)
ReloadTakesHold ==
  /\ \A q \in Commands : asking[q] = "done" =>
       /\ asked[q] <= best
       /\ "doubled" \notin upsets => asked[q] <= applied
  /\ "doubled" \notin upsets => fp <= applied
  /\ (upsets \subseteq {"unanswered"} /\ Reloading = {} /\ OwnerRuns) => fp = applied

(* The request in the file is answered, with a result or with the news that  *)
(* the owner is gone, if the servicer does not take it for one of before its *)
(* start, none replaces it, no two reloads overlap, and its result can be    *)
(* written (a failed write is swallowed, and the command waits its fifteen   *)
(* minutes): `busy' does not stay set, and the result stays until it is      *)
(* polled.                                                                   *)
LatestRequestAnswered ==
  \A q \in Commands :
    (asking[q] = "waiting" /\ reqFile = q /\ initialized /\ lastRequestId # q)
      ~> (asking[q] # "waiting" \/ reqFile # q \/ "doubled" \in upsets \/ "unanswered" \in upsets)
=============================================================================
