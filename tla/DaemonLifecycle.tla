--------------------------- MODULE DaemonLifecycle ----------------------------
(***************************************************************************)
(* Processes that use the encryption daemon                                *)
(* (packages/varlock/src/lib/local-encrypt/daemon-client.ts), composed     *)
(* with the daemons of DaemonStartup.  Each client process makes one call  *)
(* of withRetry: ensureConnected, which connects, compares builds,         *)
(* replaces or spawns the daemon; the message; and after a failure         *)
(* forceCleanup, which may kill the daemon, and one more try.  A step ends *)
(* where the code waits for a socket, a child process or a clock.          *)
(***************************************************************************)
EXTENDS DaemonStartup

CONSTANTS
  Clients,      \* processes with a DaemonClient
  Builds,       \* contents of daemon binaries (their hashes)
  MaxFaults     \* bound on faults, see Faults below

ASSUME LifecycleAssumption ==
  /\ Builds # {}
  /\ MaxFaults \in Nat

VARIABLES
  cpc,        \* where each client is
  conn,       \* the daemon its socket is connected to
  target,     \* the pid it found, to verify or to kill
  after,      \* where it goes on once killDaemonProcess returns
  child,      \* the daemon process it spawned
  attempt,    \* spawnAndConnect's attempt
  retried,    \* withRetry is in its second try
  wants,      \* the binary each client would spawn (resolveNativeBinary)
  build,      \* the binary each daemon runs
  faults,     \* faults so far
  missed      \* clients whose last connection to a recorded daemon failed
              \* although a daemon was listening

client == <<cpc, conn, target, after, child, attempt, retried, wants, build, faults, missed>>
vars   == <<startup, client>>

CPC == {"connect", "ping", "use", "probe", "probeping", "findpid",
        "term", "grace", "spawn", "verify", "fork", "await", "attach", "done", "failed"}

Init ==
  /\ StartupInit
  /\ cpc = [c \in Clients |-> "connect"]
  /\ conn = [c \in Clients |-> NoDaemon]
  /\ target = [c \in Clients |-> NoDaemon]
  /\ after = [c \in Clients |-> "connect"]
  /\ child = [c \in Clients |-> NoDaemon]
  /\ attempt = [c \in Clients |-> 0]
  /\ retried = [c \in Clients |-> FALSE]
  /\ wants \in [Clients -> Builds]
  /\ build = [d \in Daemons |-> CHOOSE b \in Builds : TRUE]
  /\ faults = 0
  /\ missed = {}

-----------------------------------------------------------------------------
CAt(c, l) == cpc[c] = l
To(c, l)  == cpc' = [cpc EXCEPT ![c] = l]

Connected(c, d) == conn' = [conn EXCEPT ![c] = d]

(* The daemon to signal next, and where the caller of killDaemonProcess goes *)
(* on; both are local variables that end with the call.                      *)
Aim(c, d, l) == target' = [target EXCEPT ![c] = d] /\ after' = [after EXCEPT ![c] = l]
Resume(c)    == To(c, after[c]) /\ Aim(c, NoDaemon, "connect")

(* readLiveDaemonPid *)
LivePid == IF pidFile # NoDaemon /\ Alive(pidFile) THEN pidFile ELSE NoDaemon

NoListener == \A d \in Daemons : ~Reachable(d)

(* connectToSocket fails at once when nothing listens at the fixed path; a   *)
(* fault makes it fail with a daemon there: five seconds without an answer   *)
(* ('Connection timeout'), a full backlog, no file descriptor left.          *)
ConnectFails ==
  \/ NoListener /\ UNCHANGED faults
  \/ ~NoListener /\ faults < MaxFaults /\ faults' = faults + 1

(* A message to this daemon times out or ends with the connection.  While it *)
(* announces itself it will answer soon.                                     *)
NoAnswer(d) == ~Answers(d) /\ ~At(d, "announce")

(* doConnect connects first, and spawns when that fails. *)
Connect(c) ==
  /\ CAt(c, "connect")
  /\ \/ \E d \in Daemons :
          /\ Reachable(d)
          /\ Connected(c, d)
          /\ To(c, "ping")
          /\ UNCHANGED <<attempt, faults>>
     \/ /\ ConnectFails
        /\ To(c, "spawn")
        /\ attempt' = [attempt EXCEPT ![c] = 1]
        /\ UNCHANGED conn
  /\ UNCHANGED <<startup, target, after, child, retried, wants, build, missed>>

(* findReplaceableDaemonPid: the daemon that answers tells its hash and pid. *)
(* One of another build is killed and replaced; one of our build is kept,    *)
(* and so is one that does not answer, which is left to the retry path.      *)
PingForBuild(c) ==
  /\ CAt(c, "ping")
  /\ \/ /\ Answers(conn[c]) /\ build[conn[c]] # wants[c]
        /\ Aim(c, conn[c], "spawn")
        /\ attempt' = [attempt EXCEPT ![c] = 1]
        /\ Connected(c, NoDaemon)                      \* cleanup()
        /\ To(c, "term")
     \/ /\ NoAnswer(conn[c]) \/ (Answers(conn[c]) /\ build[conn[c]] = wants[c])
        /\ To(c, "use")
        /\ UNCHANGED <<conn, target, after, attempt>>
  /\ UNCHANGED <<startup, child, retried, wants, build, faults, missed>>

(* killDaemonProcess: SIGTERM, up to two seconds of waiting, SIGKILL. *)
Terminate(c) ==
  /\ CAt(c, "term")
  /\ IF Alive(target[c])
     THEN /\ StopRunning(target[c])
          /\ To(c, "grace")
          /\ UNCHANGED <<target, after>>
     ELSE Resume(c) /\ UNCHANGED startup
  /\ UNCHANGED <<conn, child, attempt, retried, wants, build, faults, missed>>

KillGrace(c) ==
  /\ CAt(c, "grace")
  /\ IF Alive(target[c]) THEN Die(target[c]) ELSE UNCHANGED startup
  /\ Resume(c)
  /\ UNCHANGED <<conn, child, attempt, retried, wants, build, faults, missed>>

(* Mutant: the recorded process is killed without asking it, "by inspecting  *)
(* state files up front".                                                    *)
SpawnOverRecorded(c) ==
  /\ CAt(c, "spawn")
  /\ IF LivePid # NoDaemon
     THEN Aim(c, LivePid, "fork") /\ To(c, "term")
     ELSE To(c, "fork") /\ UNCHANGED <<target, after>>
  /\ UNCHANGED <<startup, conn, child, attempt, retried, wants, build, faults, missed>>

(* spawnDaemon looks for a recorded daemon ... *)
SpawnDaemon(c) ==
  /\ CAt(c, "spawn")
  /\ IF LivePid # NoDaemon
     THEN Aim(c, LivePid, "connect") /\ To(c, "verify")
     ELSE To(c, "fork") /\ UNCHANGED <<target, after>>
  /\ UNCHANGED <<startup, conn, child, attempt, retried, wants, build, faults, missed>>

(* ... which either answers a connection or is killed. *)
VerifyRecorded(c) ==
  /\ CAt(c, "verify")
  /\ \/ \E d \in Daemons :
          /\ Reachable(d) /\ Connected(c, d)
          /\ Aim(c, NoDaemon, "connect")
          /\ To(c, "attach")
          /\ UNCHANGED <<faults, missed>>
     \/ /\ ConnectFails
        /\ missed' = IF NoListener THEN missed \ {c} ELSE missed \cup {c}
        /\ Aim(c, target[c], "fork")
        /\ To(c, "term")
        /\ UNCHANGED conn
  /\ UNCHANGED <<startup, child, attempt, retried, wants, build>>

(* Pids that some client still holds are not given out again. *)
Free(d) ==
  /\ ~Alive(d) /\ sock # d /\ pidFile # d
  /\ \A c \in Clients : d \notin {conn[c], target[c], child[c]}

Fork(c) ==
  /\ CAt(c, "fork")
  /\ \E d \in Daemons :
       /\ Free(d)
       /\ Spawn(d)
       /\ child' = [child EXCEPT ![c] = d]
       /\ build' = [build EXCEPT ![d] = wants[c]]
  /\ To(c, "await")
  /\ UNCHANGED <<conn, target, after, attempt, retried, wants, faults, missed>>

(* The spawned process says it is ready, or that another daemon is running, *)
(* or exits without a word; in each case the caller tries to connect.       *)
AwaitChild(c) ==
  /\ CAt(c, "await")
  /\ said[child[c]] # "nothing" \/ ~Alive(child[c])
  /\ child' = [child EXCEPT ![c] = NoDaemon]
  /\ To(c, "attach")
  /\ UNCHANGED <<startup, conn, target, after, attempt, retried, wants, build, faults, missed>>

(* Ten seconds pass before the child says anything. *)
SpawnTimeout(c) ==
  /\ CAt(c, "await") /\ faults < MaxFaults
  /\ said[child[c]] = "nothing" /\ Alive(child[c])
  /\ child' = [child EXCEPT ![c] = NoDaemon]
  /\ To(c, "attach")
  /\ faults' = faults + 1
  /\ UNCHANGED <<startup, conn, target, after, attempt, retried, wants, build, missed>>

(* Mutant: one attempt too many. *)
AttachThrice(c) ==
  /\ CAt(c, "attach")
  /\ \/ \E d \in Daemons :
          /\ Reachable(d) /\ Connected(c, d)
          /\ attempt' = [attempt EXCEPT ![c] = 0]
          /\ To(c, "use")
          /\ UNCHANGED faults
     \/ /\ ConnectFails
        /\ IF attempt[c] > 2
           THEN To(c, "failed") /\ UNCHANGED attempt
           ELSE To(c, "spawn") /\ attempt' = [attempt EXCEPT ![c] = @ + 1]
        /\ UNCHANGED conn
  /\ UNCHANGED <<startup, target, after, child, retried, wants, build, missed>>

(* spawnAndConnect connects to whichever daemon won; it spawns at most twice. *)
Attach(c) ==
  /\ CAt(c, "attach")
  /\ \/ \E d \in Daemons :
          /\ Reachable(d) /\ Connected(c, d)
          /\ attempt' = [attempt EXCEPT ![c] = 0]
          /\ To(c, "use")
          /\ UNCHANGED faults
     \/ /\ ConnectFails
        /\ IF attempt[c] >= 2
           THEN To(c, "failed") /\ UNCHANGED attempt
           ELSE To(c, "spawn") /\ attempt' = [attempt EXCEPT ![c] = @ + 1]
        /\ UNCHANGED conn
  /\ UNCHANGED <<startup, target, after, child, retried, wants, build, missed>>

(* The message is answered ... *)
Answered(c) ==
  /\ CAt(c, "use") /\ Answers(conn[c])
  /\ Connected(c, NoDaemon)
  /\ To(c, "done")
  /\ UNCHANGED <<startup, target, after, child, attempt, retried, wants, build, faults, missed>>

(* ... or it fails: the daemon left or hangs, or (a fault) a prompt another  *)
(* client sits on keeps it past its time out.  The first failure leads to    *)
(* forceCleanup, the second to the caller.                                   *)
CallFails(c) ==
  /\ CAt(c, "use")
  /\ \/ NoAnswer(conn[c]) /\ UNCHANGED faults
     \/ Answers(conn[c]) /\ faults < MaxFaults /\ faults' = faults + 1
  /\ Connected(c, NoDaemon)
  /\ To(c, IF retried[c] THEN "failed" ELSE "probe")
  /\ UNCHANGED <<startup, target, after, child, attempt, retried, wants, build, missed>>

(* forceCleanup: isDaemonResponsive connects and pings; a daemon that answers *)
(* is kept, otherwise the recorded process is killed.                         *)
Probe(c) ==
  /\ CAt(c, "probe")
  /\ \/ \E d \in Daemons : /\ Reachable(d) /\ Connected(c, d)
                            /\ To(c, "probeping") /\ UNCHANGED faults
     \/ ConnectFails /\ To(c, "findpid") /\ UNCHANGED conn
  /\ UNCHANGED <<startup, target, after, child, attempt, retried, wants, build, missed>>

ProbePing(c) ==
  /\ CAt(c, "probeping")
  /\ \/ /\ Answers(conn[c])
        /\ To(c, "connect")
        /\ retried' = [retried EXCEPT ![c] = TRUE]
     \/ NoAnswer(conn[c]) /\ To(c, "findpid") /\ UNCHANGED retried
  /\ Connected(c, NoDaemon)
  /\ UNCHANGED <<startup, target, after, child, attempt, wants, build, faults, missed>>

FindPid(c) ==
  /\ CAt(c, "findpid")
  /\ retried' = [retried EXCEPT ![c] = TRUE]
  /\ IF LivePid # NoDaemon
     THEN Aim(c, LivePid, "connect") /\ To(c, "term")
     ELSE To(c, "connect") /\ UNCHANGED <<target, after>>
  /\ UNCHANGED <<startup, conn, child, attempt, wants, build, faults, missed>>

ClientStep(c) ==
  \/ Connect(c) \/ PingForBuild(c) \/ Terminate(c) \/ KillGrace(c)
  \/ SpawnDaemon(c) \/ VerifyRecorded(c) \/ Fork(c) \/ AwaitChild(c) \/ SpawnTimeout(c)
  \/ Attach(c) \/ Answered(c) \/ CallFails(c) \/ Probe(c) \/ ProbePing(c) \/ FindPid(c)

DaemonRuns(d) == DaemonStep(d) /\ UNCHANGED client

(* Faults, of which a behavior has at most MaxFaults: a daemon hangs, dies or *)
(* stops for inactivity; a connection fails with a daemon there; a start or a *)
(* call takes longer than its time out.                                       *)
DaemonFault(d) ==
  /\ faults < MaxFaults /\ faults' = faults + 1
  /\ Hang(d) \/ Die(d) \/ (At(d, "serve") /\ running[d] /\ StopRunning(d))
  /\ UNCHANGED <<cpc, conn, target, after, child, attempt, retried, wants, build, missed>>

Next ==
  \/ \E c \in Clients : ClientStep(c)
  \/ \E d \in Daemons : DaemonRuns(d) \/ DaemonFault(d)

Spec == Init /\ [][Next]_vars

-----------------------------------------------------------------------------
TypeOK ==
  /\ StartupTypeOK
  /\ cpc \in [Clients -> CPC]
  /\ conn \in [Clients -> Daemons \cup {NoDaemon}]
  /\ target \in [Clients -> Daemons \cup {NoDaemon}]
  /\ after \in [Clients -> CPC]
  /\ child \in [Clients -> Daemons \cup {NoDaemon}]
  /\ attempt \in [Clients -> 0..2]
  /\ retried \in [Clients -> BOOLEAN]
  /\ wants \in [Clients -> Builds]
  /\ build \in [Daemons -> Builds]
  /\ faults \in 0..MaxFaults
  /\ missed \subseteq Clients

(* spawnDaemon kills the recorded process only after the daemon it names has *)
(* left its socket: a daemon that is still coming up is never the one killed *)
(* (doConnect and spawnDaemon, daemon-client.ts).  The exception is the one  *)
(* the code makes: a daemon whose socket did not accept in time, or not for  *)
(* want of resources, is killed although it may serve.                       *)
StartKillsOnlyLeavers ==
  \A c \in Clients \ missed :
    cpc[c] \in {"term", "grace"} /\ after[c] = "fork"
      => pc[target[c]] \notin {"announce", "serve"}

(* Any number of processes of one build that start at once, with no daemon   *)
(* there yet, never kill a daemon ("during a cold parallel start ... acting  *)
(* on them kills a healthy one", doConnect).                                 *)
ColdStartKillsNone ==
  faults = 0 /\ (\A c, e \in Clients : wants[c] = wants[e])
    => \A c \in Clients : cpc[c] \notin {"term", "grace"}

=============================================================================
