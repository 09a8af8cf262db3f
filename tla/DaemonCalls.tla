------------------------------ MODULE DaemonCalls -----------------------------
(***************************************************************************)
(* One DaemonClient object (packages/varlock/src/lib/local-encrypt/        *)
(* daemon-client.ts) used by several calls of the same process at once:    *)
(* the shared connection attempt, the message queue, the events of the     *)
(* sockets, time outs and the single retry of withRetry.  A step is one    *)
(* event of the event loop with all the promise callbacks it leads to.     *)
(*                                                                         *)
(* Which daemon a socket reaches, and how one is spawned, found or killed, *)
(* is DaemonLifecycle's subject; here a connection attempt finds a daemon, *)
(* replaces it, spawns one or fails.                                       *)
(***************************************************************************)
EXTENDS Naturals, FiniteSets

CONSTANTS
  Calls,      \* calls of decrypt, keychainGet, ... (withRetry)
  Ping,       \* the message doConnect sends on a new connection
  Sockets,    \* net.Socket objects
  NoSocket,
  MaxFaults   \* bound on faults: time outs, dead or unresponsive daemons, failed
              \* connects, daemons of another build or found by their pid only

ASSUME CallsAssumption ==
  /\ Ping \notin Calls
  /\ NoSocket \notin Sockets
  /\ MaxFaults \in Nat

VARIABLES
  pc,          \* where each call is
  second,      \* withRetry is in its second try
  sends,       \* messages the call has written
  queue,       \* messageQueue: the socket each message without an answer was
               \* written to; NoSocket when it is not in the queue
  socks,       \* the state of each socket object
  lost,        \* sockets whose far end is gone; their close event is to come
  socket,      \* this.socket
  isConnected, \* this.isConnected
  connecting,  \* this.connectingPromise: where doConnect is, see Stages
  faults,      \* faults so far
  cutOff       \* calls that the replacement of a daemon rejected

vars == <<pc, second, sends, queue, socks, lost, socket, isConnected, connecting, faults, cutOff>>

Messages == Calls \cup {Ping}

(* "open": connected; "ended": end() called, the daemon has yet to close. *)
SocketStates == {"unused", "connecting", "open", "ended"}

(* doConnect connects and asks for the build, or else spawnAndConnect looks  *)
(* for a recorded daemon ("spawn") and connects ("attach").                  *)
Stages == {"none", "connect", "ping", "spawn", "attach"}

(* "refused": no daemon could be connected to or spawned. *)
Settled == {"done", "failed", "refused"}
PC == {"idle", "waiting", "sent", "probing"} \cup Settled

Init ==
  /\ pc = [c \in Calls |-> "idle"]
  /\ second = [c \in Calls |-> FALSE]
  /\ sends = [c \in Calls |-> 0]
  /\ queue = [m \in Messages |-> NoSocket]
  /\ socks = [s \in Sockets |-> "unused"]
  /\ lost = {}
  /\ socket = NoSocket
  /\ isConnected = FALSE
  /\ connecting = "none"
  /\ faults = 0
  /\ cutOff = {}

-----------------------------------------------------------------------------
Fault == faults < MaxFaults /\ faults' = faults + 1

(* The calls that await the connecting promise. *)
Waiting == {c \in Calls : pc[c] = "waiting"}

Queued      == {m \in Messages : queue[m] # NoSocket}
Without(m)  == [queue EXCEPT ![m] = NoSocket]
EmptyQueue  == [m \in Messages |-> NoSocket]

(* sendMessage by the calls C, on the socket s. *)
Written(C, s, q) ==
  /\ sends' = [c \in Calls |-> IF c \in C THEN sends[c] + 1 ELSE sends[c]]
  /\ queue' = [m \in Messages |-> IF m \in C THEN s ELSE q[m]]

(* Mutant: the second try is retried as well. *)
AfterErrorsAgain(Recoverable, Fatal) ==
  [c \in Calls |->
     IF c \in Fatal THEN "failed"
     ELSE IF c \in Recoverable THEN "probing"
     ELSE pc[c]]

(* withRetry's catch: the calls of Recoverable ("timed out", "connection     *)
(* closed", "Not connected") go on to forceCleanup if this was their first   *)
(* try; the calls of Fatal throw.                                            *)
AfterErrors(Recoverable, Fatal) ==
  [c \in Calls |->
     IF c \in Fatal \/ (c \in Recoverable /\ second[c]) THEN "failed"
     ELSE IF c \in Recoverable THEN "probing"
     ELSE pc[c]]

(* Mutant: every call that finds no connection opens one. *)
EnsureConnectedEach(c, p) ==
  \/ /\ isConnected /\ socket # NoSocket
     /\ pc' = [p EXCEPT ![c] = "sent"]
     /\ Written({c}, socket, queue)
     /\ UNCHANGED <<socks, connecting>>
  \/ /\ ~(isConnected /\ socket # NoSocket)
     /\ pc' = [p EXCEPT ![c] = "waiting"]
     /\ \E s \in Sockets : socks[s] = "unused" /\ socks' = [socks EXCEPT ![s] = "connecting"]
     /\ connecting' = "connect"
     /\ UNCHANGED <<sends, queue>>

(* ensureConnected, then the message: at once when connected, otherwise when *)
(* the one connecting promise of the client resolves.                        *)
EnsureConnected(c, p) ==
  \/ /\ isConnected /\ socket # NoSocket
     /\ pc' = [p EXCEPT ![c] = "sent"]
     /\ Written({c}, socket, queue)
     /\ UNCHANGED <<socks, connecting>>
  \/ /\ ~(isConnected /\ socket # NoSocket)
     /\ pc' = [p EXCEPT ![c] = "waiting"]
     /\ IF connecting # "none"
        THEN UNCHANGED <<socks, connecting>>
        ELSE /\ \E s \in Sockets : socks[s] = "unused" /\ socks' = [socks EXCEPT ![s] = "connecting"]
             /\ connecting' = "connect"
     /\ UNCHANGED <<sends, queue>>

Call(c) ==
  /\ pc[c] = "idle"
  /\ EnsureConnected(c, pc)
  /\ UNCHANGED <<second, lost, socket, isConnected, faults, cutOff>>

(* The connect event; then findReplaceableDaemonPid pings. *)
Connected(s) ==
  /\ socks[s] = "connecting" /\ connecting = "connect"
  /\ socks' = [socks EXCEPT ![s] = "open"]
  /\ socket' = s
  /\ isConnected' = TRUE
  /\ connecting' = "ping"
  /\ queue' = [queue EXCEPT ![Ping] = s]
  /\ UNCHANGED <<pc, second, sends, lost, faults, cutOff>>

(* The ping is answered by a daemon of our build, or times out: either way   *)
(* the promise resolves, and every waiting call writes its message.          *)
PingOver ==
  /\ Ping \in Queued
  /\ IF queue[Ping] \in lost \/ socks[queue[Ping]] # "open" THEN Fault ELSE UNCHANGED faults
  /\ connecting' = "none"
  /\ pc' = [c \in Calls |-> IF c \in Waiting THEN "sent" ELSE pc[c]]
  /\ Written(Waiting, socket, Without(Ping))
  /\ UNCHANGED <<second, socks, lost, socket, isConnected, cutOff>>

(* Nothing to connect to: spawnAndConnect goes on with another socket. *)
ConnectMisses(s) ==
  /\ socks[s] = "connecting" /\ connecting = "connect"
  /\ connecting' = "spawn"
  /\ UNCHANGED <<pc, second, sends, queue, socks, lost, socket, isConnected, faults, cutOff>>

(* The socket of spawnAndConnect connects: the promise resolves. *)
SpawnConnected(s) ==
  /\ socks[s] = "connecting" /\ connecting \in {"spawn", "attach"}
  /\ socks' = [socks EXCEPT ![s] = "open"]
  /\ socket' = s
  /\ isConnected' = TRUE
  /\ connecting' = "none"
  /\ pc' = [c \in Calls |-> IF c \in Waiting THEN "sent" ELSE pc[c]]
  /\ Written(Waiting, s, queue)
  /\ UNCHANGED <<second, lost, faults, cutOff>>

(* spawnDaemon finds a recorded daemon after all: the connection it verifies *)
(* it with stays open, and spawnAndConnect makes one more.                   *)
FoundRecorded(s) ==
  /\ socks[s] = "connecting" /\ connecting = "spawn" /\ Fault
  /\ \E t \in Sockets :
       /\ socks[t] = "unused"
       /\ socks' = [socks EXCEPT ![s] = "open", ![t] = "connecting"]
  /\ socket' = s
  /\ isConnected' = TRUE
  /\ connecting' = "attach"
  /\ UNCHANGED <<pc, second, sends, queue, lost, cutOff>>

(* handleData: the answer to a message in the queue. *)
Answer(c) ==
  /\ c \in Queued /\ queue[c] \notin lost
  /\ socks[queue[c]] \in {"open", "ended"}
  /\ queue' = Without(c)
  /\ pc' = [pc EXCEPT ![c] = "done"]
  /\ UNCHANGED <<second, sends, socks, lost, socket, isConnected, connecting, faults, cutOff>>

(* The calls that learn of a lost connection when the queue is rejected and, *)
(* with it, the ping: the promise resolves, and sendMessage finds the client *)
(* not connected.                                                            *)
NotConnected == IF Ping \in Queued THEN Waiting ELSE {}
AfterQueueLost == IF Ping \in Queued THEN "none" ELSE connecting

(* cleanup() rejects the queue with `Connection closed', which withRetry's   *)
(* test for `connection closed' does not match, and ends the socket.         *)
EndSocket == socks' = [s \in Sockets |-> IF s = socket THEN "ended" ELSE socks[s]]

(* The pong tells of another build: cleanup() drops the connection to the    *)
(* outgoing daemon, with whatever other calls have written to it, the daemon *)
(* is killed, and spawnAndConnect goes on.                                   *)
PongReplaces ==
  /\ Ping \in Queued /\ queue[Ping] \notin lost /\ socks[queue[Ping]] = "open"
  /\ Fault
  /\ \E s \in Sockets :
       /\ socks[s] = "unused"
       /\ socks' = [t \in Sockets |-> IF t = s THEN "connecting"
                                      ELSE IF t = socket THEN "ended" ELSE socks[t]]
  /\ lost' = lost \cup {t \in Sockets : socks[t] \in {"open", "ended"}}
  /\ queue' = EmptyQueue
  /\ pc' = AfterErrors({}, Queued \ {Ping})
  /\ cutOff' = cutOff \cup (Queued \ {Ping})
  /\ socket' = NoSocket
  /\ isConnected' = FALSE
  /\ connecting' = "spawn"
  /\ UNCHANGED <<second, sends>>

(* Mutant: cleanup() runs before the message that timed out leaves the queue. *)
TimesOutInQueue(c) ==
  /\ c \in Queued
  /\ Fault
  /\ queue' = EmptyQueue
  /\ pc' = AfterErrors(NotConnected, Queued \ {Ping})
  /\ EndSocket
  /\ socket' = NoSocket
  /\ isConnected' = FALSE
  /\ connecting' = AfterQueueLost
  /\ UNCHANGED <<second, sends, lost, cutOff>>

(* A timer of sendMessage fires.  On a first try forceCleanup starts with    *)
(* cleanup(), and everything that waits for the daemon is rejected.          *)
TimesOut(c) ==
  /\ c \in Queued
  /\ IF queue[c] \in lost \/ socks[queue[c]] = "unused" THEN UNCHANGED faults ELSE Fault
  /\ \/ /\ second[c]
        /\ queue' = Without(c)
        /\ pc' = AfterErrors({c}, {})
        /\ UNCHANGED <<socks, socket, isConnected, connecting>>
     \/ /\ ~second[c]
        /\ queue' = EmptyQueue
        /\ pc' = AfterErrors({c} \cup NotConnected, Queued \ {c, Ping})
        /\ EndSocket
        /\ socket' = NoSocket
        /\ isConnected' = FALSE
        /\ connecting' = AfterQueueLost
  /\ UNCHANGED <<second, sends, lost, cutOff>>

(* Mutant: the close handler forgets the connection but not its messages. *)
CloseKeepsQueue(s) ==
  /\ s \in lost \/ socks[s] = "ended"
  /\ socks' = [socks EXCEPT ![s] = "unused"]
  /\ lost' = lost \ {s}
  /\ socket' = NoSocket
  /\ isConnected' = FALSE
  /\ UNCHANGED <<pc, second, sends, queue, connecting, faults, cutOff>>

(* Mutant: the calls that share the connecting promise are not resumed. *)
CloseForgetsWaiting(s) ==
  /\ s \in lost \/ socks[s] = "ended"
  /\ socks' = [socks EXCEPT ![s] = "unused"]
  /\ lost' = lost \ {s}
  /\ socket' = NoSocket
  /\ isConnected' = FALSE
  /\ queue' = EmptyQueue
  /\ connecting' = AfterQueueLost
  /\ pc' = AfterErrors(Queued \ {Ping}, {})
  /\ UNCHANGED <<second, sends, faults, cutOff>>

(* The close event of a socket, be it the current one or one that was given  *)
(* up: the handler clears the client's connection and rejects its queue      *)
(* with `Daemon connection closed'.                                          *)
Close(s) ==
  /\ s \in lost \/ socks[s] = "ended"
  /\ socks' = [socks EXCEPT ![s] = "unused"]
  /\ lost' = lost \ {s}
  /\ socket' = NoSocket
  /\ isConnected' = FALSE
  /\ queue' = EmptyQueue
  /\ connecting' = AfterQueueLost
  /\ pc' = AfterErrors((Queued \ {Ping}) \cup NotConnected, {})
  /\ UNCHANGED <<second, sends, faults, cutOff>>

(* doConnect throws: no daemon came up to connect to.  The close event of    *)
(* the socket that failed rejects the queue as any other.                    *)
ConnectFails(s) ==
  /\ socks[s] = "connecting" /\ connecting \in {"spawn", "attach"} /\ Fault
  /\ socks' = [socks EXCEPT ![s] = "unused"]
  /\ socket' = NoSocket
  /\ isConnected' = FALSE
  /\ queue' = EmptyQueue
  /\ connecting' = "none"
  /\ pc' = [c \in Calls |-> IF c \in Waiting THEN "refused" ELSE AfterErrors(Queued, {})[c]]
  /\ UNCHANGED <<second, sends, lost, cutOff>>

(* forceCleanup goes on: a daemon that answers the probe is kept; one that   *)
(* does not (a fault) is killed, and its connections go with it.  Then the   *)
(* second try.                                                               *)
Retry(c) ==
  /\ pc[c] = "probing"
  /\ second' = [second EXCEPT ![c] = TRUE]
  /\ \/ UNCHANGED <<lost, faults>>
     \/ Fault /\ lost' = lost \cup {s \in Sockets : socks[s] \in {"open", "ended"}}
  /\ EnsureConnected(c, pc)
  /\ UNCHANGED <<socket, isConnected, cutOff>>

DaemonDies ==
  /\ Fault
  /\ lost' = lost \cup {s \in Sockets : socks[s] \in {"open", "ended"}}
  /\ UNCHANGED <<pc, second, sends, queue, socks, socket, isConnected, connecting, cutOff>>

Done == (\A c \in Calls : pc[c] \in Settled) /\ UNCHANGED vars

Next ==
  \/ \E c \in Calls : Call(c) \/ Answer(c) \/ TimesOut(c) \/ Retry(c)
  \/ \E s \in Sockets : Connected(s) \/ ConnectMisses(s) \/ SpawnConnected(s)
                         \/ FoundRecorded(s) \/ ConnectFails(s) \/ Close(s)
  \/ PingOver \/ PongReplaces
  \/ DaemonDies
  \/ Done

Spec == Init /\ [][Next]_vars

(* Timers fire, a daemon closes a connection its client ended, the kernel    *)
(* reports lost ones, and a daemon that lives answers what it was asked.     *)
FairSpec ==
  /\ Spec
  /\ \A c \in Calls : WF_vars(Call(c)) /\ WF_vars(Answer(c)) /\ WF_vars(TimesOut(c)) /\ WF_vars(Retry(c))
  /\ \A s \in Sockets : WF_vars(Connected(s)) /\ WF_vars(SpawnConnected(s)) /\ WF_vars(Close(s))
  /\ WF_vars(PingOver)

-----------------------------------------------------------------------------
TypeOK ==
  /\ pc \in [Calls -> PC]
  /\ second \in [Calls -> BOOLEAN]
  /\ sends \in [Calls -> 0..2]
  /\ queue \in [Messages -> Sockets \cup {NoSocket}]
  /\ socks \in [Sockets -> SocketStates]
  /\ lost \subseteq Sockets
  /\ socket \in Sockets \cup {NoSocket}
  /\ isConnected \in BOOLEAN
  /\ connecting \in Stages
  /\ faults \in 0..MaxFaults
  /\ cutOff \subseteq Calls

(* However calls, time outs and lost connections overlap, the client has one *)
(* connection attempt at a time, shared by every call that needs it          *)
(* ("Deduplicate concurrent ensureConnected calls", ensureConnected).        *)
OneAttempt ==
  /\ Cardinality({s \in Sockets : socks[s] = "connecting"}) <= 1
  /\ (Waiting # {}) => connecting # "none"

(* No message waits for an answer on a socket that has closed: every close,  *)
(* also of a socket the client no longer refers to, rejects what was written *)
(* to it ("Reject all pending messages so callers don't hang").              *)
NobodyStranded == \A m \in Queued : socks[queue[m]] # "unused"

(* A call that fails in its first try was cut off by another one: by its     *)
(* recovery, or by a connection it was opening, on which the call had written *)
(* its message before the daemon proved to be one to replace.  A call on its *)
(* own always has its second try (withRetry, doConnect).                     *)
LoneCallRetried ==
  \A c \in Calls : pc[c] = "failed" /\ ~second[c]
    => \E e \in Calls \ {c} :
         \/ pc[e] = "probing" \/ second[e]
         \/ c \in cutOff /\ pc[e] # "idle"

(* withRetry's comment: "on recoverable failure (timeout, connection closed) *)
(* clean up, reconnect to the daemon, and retry once".                       *)
RecoverableIsRetried == \A c \in Calls : pc[c] = "failed" => second[c]

(* Every call settles, with a result or an error. *)
CallsSettle == \A c \in Calls : <>(pc[c] \in Settled)
=============================================================================
