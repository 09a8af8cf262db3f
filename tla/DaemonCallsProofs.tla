-------------------------- MODULE DaemonCallsProofs ---------------------------
(* Machine-checked proofs about DaemonCalls. *)
EXTENDS DaemonCalls, FiniteSetTheorems, TLAPS

(* A call writes its message once in each try. *)
SendsOK ==
  \A c \in Calls :
    /\ sends[c] <= (IF second[c] THEN 1 ELSE 0)
                     + (IF pc[c] \in {"idle", "waiting"} THEN 0 ELSE 1)
    /\ pc[c] \in {"idle", "probing"} => ~second[c]

(* The queue holds the messages of the calls that wait for an answer, each   *)
(* written to a socket whose close event is yet to come.                     *)
QueueOK ==
  /\ \A c \in Calls : queue[c] # NoSocket <=> pc[c] = "sent"
  /\ \A m \in Messages : queue[m] # NoSocket => socks[queue[m]] \in {"open", "ended"}

(* The client has a socket from the connect event on, which it pings while   *)
(* the connecting promise is pending.                                        *)
ConnOK ==
  /\ isConnected <=> socket # NoSocket
  /\ socket # NoSocket => socks[socket] = "open"
  /\ connecting = "ping" <=> queue[Ping] # NoSocket
  /\ connecting = "ping" => socket # NoSocket
  /\ \A s \in lost : socks[s] \in {"open", "ended"}

(* The connecting promise is pending exactly while calls wait for it.        *)
AttemptOK ==
  /\ \A s, t \in Sockets : socks[s] = "connecting" /\ socks[t] = "connecting" => s = t
  /\ connecting \in {"connect", "spawn", "attach"}
       <=> \E s \in Sockets : socks[s] = "connecting"
  /\ connecting # "none" <=> \E c \in Calls : pc[c] = "waiting"

CallsInv == TypeOK /\ SendsOK /\ QueueOK /\ ConnOK /\ AttemptOK /\ LoneCallRetried

-----------------------------------------------------------------------------
LEMMA MessageTypes ==
  /\ Ping \in Messages
  /\ \A c \in Calls : c \in Messages /\ c # Ping
  /\ Messages \ {Ping} = Calls
BY CallsAssumption DEF Messages

(* A second try, or the recovery that leads to it, stays as evidence, and so *)
(* does having been cut off by a connection that another call was opening.   *)
LEMMA RecoveryRemembered ==
  ASSUME LoneCallRetried, cutOff \subseteq cutOff',
         \A c \in Calls : pc[c] # "idle" => pc'[c] # "idle",
         \A c \in Calls : pc'[c] = "failed" /\ ~second'[c] => pc[c] = "failed" /\ ~second[c],
         \A c \in Calls : pc[c] = "probing" \/ second[c] => pc'[c] = "probing" \/ second'[c]
  PROVE  LoneCallRetried'
BY DEF LoneCallRetried

(* A call that begins, or begins again.                                      *)
LEMMA BeginKeeps ==
  ASSUME CallsInv, NEW c \in Calls, EnsureConnected(c, pc),
         \/ pc[c] = "idle" /\ second' = second
         \/ pc[c] = "probing" /\ second' = [second EXCEPT ![c] = TRUE],
         lost' \in SUBSET Sockets, \A s \in lost' : socks[s] \in {"open", "ended"},
         faults' \in 0..MaxFaults, UNCHANGED <<socket, isConnected, cutOff>>
  PROVE  CallsInv'
<1> USE MessageTypes
<1>1. \A e \in Calls \ {c} : second'[e] = second[e]
  BY DEF CallsInv, TypeOK
<1>2. /\ second' \in [Calls -> BOOLEAN]
      /\ pc[c] = "idle" => ~second'[c]
      /\ pc[c] = "probing" => second'[c]
      /\ ~second[c]
  BY DEF CallsInv, TypeOK, SendsOK
<1>3. CASE isConnected /\ socket # NoSocket
  <2>1. /\ pc' = [pc EXCEPT ![c] = "sent"]
        /\ sends' = [e \in Calls |-> IF e = c THEN sends[e] + 1 ELSE sends[e]]
        /\ queue' = [m \in Messages |-> IF m = c THEN socket ELSE queue[m]]
        /\ UNCHANGED <<socks, connecting>>
    BY <1>3 DEF EnsureConnected, Written
  <2>2. sends[c] <= IF pc[c] = "idle" THEN 0 ELSE 1
    BY <1>2 DEF CallsInv, SendsOK, TypeOK
  <2>3. TypeOK'
    BY <1>2, <1>3, <2>1, <2>2 DEF CallsInv, TypeOK, PC
  <2>4. SendsOK'
    BY <1>1, <1>2, <2>1, <2>2 DEF CallsInv, TypeOK, SendsOK
  <2>5. QueueOK'
    BY <1>3, <2>1 DEF CallsInv, TypeOK, QueueOK, ConnOK
  <2>6. ConnOK' /\ AttemptOK'
    BY <1>3, <2>1 DEF CallsInv, TypeOK, ConnOK, AttemptOK
  <2>7. LoneCallRetried'
    BY <1>1, <1>2, <2>1, RecoveryRemembered DEF CallsInv, TypeOK
  <2> QED
    BY <2>3, <2>4, <2>5, <2>6, <2>7 DEF CallsInv
<1>4. CASE ~(isConnected /\ socket # NoSocket)
  <2>1. /\ pc' = [pc EXCEPT ![c] = "waiting"]
        /\ UNCHANGED <<sends, queue>>
        /\ \/ connecting # "none" /\ UNCHANGED <<socks, connecting>>
           \/ /\ connecting = "none" /\ connecting' = "connect"
              /\ \E s \in Sockets :
                   socks[s] = "unused" /\ socks' = [socks EXCEPT ![s] = "connecting"]
    BY <1>4 DEF EnsureConnected
  <2>2. sends[c] <= IF pc[c] = "idle" THEN 0 ELSE 1
    BY <1>2 DEF CallsInv, SendsOK, TypeOK
  <2>3. TypeOK'
    BY <1>2, <2>1 DEF CallsInv, TypeOK, PC, SocketStates, Stages
  <2>4. SendsOK'
    BY <1>1, <1>2, <2>1, <2>2 DEF CallsInv, TypeOK, SendsOK
  <2>5. QueueOK'
    BY <1>4, <2>1 DEF CallsInv, TypeOK, QueueOK
  <2>6. ConnOK' /\ AttemptOK'
    BY <1>4, <2>1, CallsAssumption DEF CallsInv, TypeOK, ConnOK, AttemptOK
  <2>7. LoneCallRetried'
    BY <1>1, <1>2, <2>1, RecoveryRemembered DEF CallsInv, TypeOK
  <2> QED
    BY <2>3, <2>4, <2>5, <2>6, <2>7 DEF CallsInv
<1> QED
  BY <1>3, <1>4

(* A connection is lost: the queue is rejected, the calls that wait for the  *)
(* ping among it.  Whoever is cut off for good owes it to a first try that   *)
(* goes on to its recovery.                                                  *)
LEMMA RejectKeeps ==
  ASSUME CallsInv, NEW R \in SUBSET Calls, NEW F \in SUBSET Calls,
         pc' = AfterErrors(R, F),
         R \cup F = (Queued \ {Ping}) \cup NotConnected,
         F # {} => \E d \in R \ F : ~second[d],
         queue' = EmptyQueue, connecting' = AfterQueueLost,
         socket' = NoSocket, isConnected' = FALSE, UNCHANGED <<second, sends, cutOff>>,
         socks' \in [Sockets -> SocketStates],
         \A s \in Sockets : socks'[s] = "connecting" <=> socks[s] = "connecting",
         lost' \in SUBSET Sockets, \A s \in lost' : socks'[s] \in {"open", "ended"},
         faults' \in 0..MaxFaults
  PROVE  CallsInv'
<1> USE MessageTypes
<1>1. \A e \in Calls :
        e \in R \cup F <=> (pc[e] = "sent" \/ (pc[e] = "waiting" /\ connecting = "ping"))
  BY DEF Queued, NotConnected, Waiting, CallsInv, QueueOK, ConnOK
<1>2. \A e \in Calls :
        pc'[e] = IF e \in F \/ (e \in R /\ second[e]) THEN "failed"
                 ELSE IF e \in R THEN "probing" ELSE pc[e]
  BY DEF AfterErrors
<1>3. connecting' = IF connecting = "ping" THEN "none" ELSE connecting
  BY DEF AfterQueueLost, Queued, CallsInv, ConnOK
<1>4. \A m \in Messages : queue'[m] = NoSocket
  BY DEF EmptyQueue
<1>5. TypeOK'
  <2>1. pc' \in [Calls -> PC]
    BY DEF AfterErrors, PC, Settled, CallsInv, TypeOK
  <2>2. queue' \in [Messages -> Sockets \cup {NoSocket}]
    BY DEF EmptyQueue
  <2> QED
    BY <1>3, <2>1, <2>2 DEF CallsInv, TypeOK, Stages
<1>6. SendsOK'
  <2> SUFFICES ASSUME NEW e \in Calls
               PROVE  /\ sends[e] <= (IF second[e] THEN 1 ELSE 0)
                                       + (IF pc'[e] \in {"idle", "waiting"} THEN 0 ELSE 1)
                      /\ pc'[e] \in {"idle", "probing"} => ~second[e]
    BY DEF SendsOK
  <2>1. /\ sends[e] <= (IF second[e] THEN 1 ELSE 0)
                         + (IF pc[e] \in {"idle", "waiting"} THEN 0 ELSE 1)
        /\ pc[e] \in {"idle", "probing"} => ~second[e]
        /\ sends[e] \in Nat
    BY DEF CallsInv, TypeOK, SendsOK
  <2> QED
    BY <1>2, <2>1
<1>7. QueueOK'
  BY <1>1, <1>2, <1>4 DEF QueueOK
<1>8. ConnOK'
  BY <1>3, <1>4 DEF ConnOK
<1>9. AttemptOK'
  BY <1>1, <1>2, <1>3 DEF CallsInv, AttemptOK
<1>10. LoneCallRetried'
  <2> SUFFICES ASSUME NEW c \in Calls, pc'[c] = "failed", ~second[c]
               PROVE  \E e \in Calls \ {c} : \/ pc'[e] = "probing" \/ second[e]
                                             \/ c \in cutOff /\ pc'[e] # "idle"
    BY DEF LoneCallRetried
  <2>1. CASE c \in F
    <3>1. PICK d \in R \ F : ~second[d]
      BY <2>1
    <3> QED
      BY <1>2, <2>1, <3>1
  <2>2. CASE c \notin F
    <3>1. pc[c] = "failed"
      BY <1>2, <2>2
    <3>2. PICK e \in Calls \ {c} : pc[e] = "probing" \/ second[e] \/ (c \in cutOff /\ pc[e] # "idle")
      BY <3>1 DEF CallsInv, LoneCallRetried
    <3> QED
      BY <1>1, <1>2, <3>2
  <2> QED
    BY <2>1, <2>2
<1> QED
  BY <1>5, <1>6, <1>7, <1>8, <1>9, <1>10 DEF CallsInv

-----------------------------------------------------------------------------
(* The events one by one. *)

LEMMA ConnectedKeeps ==
  ASSUME CallsInv, NEW s \in Sockets, Connected(s)
  PROVE  CallsInv'
<1> USE MessageTypes
<1>1. /\ socks[s] = "connecting"
      /\ socks' = [socks EXCEPT ![s] = "open"]
      /\ socket' = s
      /\ isConnected' = TRUE
      /\ connecting' = "ping"
      /\ queue' = [queue EXCEPT ![Ping] = s]
      /\ connecting = "connect"
      /\ UNCHANGED <<pc, second, sends, lost, faults, cutOff>>
      /\ s # NoSocket
  BY CallsAssumption DEF Connected
<1>2. TypeOK'
  BY <1>1 DEF CallsInv, TypeOK, SocketStates, Stages
<1>3. SendsOK' /\ LoneCallRetried'
  BY <1>1 DEF CallsInv, SendsOK, LoneCallRetried
<1>4. QueueOK'
  BY <1>1 DEF CallsInv, TypeOK, QueueOK
<1>5. ConnOK'
  BY <1>1 DEF CallsInv, TypeOK, ConnOK
<1>6. AttemptOK'
  BY <1>1 DEF CallsInv, TypeOK, AttemptOK
<1> QED
  BY <1>2, <1>3, <1>4, <1>5, <1>6 DEF CallsInv

LEMMA ConnectFailsKeeps ==
  ASSUME CallsInv, NEW s \in Sockets, ConnectFails(s)
  PROVE  CallsInv'
<1> USE MessageTypes
<1>1. /\ socks[s] = "connecting" /\ connecting \in {"spawn", "attach"}
      /\ socks' = [socks EXCEPT ![s] = "unused"]
      /\ connecting' = "none" /\ queue' = EmptyQueue
      /\ socket' = NoSocket /\ isConnected' = FALSE
      /\ faults' \in 0..MaxFaults
      /\ UNCHANGED <<second, sends, lost, cutOff>>
  BY CallsAssumption DEF ConnectFails, Fault, CallsInv, TypeOK
<1>2. /\ pc' \in [Calls -> PC]
      /\ \A c \in Calls : pc'[c] = IF pc[c] = "waiting" THEN "refused"
                                   ELSE IF pc[c] = "sent" /\ second[c] THEN "failed"
                                   ELSE IF pc[c] = "sent" THEN "probing" ELSE pc[c]
  BY DEF ConnectFails, AfterErrors, Waiting, Queued, CallsInv, TypeOK, QueueOK, PC, Settled
<1>3. /\ \A t \in Sockets \ {s} : socks[t] # "connecting"
      /\ \A m \in Messages : queue'[m] = NoSocket
  BY <1>1 DEF CallsInv, AttemptOK, EmptyQueue
<1>4. TypeOK'
  <2>1. queue' \in [Messages -> Sockets \cup {NoSocket}]
    BY <1>1 DEF EmptyQueue
  <2> QED
    BY <1>1, <1>2, <2>1 DEF CallsInv, TypeOK, SocketStates, Stages
<1>5. SendsOK'
  BY <1>1, <1>2 DEF CallsInv, TypeOK, SendsOK
<1>6. QueueOK'
  BY <1>2, <1>3 DEF QueueOK
<1>7. ConnOK'
  BY <1>1, <1>3 DEF CallsInv, TypeOK, ConnOK
<1>8. AttemptOK'
  BY <1>1, <1>2, <1>3 DEF CallsInv, TypeOK, AttemptOK
<1>9. LoneCallRetried'
  BY <1>1, <1>2, RecoveryRemembered DEF CallsInv
<1> QED
  BY <1>4, <1>5, <1>6, <1>7, <1>8, <1>9 DEF CallsInv

LEMMA ConnectMissesKeeps ==
  ASSUME CallsInv, NEW s \in Sockets, ConnectMisses(s)
  PROVE  CallsInv'
BY DEF ConnectMisses, CallsInv, TypeOK, Stages, SendsOK, QueueOK, ConnOK, AttemptOK,
   LoneCallRetried

LEMMA FoundRecordedKeeps ==
  ASSUME CallsInv, NEW s \in Sockets, FoundRecorded(s)
  PROVE  CallsInv'
<1> USE MessageTypes
<1>1. PICK t \in Sockets :
        socks[t] = "unused" /\ socks' = [socks EXCEPT ![s] = "open", ![t] = "connecting"]
  BY DEF FoundRecorded
<1>2. /\ socks[s] = "connecting" /\ connecting = "spawn" /\ connecting' = "attach"
      /\ socket' = s /\ isConnected' = TRUE /\ s # NoSocket
      /\ faults' \in 0..MaxFaults
      /\ UNCHANGED <<pc, second, sends, queue, lost, cutOff>>
  BY CallsAssumption DEF FoundRecorded, Fault, CallsInv, TypeOK
<1>3. TypeOK'
  BY <1>1, <1>2 DEF CallsInv, TypeOK, SocketStates, Stages
<1>4. SendsOK' /\ LoneCallRetried'
  BY <1>2 DEF CallsInv, SendsOK, LoneCallRetried
<1>5. QueueOK'
  BY <1>1, <1>2 DEF CallsInv, TypeOK, QueueOK
<1>6. ConnOK'
  BY <1>1, <1>2 DEF CallsInv, TypeOK, ConnOK
<1>7. AttemptOK'
  BY <1>1, <1>2 DEF CallsInv, TypeOK, AttemptOK
<1> QED
  BY <1>3, <1>4, <1>5, <1>6, <1>7 DEF CallsInv

LEMMA SpawnConnectedKeeps ==
  ASSUME CallsInv, NEW s \in Sockets, SpawnConnected(s)
  PROVE  CallsInv'
<1> USE MessageTypes
<1>1. /\ socks[s] = "connecting" /\ connecting \in {"spawn", "attach"}
      /\ socks' = [socks EXCEPT ![s] = "open"]
      /\ socket' = s /\ isConnected' = TRUE /\ connecting' = "none" /\ s # NoSocket
      /\ pc' = [c \in Calls |-> IF pc[c] = "waiting" THEN "sent" ELSE pc[c]]
      /\ UNCHANGED <<second, lost, faults, cutOff>>
  BY CallsAssumption DEF SpawnConnected, Waiting
<1>2. /\ sends' = [c \in Calls |-> IF pc[c] = "waiting" THEN sends[c] + 1 ELSE sends[c]]
      /\ queue' = [m \in Messages |->
                     IF m \in Calls /\ pc[m] = "waiting" THEN s ELSE queue[m]]
  BY DEF SpawnConnected, Written, Waiting
<1>3. TypeOK'
  <2>1. \A c \in Calls : pc[c] = "waiting" => sends[c] <= 1
    BY DEF CallsInv, TypeOK, SendsOK
  <2>2. sends' \in [Calls -> 0..2]
    BY <1>2, <2>1 DEF CallsInv, TypeOK
  <2>3. queue' \in [Messages -> Sockets \cup {NoSocket}]
    BY <1>2 DEF CallsInv, TypeOK
  <2>4. pc' \in [Calls -> PC] /\ socks' \in [Sockets -> SocketStates]
    BY <1>1 DEF CallsInv, TypeOK, PC, SocketStates
  <2> QED
    BY <1>1, <2>2, <2>3, <2>4 DEF CallsInv, TypeOK, Stages
<1>4. SendsOK'
  BY <1>1, <1>2 DEF CallsInv, TypeOK, SendsOK
<1>5. QueueOK'
  BY <1>1, <1>2 DEF CallsInv, TypeOK, QueueOK
<1>6. ConnOK'
  BY <1>1, <1>2 DEF CallsInv, TypeOK, ConnOK
<1>7. AttemptOK'
  BY <1>1, <1>2 DEF CallsInv, TypeOK, AttemptOK
<1>8. LoneCallRetried'
  BY <1>1, RecoveryRemembered DEF CallsInv
<1> QED
  BY <1>3, <1>4, <1>5, <1>6, <1>7, <1>8 DEF CallsInv

(* Whom the replacement of a daemon cuts off, it leaves the call behind that *)
(* was opening the connection.                                               *)
LEMMA PongReplacesKeeps ==
  ASSUME CallsInv, PongReplaces
  PROVE  CallsInv'
<1> USE MessageTypes
<1>1. PICK s \in Sockets :
        /\ socks[s] = "unused"
        /\ socks' = [t \in Sockets |-> IF t = s THEN "connecting"
                                       ELSE IF t = socket THEN "ended" ELSE socks[t]]
  BY DEF PongReplaces
<1>2. /\ queue[Ping] # NoSocket /\ connecting = "ping" /\ connecting' = "spawn"
      /\ socket # NoSocket /\ socks[socket] = "open"
      /\ lost' = lost \cup {t \in Sockets : socks[t] \in {"open", "ended"}}
      /\ queue' = EmptyQueue
      /\ socket' = NoSocket /\ isConnected' = FALSE
      /\ faults' \in 0..MaxFaults
      /\ UNCHANGED <<second, sends>>
  BY CallsAssumption DEF PongReplaces, Fault, Queued, CallsInv, TypeOK, ConnOK
<1>3. /\ pc' \in [Calls -> PC]
      /\ \A c \in Calls : pc'[c] = IF pc[c] = "sent" THEN "failed" ELSE pc[c]
      /\ cutOff' = cutOff \cup {c \in Calls : pc[c] = "sent"}
  BY DEF PongReplaces, AfterErrors, Queued, CallsInv, TypeOK, QueueOK, PC, Settled
<1>4. \A m \in Messages : queue'[m] = NoSocket
  BY <1>2 DEF EmptyQueue
<1>5. TypeOK'
  <2>1. queue' \in [Messages -> Sockets \cup {NoSocket}]
    BY <1>2 DEF EmptyQueue
  <2>2. socks' \in [Sockets -> SocketStates]
    BY <1>1 DEF CallsInv, TypeOK, SocketStates
  <2>3. cutOff' \subseteq Calls /\ lost' \subseteq Sockets
    BY <1>2, <1>3 DEF CallsInv, TypeOK
  <2> QED
    BY <1>2, <1>3, <2>1, <2>2, <2>3 DEF CallsInv, TypeOK, Stages
<1>6. SendsOK'
  BY <1>2, <1>3 DEF CallsInv, TypeOK, SendsOK
<1>7. QueueOK'
  BY <1>3, <1>4 DEF QueueOK
<1>8. ConnOK'
  BY <1>1, <1>2, <1>4 DEF CallsInv, TypeOK, ConnOK
<1>9. AttemptOK'
  <2>1. \A t \in Sockets : socks[t] # "connecting"
    BY <1>2 DEF CallsInv, AttemptOK
  <2>2. \A t \in Sockets : socks'[t] = "connecting" <=> t = s
    BY <1>1, <2>1
  <2>3. \E c \in Calls : pc[c] = "waiting"
    BY <1>2 DEF CallsInv, AttemptOK
  <2> QED
    BY <1>2, <1>3, <2>2, <2>3 DEF AttemptOK
<1>10. LoneCallRetried'
  <2>1. PICK e \in Calls : pc[e] = "waiting"
    BY <1>2 DEF CallsInv, AttemptOK
  <2> SUFFICES ASSUME NEW c \in Calls, pc'[c] = "failed", ~second[c]
               PROVE  \E d \in Calls \ {c} : \/ pc'[d] = "probing" \/ second[d]
                                             \/ c \in cutOff' /\ pc'[d] # "idle"
    BY <1>2 DEF LoneCallRetried
  <2>2. CASE pc[c] = "sent"
    BY <1>3, <2>1, <2>2
  <2>3. CASE pc[c] # "sent"
    BY <1>3, <2>3 DEF CallsInv, LoneCallRetried
  <2> QED
    BY <2>2, <2>3
<1> QED
  BY <1>5, <1>6, <1>7, <1>8, <1>9, <1>10 DEF CallsInv

LEMMA PingOverKeeps ==
  ASSUME CallsInv, PingOver
  PROVE  CallsInv'
<1> USE MessageTypes
<1>1. /\ queue[Ping] # NoSocket
      /\ connecting = "ping" /\ connecting' = "none"
      /\ socket # NoSocket /\ socks[socket] = "open"
      /\ pc' = [c \in Calls |-> IF pc[c] = "waiting" THEN "sent" ELSE pc[c]]
      /\ UNCHANGED <<second, socks, lost, socket, isConnected, cutOff>>
  BY DEF PingOver, Queued, Waiting, CallsInv, ConnOK
<1>2. /\ sends' = [c \in Calls |-> IF pc[c] = "waiting" THEN sends[c] + 1 ELSE sends[c]]
      /\ queue' = [m \in Messages |->
                     IF m \in Calls /\ pc[m] = "waiting" THEN socket
                     ELSE IF m = Ping THEN NoSocket ELSE queue[m]]
  BY DEF PingOver, Written, Without, Waiting, CallsInv, TypeOK
<1>3. faults' \in 0..MaxFaults
  BY CallsAssumption DEF PingOver, Fault, CallsInv, TypeOK
<1>4. TypeOK'
  <2>1. \A c \in Calls : pc[c] = "waiting" => sends[c] <= 1
    BY DEF CallsInv, TypeOK, SendsOK
  <2>2. sends' \in [Calls -> 0..2]
    BY <1>2, <2>1 DEF CallsInv, TypeOK
  <2>3. queue' \in [Messages -> Sockets \cup {NoSocket}]
    BY <1>2 DEF CallsInv, TypeOK
  <2>4. pc' \in [Calls -> PC]
    BY <1>1 DEF CallsInv, TypeOK, PC
  <2> QED
    BY <1>1, <1>3, <2>2, <2>3, <2>4 DEF CallsInv, TypeOK, Stages
<1>5. SendsOK'
  BY <1>1, <1>2 DEF CallsInv, TypeOK, SendsOK
<1>6. QueueOK'
  BY <1>1, <1>2 DEF CallsInv, QueueOK
<1>7. ConnOK' /\ AttemptOK'
  BY <1>1, <1>2 DEF CallsInv, ConnOK, AttemptOK
<1>8. LoneCallRetried'
  BY <1>1, RecoveryRemembered DEF CallsInv
<1> QED
  BY <1>4, <1>5, <1>6, <1>7, <1>8 DEF CallsInv

LEMMA AnswerKeeps ==
  ASSUME CallsInv, NEW c \in Calls, Answer(c)
  PROVE  CallsInv'
<1> USE MessageTypes
<1>1. /\ pc[c] = "sent" /\ pc' = [pc EXCEPT ![c] = "done"]
      /\ queue' = [queue EXCEPT ![c] = NoSocket]
      /\ UNCHANGED <<second, sends, socks, lost, socket, isConnected, connecting, faults, cutOff>>
  BY DEF Answer, Queued, Without, CallsInv, QueueOK
<1>2. TypeOK'
  BY <1>1 DEF CallsInv, TypeOK, PC, Settled
<1>3. SendsOK'
  BY <1>1 DEF CallsInv, TypeOK, SendsOK
<1>4. QueueOK'
  BY <1>1 DEF CallsInv, TypeOK, QueueOK
<1>5. ConnOK' /\ AttemptOK'
  BY <1>1 DEF CallsInv, TypeOK, ConnOK, AttemptOK
<1>6. LoneCallRetried'
  BY <1>1, RecoveryRemembered DEF CallsInv, TypeOK
<1> QED
  BY <1>2, <1>3, <1>4, <1>5, <1>6 DEF CallsInv

LEMMA TimesOutKeeps ==
  ASSUME CallsInv, NEW c \in Calls, TimesOut(c)
  PROVE  CallsInv'
<1> USE MessageTypes
<1>1. /\ c \in Queued /\ pc[c] = "sent"
      /\ faults' \in 0..MaxFaults
      /\ UNCHANGED <<second, sends, lost, cutOff>>
  BY CallsAssumption DEF TimesOut, Fault, Queued, CallsInv, TypeOK, QueueOK
<1>2. CASE second[c]
  <2>1. /\ queue' = [queue EXCEPT ![c] = NoSocket]
        /\ pc' = [pc EXCEPT ![c] = "failed"]
        /\ UNCHANGED <<socks, socket, isConnected, connecting>>
    BY <1>2 DEF TimesOut, Without, AfterErrors, CallsInv, TypeOK
  <2>2. TypeOK'
    BY <1>1, <2>1 DEF CallsInv, TypeOK, PC, Settled
  <2>3. SendsOK'
    BY <1>1, <2>1 DEF CallsInv, TypeOK, SendsOK
  <2>4. QueueOK'
    BY <1>1, <2>1 DEF CallsInv, TypeOK, QueueOK
  <2>5. ConnOK' /\ AttemptOK'
    BY <1>1, <2>1 DEF CallsInv, TypeOK, ConnOK, AttemptOK
  <2>6. LoneCallRetried'
    BY <1>1, <1>2, <2>1, RecoveryRemembered DEF CallsInv, TypeOK
  <2> QED
    BY <2>2, <2>3, <2>4, <2>5, <2>6 DEF CallsInv
<1>3. CASE ~second[c]
  <2> DEFINE R == {c} \cup NotConnected
             F == Queued \ {c, Ping}
  <2>1. /\ queue' = EmptyQueue /\ connecting' = AfterQueueLost
        /\ pc' = AfterErrors(R, F)
        /\ socks' = [s \in Sockets |-> IF s = socket THEN "ended" ELSE socks[s]]
        /\ socket' = NoSocket /\ isConnected' = FALSE
    BY <1>3 DEF TimesOut, EndSocket
  <2>2. /\ R \in SUBSET Calls /\ F \in SUBSET Calls
        /\ R \cup F = (Queued \ {Ping}) \cup NotConnected
        /\ c \in R \ F
    BY <1>1 DEF Queued, NotConnected, Waiting
  <2>3. /\ socks' \in [Sockets -> SocketStates]
        /\ \A s \in Sockets : socks'[s] = "connecting" <=> socks[s] = "connecting"
        /\ lost' \in SUBSET Sockets
        /\ \A s \in lost' : socks'[s] \in {"open", "ended"}
    <3>1. /\ socks \in [Sockets -> SocketStates] /\ lost' = lost /\ lost \subseteq Sockets
          /\ \A s \in lost : socks[s] \in {"open", "ended"}
          /\ socket # NoSocket => socks[socket] = "open"
      BY <1>1 DEF CallsInv, TypeOK, ConnOK
    <3>2. \A s \in Sockets : socks'[s] = (IF s = socket THEN "ended" ELSE socks[s])
      BY <2>1
    <3>3. socks' \in [Sockets -> SocketStates]
      BY <2>1, <3>1 DEF SocketStates
    <3>4. \A s \in Sockets : socks'[s] = "connecting" <=> socks[s] = "connecting"
      BY <3>1, <3>2, CallsAssumption
    <3> QED
      BY <3>1, <3>2, <3>3, <3>4
  <2> HIDE DEF R, F
  <2> QED
    BY <1>1, <1>3, <2>1, <2>2, <2>3, RejectKeeps
<1> QED
  BY <1>2, <1>3

LEMMA CloseKeeps ==
  ASSUME CallsInv, NEW s \in Sockets, Close(s)
  PROVE  CallsInv'
<1> USE MessageTypes
<1> DEFINE R == (Queued \ {Ping}) \cup NotConnected
<1>1. /\ socks[s] \in {"open", "ended"}
      /\ socks' = [socks EXCEPT ![s] = "unused"]
      /\ lost' = lost \ {s}
      /\ queue' = EmptyQueue /\ connecting' = AfterQueueLost
      /\ pc' = AfterErrors(R, {})
      /\ socket' = NoSocket /\ isConnected' = FALSE
      /\ UNCHANGED <<second, sends, faults, cutOff>>
  BY DEF Close, CallsInv, ConnOK
<1>2. R \in SUBSET Calls
  BY DEF Queued, NotConnected, Waiting
<1>3. /\ socks' \in [Sockets -> SocketStates]
      /\ \A t \in Sockets : socks'[t] = "connecting" <=> socks[t] = "connecting"
      /\ lost' \in SUBSET Sockets
      /\ \A t \in lost' : socks'[t] \in {"open", "ended"}
      /\ faults' \in 0..MaxFaults
  BY <1>1 DEF CallsInv, TypeOK, ConnOK, SocketStates
<1>4. R \cup {} = (Queued \ {Ping}) \cup NotConnected
  OBVIOUS
<1> HIDE DEF R
<1> QED
  BY <1>1, <1>2, <1>3, <1>4, RejectKeeps

LEMMA CallsInvNext == CallsInv /\ [Next]_vars => CallsInv'
<1> SUFFICES ASSUME CallsInv, [Next]_vars PROVE CallsInv'
  OBVIOUS
<1>1. ASSUME NEW c \in Calls, Call(c) PROVE CallsInv'
  <2>1. /\ pc[c] = "idle" /\ EnsureConnected(c, pc) /\ second' = second
        /\ UNCHANGED <<socket, isConnected, cutOff>>
    BY <1>1 DEF Call
  <2>2. /\ lost' \in SUBSET Sockets /\ \A s \in lost' : socks[s] \in {"open", "ended"}
        /\ faults' \in 0..MaxFaults
    BY <1>1 DEF Call, CallsInv, TypeOK, ConnOK
  <2> QED
    BY <2>1, <2>2, BeginKeeps
<1>2. ASSUME NEW c \in Calls, Retry(c) PROVE CallsInv'
  <2>1. /\ pc[c] = "probing" /\ EnsureConnected(c, pc) /\ second' = [second EXCEPT ![c] = TRUE]
        /\ UNCHANGED <<socket, isConnected, cutOff>>
    BY <1>2 DEF Retry
  <2>2. /\ lost' \in SUBSET Sockets /\ \A s \in lost' : socks[s] \in {"open", "ended"}
        /\ faults' \in 0..MaxFaults
    BY <1>2, CallsAssumption DEF Retry, Fault, CallsInv, TypeOK, ConnOK
  <2> QED
    BY <2>1, <2>2, BeginKeeps
<1>3. CASE DaemonDies
  <2>1. /\ lost' \in SUBSET Sockets /\ \A s \in lost' : socks[s] \in {"open", "ended"}
        /\ faults' \in 0..MaxFaults
        /\ UNCHANGED <<pc, second, sends, queue, socks, socket, isConnected, connecting, cutOff>>
    BY <1>3, CallsAssumption DEF DaemonDies, Fault, CallsInv, TypeOK, ConnOK
  <2> QED
    BY <2>1 DEF CallsInv, TypeOK, SendsOK, QueueOK, ConnOK, AttemptOK, LoneCallRetried
<1>4. CASE UNCHANGED vars
  BY <1>4 DEF vars, CallsInv, TypeOK, SendsOK, QueueOK, ConnOK, AttemptOK, LoneCallRetried
<1> QED
  BY <1>1, <1>2, <1>3, <1>4, AnswerKeeps, TimesOutKeeps, ConnectedKeeps, ConnectFailsKeeps,
     ConnectMissesKeeps, SpawnConnectedKeeps, FoundRecordedKeeps, CloseKeeps, PingOverKeeps,
     PongReplacesKeeps
     DEF Next, Done

LEMMA CallsInvInit == Init => CallsInv
<1> SUFFICES ASSUME Init PROVE CallsInv
  OBVIOUS
<1>1. TypeOK
  <2>1. /\ pc \in [Calls -> PC] /\ second \in [Calls -> BOOLEAN] /\ sends \in [Calls -> 0..2]
    BY DEF Init, PC
  <2>2. /\ queue \in [Messages -> Sockets \cup {NoSocket}]
        /\ socks \in [Sockets -> SocketStates]
    BY DEF Init, SocketStates
  <2>3. faults \in 0..MaxFaults
    BY CallsAssumption DEF Init
  <2> QED
    BY <2>1, <2>2, <2>3 DEF Init, TypeOK, Stages
<1> QED
  BY <1>1, MessageTypes
     DEF Init, CallsInv, SendsOK, QueueOK, ConnOK, AttemptOK, LoneCallRetried

LEMMA CallsInvCorrect == Spec => []CallsInv
  BY CallsInvInit, CallsInvNext, PTL DEF Spec

(* The variables have their types for any number of calls and faults; of     *)
(* each call at most two messages are ever written.                          *)
THEOREM TypeCorrect == Spec => []TypeOK
<1>1. CallsInv => TypeOK
  BY DEF CallsInv
<1> QED
  BY <1>1, CallsInvCorrect, PTL

(* However many calls share the client, it has one connection attempt under  *)
(* way at most, and no call waits for an attempt that is over.               *)
THEOREM OneAttemptThm == Spec => []OneAttempt
<1>1. CallsInv => OneAttempt
  <2> SUFFICES ASSUME CallsInv PROVE OneAttempt
    OBVIOUS
  <2> DEFINE S == {s \in Sockets : socks[s] = "connecting"}
  <2>1. Cardinality(S) <= 1
    <3>1. CASE S = {}
      BY <3>1, FS_EmptySet
    <3>2. CASE S # {}
      <4>1. PICK s \in S : TRUE
        BY <3>2
      <4>2. S = {s}
        BY <4>1 DEF CallsInv, AttemptOK
      <4> QED
        BY <4>2, FS_Singleton
    <3> QED
      BY <3>1, <3>2
  <2>2. Waiting # {} => connecting # "none"
    BY DEF Waiting, CallsInv, AttemptOK
  <2> QED
    BY <2>1, <2>2 DEF OneAttempt
<1> QED
  BY <1>1, CallsInvCorrect, PTL

(* No message is left behind on a socket whose close event has come.         *)
THEOREM NobodyStrandedThm == Spec => []NobodyStranded
<1>1. CallsInv => NobodyStranded
  BY DEF CallsInv, QueueOK, NobodyStranded, Queued
<1> QED
  BY <1>1, CallsInvCorrect, PTL

(* Whoever waits has something to wait for: a call that wrote its message,   *)
(* the socket it wrote it to, whose answer or close event is yet to come; a  *)
(* call that waits to be connected, an attempt that is being made or a ping  *)
(* on such a socket, which settle the connecting promise (ensureConnected).  *)
EventToCome ==
  \A c \in Calls :
    /\ pc[c] = "sent" => queue[c] # NoSocket /\ socks[queue[c]] \in {"open", "ended"}
    /\ pc[c] = "waiting" =>
         \/ \E s \in Sockets : socks[s] = "connecting"
         \/ queue[Ping] # NoSocket /\ socks[queue[Ping]] \in {"open", "ended"}

(* No call is left waiting for nothing, for any number of calls and faults.  *)
THEOREM EventToComeThm == Spec => []EventToCome
<1>1. CallsInv => EventToCome
  <2> SUFFICES ASSUME CallsInv, NEW c \in Calls
               PROVE  /\ pc[c] = "sent" =>
                           queue[c] # NoSocket /\ socks[queue[c]] \in {"open", "ended"}
                      /\ pc[c] = "waiting" =>
                           \/ \E s \in Sockets : socks[s] = "connecting"
                           \/ queue[Ping] # NoSocket /\ socks[queue[Ping]] \in {"open", "ended"}
    BY DEF EventToCome
  <2>1. CASE pc[c] = "sent"
    BY <2>1, MessageTypes DEF CallsInv, QueueOK
  <2>2. CASE pc[c] = "waiting"
    <3>1. connecting \in {"connect", "spawn", "attach", "ping"}
      BY <2>2 DEF CallsInv, TypeOK, AttemptOK, Stages
    <3> QED
      BY <2>2, <3>1, MessageTypes DEF CallsInv, QueueOK, ConnOK, AttemptOK
  <2> QED
    BY <2>1, <2>2
<1> QED
  BY <1>1, CallsInvCorrect, PTL

(* Only another call, which recovers or was opening the connection that the  *)
(* call wrote to, denies a call its second try.                              *)
THEOREM LoneCallRetriedThm == Spec => []LoneCallRetried
<1>1. CallsInv => LoneCallRetried
  BY DEF CallsInv
<1> QED
  BY <1>1, CallsInvCorrect, PTL

=============================================================================
