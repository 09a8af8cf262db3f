------------------------------ MODULE OneServer -------------------------------
(***************************************************************************)
(* What the start-up lock of the encryption daemon promises its clients    *)
(* (packages/encryption-binary-rust/src/ipc.rs): at any time at most one   *)
(* process is the daemon, and only the one that is may give it up.         *)
(***************************************************************************)
CONSTANT Daemons

VARIABLE servers   \* the processes that are the daemon: none or one

Init == servers = {}

Elect(d) == servers = {} /\ servers' = {d}

Retire == servers # {} /\ servers' = {}

Next == Retire \/ \E d \in Daemons : Elect(d)

Spec == Init /\ [][Next]_servers

=============================================================================
