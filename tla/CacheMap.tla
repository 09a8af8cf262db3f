------------------------------ MODULE CacheMap -------------------------------
(***************************************************************************)
(* What a cache file promises (the write side of CacheStoreLike in         *)
(* packages/varlock/src/lib/cache/cache-store.ts): a map from cache keys   *)
(* to entries that every operation updates in one step and only at its own *)
(* key, apart from dropping entries that have expired.  A writer that      *)
(* cannot read the file is the exception: it says so first (misread), and  *)
(* either gives up or leaves its own entry as the only one.                *)
(***************************************************************************)
EXTENDS Naturals

CONSTANTS Keys, Entries, NoEntry

VARIABLES file, now, misread

(* Date.now() > entry.e *)
Expired(e) == e # NoEntry /\ now > e.exp

Init ==
  /\ file = [k \in Keys |-> NoEntry]
  /\ now = 0
  /\ misread = FALSE

OthersKept(k) ==
  /\ file' \in [Keys -> Entries \cup {NoEntry}]
  /\ \A j \in Keys \ {k} :
       file'[j] = file[j] \/ (Expired(file[j]) /\ file'[j] = NoEntry)

Put(k, e) ==
  /\ OthersKept(k)
  /\ file'[k] = e

Remove(k) == file' = [file EXCEPT ![k] = NoEntry]

RemoveAll == file' = [k \in Keys |-> NoEntry]

Update ==
  /\ ~misread
  /\ RemoveAll \/ \E k \in Keys : Remove(k) \/ \E e \in Entries : Put(k, e)
  /\ UNCHANGED <<now, misread>>

PutAlone(k, e) == file' = [j \in Keys |-> IF j = k THEN e ELSE NoEntry]

Misread == ~misread /\ misread' = TRUE /\ UNCHANGED <<file, now>>

EndMisread ==
  /\ misread
  /\ misread' = FALSE
  /\ UNCHANGED file \/ \E k \in Keys, e \in Entries : PutAlone(k, e)
  /\ UNCHANGED now

Tick == now' = now + 1 /\ UNCHANGED <<file, misread>>

Next == Update \/ Misread \/ EndMisread \/ Tick

Spec == Init /\ [][Next]_<<file, now, misread>>

=============================================================================
