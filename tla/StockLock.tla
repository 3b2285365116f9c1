------------------------------ MODULE StockLock ------------------------------
(***************************************************************************)
(* The distributed stock lock of the commerce backend                      *)
(* (backend/server/services/stockLockService.ts): one Redis key per        *)
(* product, `stock:lock:<productId>`, set with NX and a time to live and   *)
(* deleted by a script that compares the stored id with the caller's.      *)
(*                                                                         *)
(* A lock id is unique to one acquisition (`Date.now()-Math.random()`,     *)
(* line 59).  A processor run acquires each product at most once, so the   *)
(* record that identifies the run stands for the ids it stores.            *)
(***************************************************************************)
EXTENDS Naturals, Sequences, FiniteSets

CONSTANTS
  Products,  \* the products that carry a lock key
  NoLock     \* what a GET of an absent key returns

VARIABLES
  lock,      \* lock[p]: the id stored under the key of p, or NoLock
  sweep      \* the periodic cleanup: the keys KEYS returned that are still to
             \* be looked at, and those whose TTL was read as -2 and whose
             \* DEL is on its way

lockVars == <<lock, sweep>>

LockInit ==
  /\ lock = [p \in Products |-> NoLock]
  /\ sweep = [keys |-> {}, dels |-> {}]

\* A SET without NX: the last caller owns the key.
SetAlways(p, id) == lock' = [lock EXCEPT ![p] = id]

\* SET key id EX 30 NX that answers OK.
SetNX(p, id) ==
  /\ lock[p] = NoLock
  /\ lock' = [lock EXCEPT ![p] = id]

\* A release that deletes the key whoever stored it: what the script of
\* releaseStockLock is there to prevent.
DeleteUnchecked(p, id) == lock' = [lock EXCEPT ![p] = NoLock]

\* The Lua script of releaseStockLock: deletes the key only while it still
\* holds the caller's id.
CompareAndDelete(p, id) ==
  lock' = IF lock[p] = id THEN [lock EXCEPT ![p] = NoLock] ELSE lock

\* A SET without EX: no key ever runs out.
NeverRunsOut(p) == p \in {} /\ UNCHANGED lockVars

\* The 30 s time to live of a key runs out.
TtlRunsOut(p) ==
  /\ lock[p] # NoLock
  /\ lock' = [lock EXCEPT ![p] = NoLock]
  /\ UNCHANGED sweep

(***************************************************************************)
(* cleanupExpiredLocks, called every five minutes: KEYS, then for each key *)
(* a TTL and, when the answer is -2 (no such key), a DEL.  Each is its own *)
(* round trip, and the DEL compares nothing.                               *)
(***************************************************************************)
SweepKeys ==
  /\ sweep = [keys |-> {}, dels |-> {}]
  /\ sweep' = [sweep EXCEPT !.keys = {p \in Products : lock[p] # NoLock}]
  /\ UNCHANGED lock

SweepTtl(p) ==
  /\ sweep.dels = {}
  /\ p \in sweep.keys
  /\ sweep' = [keys |-> sweep.keys \ {p},
               dels |-> IF lock[p] = NoLock THEN {p} ELSE {}]
  /\ UNCHANGED lock

SweepDel(p) ==
  /\ p \in sweep.dels
  /\ sweep' = [sweep EXCEPT !.dels = {}]
  /\ lock' = [lock EXCEPT ![p] = NoLock]

=============================================================================
