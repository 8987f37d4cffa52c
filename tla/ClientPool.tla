----------------------------- MODULE ClientPool -----------------------------
(***************************************************************************)
(* get_or_create_client, the same in ClientPool for blockchain clients and *)
(* in NotificationClientPool: clients are kept in storages, each behind a  *)
(* read-write lock, under the network's slug or the retry policy.  A       *)
(* request looks under the read lock; when it finds nothing it looks again *)
(* under the write lock, which it then keeps while it creates the client.  *)
(*                                                                         *)
(* tokio's RwLock serves its waiters in the order in which they asked, so  *)
(* that a reader waits behind a writer that asked before it.  Nothing is   *)
(* awaited while the read lock is held.  Whoever awaits the answer may be  *)
(* dropped (a select against shutdown): its place in the queue, or the     *)
(* lock, is released.                                                      *)
(***************************************************************************)
EXTENDS Naturals, SequencesExt

CONSTANTS
    Requesters,   \* the concurrent callers
    Keys,         \* what clients are kept under
    Storages,     \* the locks
    StorageOf,    \* the storage of each key
    Nobody        \* who holds a lock that is free

ASSUME StorageOfAssumption == Keys # {} /\ StorageOf \in [Keys -> Storages]
ASSUME NobodyAssumption    == Nobody \notin Requesters

NoClient == 0

VARIABLES
    clients,    \* the client kept under each key
    created,    \* how many clients were made, which also names the next one
    holder,     \* who holds each storage's write lock
    waiting,    \* who waits for each storage's lock, in order
    step,       \* how far each requester is
    want,       \* the key it asked for
    got         \* the client it was given

poolVars == <<clients, created, holder, waiting, step, want, got>>

Storage(r) == StorageOf[want[r]]

Resting == {"idle", "served", "refused", "dropped"}
Steps   == Resting \union {"reading", "missed", "writing", "creating"}

PoolInit ==
    /\ clients = [k \in Keys |-> NoClient]
    /\ created = 0
    /\ holder = [s \in Storages |-> Nobody]
    /\ waiting = [s \in Storages |-> <<>>]
    /\ step = [r \in Requesters |-> "idle"]
    /\ want = [r \in Requesters |-> CHOOSE k \in Keys : TRUE]
    /\ got = [r \in Requesters |-> NoClient]

\* The call: storage.clients.read().
Ask(r, k) ==
    /\ step[r] \in Resting
    /\ step' = [step EXCEPT ![r] = "reading"]
    /\ want' = [want EXCEPT ![r] = k]
    /\ got' = [got EXCEPT ![r] = NoClient]
    /\ waiting' = [waiting EXCEPT ![StorageOf[k]] = Append(@, r)]
    /\ UNCHANGED <<clients, created, holder>>

MyTurn(r) ==
    /\ holder[Storage(r)] = Nobody
    /\ waiting[Storage(r)] # <<>>
    /\ Head(waiting[Storage(r)]) = r

Leave(r) == waiting' = [waiting EXCEPT ![Storage(r)] = Tail(@)]

Serve(r) ==
    /\ step' = [step EXCEPT ![r] = "served"]
    /\ got' = [got EXCEPT ![r] = clients[want[r]]]

\* The fast path; the read lock is released before the write lock is asked for.
Look(r) ==
    /\ step[r] = "reading"
    /\ MyTurn(r)
    /\ Leave(r)
    /\ IF clients[want[r]] # NoClient
       THEN Serve(r)
       ELSE step' = [step EXCEPT ![r] = "missed"] /\ got' = got
    /\ UNCHANGED <<clients, created, holder, want>>

AskToWrite(r) ==
    /\ step[r] = "missed"
    /\ step' = [step EXCEPT ![r] = "writing"]
    /\ waiting' = [waiting EXCEPT ![Storage(r)] = Append(@, r)]
    /\ UNCHANGED <<clients, created, holder, want, got>>

\* Mutant: no second look under the write lock.
LookAgainNever(r) ==
    /\ step[r] = "writing"
    /\ MyTurn(r)
    /\ Leave(r)
    /\ step' = [step EXCEPT ![r] = "creating"]
    /\ holder' = [holder EXCEPT ![Storage(r)] = r]
    /\ UNCHANGED <<clients, created, want, got>>

\* The double check.
LookAgain(r) ==
    /\ step[r] = "writing"
    /\ MyTurn(r)
    /\ Leave(r)
    /\ IF clients[want[r]] # NoClient
       THEN Serve(r) /\ holder' = holder
       ELSE /\ step' = [step EXCEPT ![r] = "creating"]
            /\ holder' = [holder EXCEPT ![Storage(r)] = r]
            /\ got' = got
    /\ UNCHANGED <<clients, created, want>>

Create(r) ==
    /\ step[r] = "creating"
    /\ created' = created + 1
    /\ clients' = [clients EXCEPT ![want[r]] = created + 1]
    /\ got' = [got EXCEPT ![r] = created + 1]
    /\ step' = [step EXCEPT ![r] = "served"]
    /\ holder' = [holder EXCEPT ![Storage(r)] = Nobody]
    /\ UNCHANGED <<waiting, want>>

\* No network, or a configuration the client's builder refuses.
CreateFails(r) ==
    /\ step[r] = "creating"
    /\ step' = [step EXCEPT ![r] = "refused"]
    /\ holder' = [holder EXCEPT ![Storage(r)] = Nobody]
    /\ UNCHANGED <<clients, created, waiting, want, got>>

\* The state in which the callers in S are dropped.
Released(S, h) == [s \in Storages |-> IF h[s] \in S THEN Nobody ELSE h[s]]

Drop(S) ==
    /\ step' = [r \in Requesters |-> IF r \in S /\ step[r] \notin Resting THEN "dropped" ELSE step[r]]
    /\ holder' = Released(S, holder)
    /\ waiting' = [s \in Storages |-> SelectSeq(waiting[s], LAMBDA r : r \notin S)]
    /\ UNCHANGED <<clients, created, want, got>>

PoolStep(r) == Look(r) \/ AskToWrite(r) \/ LookAgain(r) \/ Create(r) \/ CreateFails(r)

PoolNext ==
    \/ \E r \in Requesters, k \in Keys : Ask(r, k)
    \/ \E r \in Requesters : PoolStep(r)
    \/ \E S \in SUBSET Requesters : Drop(S)

PoolSpec == PoolInit /\ [][PoolNext]_poolVars

(***************************************************************************)
(* Type invariant.                                                         *)
(***************************************************************************)
PoolTypeOK ==
    /\ clients \in [Keys -> Nat]
    /\ created \in Nat
    /\ holder \in [Storages -> Requesters \union {Nobody}]
    /\ step \in [Requesters -> Steps]
    /\ want \in [Requesters -> Keys]
    /\ got \in [Requesters -> Nat]

(***************************************************************************)
(* Everyone who was served for a key holds the client that is kept under   *)
(* it, so that all of them share one, however their requests overlapped    *)
(* (pool.rs:124 and notification/pool.rs:52).                              *)
(***************************************************************************)
OneClientPerKey ==
    \A r \in Requesters : step[r] = "served" => got[r] = clients[want[r]] /\ got[r] # NoClient

(***************************************************************************)
(* A client that is kept is never replaced.                                *)
(***************************************************************************)
ClientsStay == [][\A k \in Keys : clients[k] # NoClient => clients'[k] = clients[k]]_poolVars

(***************************************************************************)
(* The inductive invariant: whoever creates holds the lock of its storage  *)
(* and its key is still free.                                              *)
(***************************************************************************)
CreatorsHoldTheLock ==
    \A r \in Requesters :
        step[r] = "creating" => holder[Storage(r)] = r /\ clients[want[r]] = NoClient

PoolInv ==
    /\ PoolTypeOK
    /\ CreatorsHoldTheLock
    /\ OneClientPerKey
=============================================================================
