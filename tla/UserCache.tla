----------------------------- MODULE UserCache -----------------------------
(***************************************************************************)
(* The cache of the users in Redis (the hash user:list), from which        *)
(* verify_token takes a user's state. app_lifespan fills it when a process *)
(* starts, under the lock of the decorator task_lock: a key with a time to *)
(* live, set with NX and deleted at the end, whoever has set it by then. A *)
(* process that does not get the lock starts without loading.              *)
(*                                                                         *)
(* A user is the number of the version that is stored. Users are not added *)
(* by the routes of this application, and the hash is never emptied.       *)
(***************************************************************************)
EXTENDS Integers, FiniteSets

CONSTANTS
    Processes,   \* the processes of the server
    Users,
    Unlocked,    \* the lock while its key does not exist
    MaxChanges,  \* bound on the changes of a user
    MaxOverruns  \* bound on the loads that outlast the time to live of the lock

ASSUME CacheAssumption ==
    /\ IsFiniteSet(Processes) /\ Unlocked \notin Processes
    /\ MaxChanges \in Nat /\ MaxOverruns \in Nat

VARIABLES
    phase,    \* phase[p]: the await that the start of p is suspended at
    lock,     \* task_lock:save_user_list_to_cache, by the process that has set it
    users,    \* users[u]: the version in the database
    entities, \* entities[p]: the versions that p has read
    todo,     \* todo[p]: the users that p has still to store
    cache,    \* cache[u]: the version in Redis, 0 if there is none
    newest,   \* what the load that was the last to read has read (history)
    torn,     \* a load was cut off since then, before all was stored (history)
    overruns  \* how often the lock expired before its load was over (history, bound)

cacheVars == <<phase, lock, users, entities, todo, cache, newest, torn, overruns>>

CacheInit ==
    /\ phase = [p \in Processes |-> "down"]
    /\ lock = Unlocked
    /\ users = [u \in Users |-> 1]
    /\ entities = [p \in Processes |-> [u \in Users |-> 0]]
    /\ todo = [p \in Processes |-> {}]
    /\ cache = [u \in Users |-> 0]
    /\ newest = [u \in Users |-> 0]
    /\ torn = FALSE
    /\ overruns = 0

Loaders == {p \in Processes : phase[p] \in {"select", "store"}}

\* Variant with a fault: the answer of SET is not looked at
StartProcessAlways(p) ==
    /\ phase[p] = "down"
    /\ phase' = [phase EXCEPT ![p] = "select"]
    /\ lock' = p
    /\ UNCHANGED <<users, entities, todo, cache, newest, torn, overruns>>

\* app_lifespan and shared_logic: SET NX EX, which is not repeated (timeout = 0)
StartProcess(p) ==
    /\ phase[p] = "down"
    /\ \/ /\ lock = Unlocked
          /\ lock' = p
          /\ phase' = [phase EXCEPT ![p] = "select"]
       \/ /\ lock # Unlocked
          /\ phase' = [phase EXCEPT ![p] = "up"]
          /\ UNCHANGED lock
    /\ UNCHANGED <<users, entities, todo, cache, newest, torn, overruns>>

\* get_entities
GetEntities(p) ==
    /\ phase[p] = "select"
    /\ phase' = [phase EXCEPT ![p] = "store"]
    /\ entities' = [entities EXCEPT ![p] = users]
    /\ todo' = [todo EXCEPT ![p] = Users]
    /\ newest' = users
    /\ torn' = FALSE
    /\ UNCHANGED <<lock, users, cache, overruns>>

\* HSET, for one user after the other
StoreUser(p) ==
    /\ phase[p] = "store"
    /\ \E u \in todo[p] :
         /\ cache' = [cache EXCEPT ![u] = entities[p][u]]
         /\ todo' = [todo EXCEPT ![p] = @ \ {u}]
    /\ UNCHANGED <<phase, lock, users, entities, newest, torn, overruns>>

\* The finally of async_wrapper: DEL, whose failure is only logged
Release == lock' \in {Unlocked, lock}

\* Variant with a fault: the loop may be left before its end
LoadedEarly(p) ==
    /\ phase[p] = "store"
    /\ phase' = [phase EXCEPT ![p] = "up"]
    /\ Release
    /\ UNCHANGED <<users, entities, todo, cache, newest, torn, overruns>>

Loaded(p) ==
    /\ phase[p] = "store" /\ todo[p] = {}
    /\ phase' = [phase EXCEPT ![p] = "up"]
    /\ Release
    /\ UNCHANGED <<users, entities, todo, cache, newest, torn, overruns>>

\* The process is gone, and with it what it had read.
Gone(p) ==
    /\ phase' = [phase EXCEPT ![p] = "down"]
    /\ todo' = [todo EXCEPT ![p] = {}]
    /\ torn' = (torn \/ todo[p] # {})
    /\ UNCHANGED <<users, entities, cache, newest, overruns>>

\* An exception of PostgreSQL or Redis: the lock is released, the start fails.
LoadFails(p) == p \in Loaders /\ Gone(p) /\ Release

\* The process is stopped or dies, wherever it is; its lock stays.
StopProcess(p) == phase[p] # "down" /\ Gone(p) /\ UNCHANGED lock

\* The time to live of the lock is over.
ExpireLock ==
    /\ lock # Unlocked
    /\ lock' = Unlocked
    /\ IF lock \in Loaders
         THEN overruns < MaxOverruns /\ overruns' = overruns + 1
         ELSE UNCHANGED overruns
    /\ UNCHANGED <<phase, users, entities, todo, cache, newest, torn>>

\* PUT /users/me, or a state that is changed in the database: not in the cache
ChangeUser(u) ==
    /\ users[u] <= MaxChanges
    /\ users' = [users EXCEPT ![u] = @ + 1]
    /\ UNCHANGED <<phase, lock, entities, todo, cache, newest, torn, overruns>>

CacheNext ==
    \/ \E p \in Processes :
         \/ StartProcess(p) \/ GetEntities(p) \/ StoreUser(p) \/ Loaded(p)
         \/ LoadFails(p) \/ StopProcess(p)
    \/ ExpireLock
    \/ \E u \in Users : ChangeUser(u)

CacheSpec == CacheInit /\ [][CacheNext]_cacheVars

-----------------------------------------------------------------------------
(* Properties *)

\* Every variable has its type, and only a load has something left to store.
CacheTypeOK ==
    /\ phase \in [Processes -> {"down", "select", "store", "up"}]
    /\ lock \in Processes \union {Unlocked}
    /\ users \in [Users -> Nat]
    /\ entities \in [Processes -> [Users -> Nat]]
    /\ todo \in [Processes -> SUBSET Users]
    /\ \A p \in Processes : phase[p] # "store" => todo[p] = {}
    /\ cache \in [Users -> Nat]
    /\ newest \in [Users -> Nat]
    /\ torn \in BOOLEAN
    /\ overruns \in Nat

\* An expired lock lets one more process load, although the one that deletes
\* the lock of another lets a third one in: never more than one for each expiry.
LoadersBound == Cardinality(Loaders) <= 1 + overruns

\* When no load has outlasted its lock, none is at work and the last one
\* was not cut off, the cache is what that one has read: all of it, and of no other.
CacheIsNewest == overruns = 0 /\ Loaders = {} /\ ~torn => cache = newest

\* As long as no load outlasts its lock, no user goes back to an older version, wherever
\* loads are cut off: no state that was taken back is in force again.
NeverBack == [][overruns' = 0 => \A u \in Users : cache'[u] >= cache[u]]_cacheVars
=============================================================================
