----------------------------- MODULE RepoCache -----------------------------
(***************************************************************************)
(* The caches of storage/scenario_repo.go and storage/prompt_repo.go: one  *)
(* process keeps the table in memory, its readers (the webhook handler,    *)
(* the workers and the Web UI) load it when version has moved past loaded, *)
(* its editors (the Web UI) write the table and then move version.  The    *)
(* two repositories run the same protocol on a table each.                 *)
(*                                                                         *)
(* The contents of the table are counted: edition n is what the n-th write *)
(* left behind, 0 stands for nothing loaded yet.  Other replicas share the *)
(* table and not this cache.                                               *)
(*                                                                         *)
(* The two atomic loads of ensureLoaded are one step: loaded is read first,*)
(* never passes version and both only grow, so the pair reads equal exactly*)
(* when the two were equal at the first load.                              *)
(***************************************************************************)
EXTENDS Naturals

CONSTANTS
    Readers,        \* goroutines that call Match, FindByName, Get or GetAll
    Editors,        \* goroutines that call Create, Update, Delete or Set
    MaxEditions,    \* bound: contents the table goes through
    MaxErrors,      \* bound: database errors
    NoOne           \* nobody holds the mutex

ASSUME RepoConstants ==
    /\ MaxEditions \in Nat \ {0} /\ MaxErrors \in Nat
    /\ NoOne \notin Readers

VARIABLES
    db,         \* edition in the table
    version, loaded, cache, mu,
    pc,         \* a reader is at "idle", "lock", "find", "store" or "read"
    found,      \* the edition its query returned
    failed,     \* its query failed
    wrote,      \* the edition an editor has written and not yet announced
    errors,
    \* history:
    settled,    \* newest edition of an edit of this process that has returned
    needs,      \* settled when the reader's current call began
    at,         \* version when its query ran
    raced       \* version moved between query and store of the last load

repo    == <<version, loaded, cache, mu>>
reader  == <<pc, found, failed, needs, at>>
cacheVars == <<db, repo, reader, wrote, errors, settled, raced>>

Editions == 0..MaxEditions

TypeOK ==
    /\ db \in Editions \ {0}
    /\ version \in Nat /\ loaded \in Nat /\ loaded <= version
    /\ cache \in Editions
    /\ pc \in [Readers -> {"idle", "lock", "find", "store", "read"}]
    /\ mu \in Readers \union {NoOne}
    /\ \A r \in Readers : (mu = r) = (pc[r] \in {"find", "store"})
    /\ found \in [Readers -> Editions]
    /\ failed \in [Readers -> BOOLEAN]
    /\ wrote \in [Editors -> Editions]
    /\ errors \in 0..MaxErrors
    /\ settled \in Editions
    /\ needs \in [Readers -> Editions]
    /\ at \in [Readers -> Nat]
    /\ raced \in BOOLEAN

CacheInit ==
    /\ db = 1                           \* what Seed or an earlier run left
    /\ version = 1 /\ loaded = 0 /\ cache = 0
    /\ mu = NoOne
    /\ pc = [r \in Readers |-> "idle"]
    /\ found = [r \in Readers |-> 0]
    /\ failed = [r \in Readers |-> FALSE]
    /\ wrote = [e \in Editors |-> 0]
    /\ errors = 0
    /\ settled = 0
    /\ needs = [r \in Readers |-> 0]
    /\ at = [r \in Readers |-> 0]
    /\ raced = FALSE

QueryError == errors < MaxErrors /\ errors' = errors + 1

----------------------------------------------------------------------------
(* Readers.                                                                *)

Fresh == loaded = version

\* A call begins: without the mutex, is the cache up to date?
Call(r) ==
    /\ pc[r] = "idle"
    /\ pc' = [pc EXCEPT ![r] = IF Fresh THEN "read" ELSE "lock"]
    /\ needs' = [needs EXCEPT ![r] = settled]
    /\ failed' = [failed EXCEPT ![r] = FALSE]
    /\ UNCHANGED <<db, repo, found, at, wrote, errors, settled, raced>>

\* (FreeToAll, KeepsLock and NotAnnounced are variants no action uses: each is
\* what an easy mistake would make of the definition it precedes.)
\* It locks mu and looks again: another reader may have loaded meanwhile.
FreeToAll == TRUE
Free == mu = NoOne
Lock(r) ==
    /\ pc[r] = "lock" /\ Free
    /\ \/ /\ Fresh
          /\ pc' = [pc EXCEPT ![r] = "read"] /\ UNCHANGED mu
       \/ /\ ~Fresh
          /\ pc' = [pc EXCEPT ![r] = "find"] /\ mu' = r
    /\ UNCHANGED <<db, version, loaded, cache, found, failed, needs, at, wrote,
                   errors, settled, raced>>

\* One SELECT reads the whole table; its error is logged, the mutex released
\* and the old cache served.
KeepsLock == UNCHANGED mu
Unlock == mu' = NoOne
FindFails(r) ==
    /\ pc[r] = "find"
    /\ QueryError
    /\ failed' = [failed EXCEPT ![r] = TRUE]
    /\ pc' = [pc EXCEPT ![r] = "read"]
    /\ Unlock
    /\ UNCHANGED <<db, version, loaded, cache, found, needs, at, wrote,
                   settled, raced>>

Find(r) ==
    /\ pc[r] = "find"
    /\ found' = [found EXCEPT ![r] = db]
    /\ at' = [at EXCEPT ![r] = version]
    /\ pc' = [pc EXCEPT ![r] = "store"]
    /\ UNCHANGED <<db, repo, failed, needs, wrote, errors, settled, raced>>

\* It takes the version of this moment, not that of its query.
Store(r) ==
    /\ pc[r] = "store"
    /\ cache' = found[r]
    /\ loaded' = version
    /\ raced' = (version # at[r])
    /\ mu' = NoOne
    /\ pc' = [pc EXCEPT ![r] = "read"]
    /\ UNCHANGED <<db, version, found, failed, needs, at, wrote, errors,
                   settled>>

\* Under the read lock it looks the answer up in the cache.
Read(r) ==
    /\ pc[r] = "read" /\ mu = NoOne
    /\ pc' = [pc EXCEPT ![r] = "idle"]
    /\ UNCHANGED <<db, repo, found, failed, needs, at, wrote, errors,
                   settled, raced>>

----------------------------------------------------------------------------
(* Editors.                                                                *)

\* Create, Save, Delete or the upsert of a prompt commits.
Write(e) ==
    /\ wrote[e] = 0 /\ db < MaxEditions
    /\ db' = db + 1
    /\ wrote' = [wrote EXCEPT ![e] = db + 1]
    /\ UNCHANGED <<repo, reader, errors, settled, raced>>

\* Or it fails: the editor is told so and the version stays, although the
\* statement may have been carried out before the connection broke.
WriteFails(e) ==
    /\ wrote[e] = 0 /\ QueryError
    /\ db' \in {db, db + 1} \intersect Editions
    /\ UNCHANGED <<repo, reader, wrote, settled, raced>>

\* Invalidate, and the edit returns.
Newer(a, b) == IF a >= b THEN a ELSE b

NotAnnounced == version
Announced == version + 1
Invalidate(e) ==
    /\ wrote[e] # 0
    /\ version' = Announced
    /\ settled' = Newer(settled, wrote[e])
    /\ wrote' = [wrote EXCEPT ![e] = 0]
    /\ UNCHANGED <<db, loaded, cache, mu, reader, errors, raced>>

\* Another replica edits the shared table.
OtherReplica ==
    /\ db < MaxEditions
    /\ db' = db + 1
    /\ UNCHANGED <<repo, reader, wrote, errors, settled, raced>>

Load(r) == FindFails(r) \/ Find(r) \/ Store(r)

CacheNext ==
    \/ \E r \in Readers : Call(r) \/ Lock(r) \/ Load(r) \/ Read(r)
    \/ \E e \in Editors : Write(e) \/ WriteFails(e) \/ Invalidate(e)
    \/ OtherReplica

\* A goroutine that can run runs; sync.RWMutex lets nobody wait for ever.
Fairness ==
    \A r \in Readers :
        /\ WF_cacheVars(Load(r))
        /\ SF_cacheVars(Lock(r)) /\ SF_cacheVars(Read(r))

CacheSpec == CacheInit /\ [][CacheNext]_cacheVars /\ Fairness

----------------------------------------------------------------------------
(* Properties.                                                             *)

\* A call that begins after an edit of this process has returned answers with
\* that edit or a newer one, unless its own query failed or the last load
\* raced with an edit.  The check without the mutex, the second check under
\* it, the order of write and Invalidate and the silent failure of a load all
\* bear on it.
ReadYourEdits ==
    \A r \in Readers :
        pc[r] = "read" /\ ~failed[r] /\ ~raced => cache >= needs[r]

\* The cache never returns to older contents: loads that overlap must not
\* store their results in the wrong order.
NeverBackwards == [][cache' >= cache]_cacheVars

\* Every call returns: whatever happens to its load, the mutex is released.
ReadEnds == \A r \in Readers : (pc[r] # "idle") ~> (pc[r] = "idle")
============================================================================
