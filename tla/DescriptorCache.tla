-------------------------- MODULE DescriptorCache --------------------------
(***************************************************************************)
(* The blob descriptor caches in front of the links of the repositories    *)
(* and of the blob data: the cachedBlobStatter with the in-memory provider *)
(* or with redis, which several registries share and which outlives them.  *)
(* One blob; processes stat it, push it, mount it and delete it.           *)
(***************************************************************************)
EXTENDS Naturals, FiniteSets

CONSTANTS CacheRepos, Procs, CacheKinds, MaxOps, MaxCacheFaults

ASSUME CacheAssumption == CacheRepos # {}

\* link, data: the storage.  member, hash: the entry of each repository (for redis a set and a
\* hash, in memory one key, member); global: the descriptor of the blob for all repositories.
\* op: what each process does.  linked: repositories the blob was ever linked in.  raced: the
\* last delete in the repository overlapped another operation there.
VARIABLES cacheKind, link, data, member, hash, global, op, linked, raced, collected, opsLeft, cacheFaults
cacheVars == <<cacheKind, link, data, member, hash, global, op, linked, raced, collected, opsLeft, cacheFaults>>
storage == <<link, data, linked>>
entries == <<member, hash, global>>
ghosts == <<raced, collected, opsLeft>>

\* miss: the cache said ErrBlobUnknown, so that the descriptor is to be set.  alone: no other
\* operation of the repository overlapped this one.  calm: no fault happened during it.
IdleOp == [what |-> "none", repo |-> CHOOSE r \in CacheRepos : TRUE, to |-> CHOOSE r \in CacheRepos : TRUE,
           at |-> "idle", miss |-> FALSE, alone |-> TRUE, calm |-> TRUE, had |-> FALSE]
Active(q, r) == op[q].at \notin {"idle", "present", "unknown", "deleted", "done"} /\ op[q].repo = r

CacheInit ==
    /\ cacheKind \in CacheKinds
    /\ link = [r \in CacheRepos |-> FALSE] /\ data = FALSE
    /\ member = [r \in CacheRepos |-> FALSE] /\ hash = [r \in CacheRepos |-> FALSE] /\ global = FALSE
    /\ op = [p \in Procs |-> IdleOp]
    /\ linked = {} /\ raced = [r \in CacheRepos |-> FALSE] /\ collected = FALSE
    /\ opsLeft = MaxOps /\ cacheFaults = MaxCacheFaults

CacheBegin(p, what, r, to) ==
    /\ op[p].at \in {"idle", "present", "unknown", "deleted", "done"} /\ opsLeft > 0
    /\ opsLeft' = opsLeft - 1
    /\ op' = [q \in Procs |->
                 IF q = p THEN [IdleOp EXCEPT !.what = what, !.repo = r, !.to = to,
                                              !.at = IF what = "push" THEN "store" ELSE "cache",
                                              !.had = link[r] /\ data,
                                              !.alone = \A x \in Procs \ {p} : ~Active(x, r)]
                 ELSE IF op[q].repo = r THEN [op[q] EXCEPT !.alone = FALSE] ELSE op[q]]
    /\ UNCHANGED <<cacheKind, storage, entries, raced, collected, cacheFaults>>

OpAt(p, at) == op[p].at = at
OpGoes(p, at) == op' = [op EXCEPT ![p].at = at]
OnlyOp == UNCHANGED <<cacheKind, storage, entries, ghosts, cacheFaults>>

\* What follows the answer of Stat.
Statted(p) == CASE op[p].what = "delete" -> "clear" [] op[p].what = "mount" -> "link" [] OTHER -> "present"

-----------------------------------------------------------------------------
\* A wrong scoped Stat that does not look for the repository's entry.
CacheStat_Unscoped(p) ==
    /\ OpAt(p, "cache")
    /\ IF global THEN OpGoes(p, Statted(p)) ELSE op' = [op EXCEPT ![p].at = "backend", ![p].miss = TRUE]
    /\ OnlyOp

\* The repository scoped Stat: redis asks for the member, the descriptor and the media type one
\* after the other; memory has one key.
CacheStat(p) ==
    /\ OpAt(p, "cache")
    /\ IF ~member[op[p].repo] THEN op' = [op EXCEPT ![p].at = "backend", ![p].miss = TRUE]
       ELSE OpGoes(p, IF cacheKind = "redis" THEN "cacheGlobal" ELSE Statted(p))
    /\ OnlyOp
RedisStatGlobal(p) ==
    /\ OpAt(p, "cacheGlobal")
    /\ IF global THEN OpGoes(p, "cacheHash") ELSE op' = [op EXCEPT ![p].at = "backend", ![p].miss = TRUE]
    /\ OnlyOp
RedisStatHash(p) ==
    /\ OpAt(p, "cacheHash")
    /\ IF hash[op[p].repo] THEN OpGoes(p, Statted(p)) ELSE op' = [op EXCEPT ![p].at = "backend", ![p].miss = TRUE]
    /\ OnlyOp

\* A call of redis fails: Stat goes on to the backend and sets nothing, SetDescriptor ends with
\* what it has set, Clear fails the delete.
CacheFails(p) ==
    /\ cacheKind = "redis" /\ cacheFaults > 0
    /\ op[p].at \in {"cache", "cacheGlobal", "cacheHash", "setMember", "setGlobal", "setHash", "clear"}
    /\ op' = [op EXCEPT ![p].calm = FALSE,
                        ![p].at = CASE op[p].at \in {"cache", "cacheGlobal", "cacheHash"} -> "backend"
                                    [] op[p].at = "clear" -> "done"
                                    [] OTHER -> Statted(p)]
    /\ cacheFaults' = cacheFaults - 1
    /\ UNCHANGED <<cacheKind, storage, entries, ghosts>>

\* An entry is evicted: any one of redis (allkeys-lru), any one of the in-memory ARC.
Evict ==
    /\ cacheFaults > 0 /\ cacheFaults' = cacheFaults - 1
    /\ op' = [q \in Procs |-> [op[q] EXCEPT !.calm = FALSE]]
    /\ \/ global /\ global' = FALSE /\ UNCHANGED <<member, hash>>
       \/ \E r \in CacheRepos : member[r] /\ member' = [member EXCEPT ![r] = FALSE] /\ UNCHANGED <<hash, global>>
       \/ \E r \in CacheRepos : hash[r] /\ hash' = [hash EXCEPT ![r] = FALSE] /\ UNCHANGED <<member, global>>
    /\ UNCHANGED <<cacheKind, storage, ghosts>>

\* linkedBlobStatter.Stat: the link, then the statter of the blob store, which is cached too.
StatLink(p) ==
    /\ OpAt(p, "backend")
    /\ OpGoes(p, IF ~link[op[p].repo] THEN "unknown" ELSE IF global THEN "filled" ELSE "data")
    /\ OnlyOp
StatData(p) ==
    /\ OpAt(p, "data")
    /\ IF ~data THEN OpGoes(p, "unknown") /\ UNCHANGED global
       ELSE OpGoes(p, "filled") /\ global' = TRUE
    /\ UNCHANGED <<cacheKind, storage, member, hash, ghosts, cacheFaults>>

StatFilled(p) ==
    /\ OpAt(p, "filled")
    /\ OpGoes(p, IF op[p].miss THEN "setMember" ELSE Statted(p))
    /\ OnlyOp

\* The scoped SetDescriptor: member, descriptor, and for redis the media type.
SetMember(p) ==
    /\ OpAt(p, "setMember")
    /\ member' = [member EXCEPT ![op[p].repo] = TRUE] /\ OpGoes(p, "setGlobal")
    /\ UNCHANGED <<cacheKind, storage, hash, global, ghosts, cacheFaults>>
SetGlobal(p) ==
    /\ OpAt(p, "setGlobal")
    /\ global' = TRUE /\ OpGoes(p, IF cacheKind = "redis" THEN "setHash" ELSE Statted(p))
    /\ UNCHANGED <<cacheKind, storage, member, hash, ghosts, cacheFaults>>
SetHash(p) ==
    /\ OpAt(p, "setHash")
    /\ hash' = [hash EXCEPT ![op[p].repo] = TRUE] /\ OpGoes(p, Statted(p))
    /\ UNCHANGED <<cacheKind, storage, member, global, ghosts, cacheFaults>>

\* A wrong Clear that leaves the repository's entry.
Clear_BackendOnly(p) == OpAt(p, "clear") /\ OpGoes(p, "unlink") /\ OnlyOp

\* Clear of cachedBlobStatter: the cache first.  Redis answers ErrBlobUnknown when the
\* repository has no entry, and otherwise removes all three keys in a transaction.
Clear(p) ==
    /\ OpAt(p, "clear")
    /\ LET r == op[p].repo
       IN IF cacheKind = "redis" /\ ~member[r] THEN OpGoes(p, "unknown") /\ UNCHANGED entries
          ELSE /\ member' = [member EXCEPT ![r] = FALSE]
               /\ IF cacheKind = "redis" THEN hash' = [hash EXCEPT ![r] = FALSE] /\ global' = FALSE
                  ELSE UNCHANGED <<hash, global>>
               /\ OpGoes(p, "unlink")
    /\ UNCHANGED <<cacheKind, storage, ghosts, cacheFaults>>
Unlink(p) ==
    /\ OpAt(p, "unlink")
    /\ LET r == op[p].repo
       IN /\ OpGoes(p, IF link[r] THEN "deleted" ELSE "unknown")
          /\ link' = [link EXCEPT ![r] = FALSE]
          /\ raced' = [raced EXCEPT ![r] = ~op[p].alone]
    /\ UNCHANGED <<cacheKind, data, linked, entries, collected, opsLeft, cacheFaults>>

\* mount: the link in the other repository, and no descriptor.
MountLink(p) ==
    /\ OpAt(p, "link")
    /\ link' = [link EXCEPT ![op[p].to] = TRUE] /\ linked' = linked \cup {op[p].to}
    /\ OpGoes(p, "done")
    /\ UNCHANGED <<cacheKind, data, entries, ghosts, cacheFaults>>

\* Commit of an upload: data, link, descriptor.
PushData(p) ==
    /\ OpAt(p, "store") /\ data' = TRUE /\ OpGoes(p, "linking")
    /\ UNCHANGED <<cacheKind, link, linked, entries, ghosts, cacheFaults>>
PushLink(p) ==
    /\ OpAt(p, "linking")
    /\ link' = [link EXCEPT ![op[p].repo] = TRUE] /\ linked' = linked \cup {op[p].repo}
    /\ OpGoes(p, "setMember")
    /\ UNCHANGED <<cacheKind, data, entries, ghosts, cacheFaults>>

\* The garbage collector removes the data and the links of a blob no manifest needs, with the
\* registries stopped: what they had in memory is gone, redis is not told.
CollectGarbage ==
    /\ \A p \in Procs : op[p].at \in {"idle", "present", "unknown", "deleted", "done"}
    /\ data /\ data' = FALSE /\ link' = [r \in CacheRepos |-> FALSE]
    /\ collected' = TRUE
    /\ IF cacheKind = "redis" THEN UNCHANGED entries
       ELSE member' = [r \in CacheRepos |-> FALSE] /\ global' = FALSE /\ UNCHANGED hash
    /\ op' = [p \in Procs |-> IdleOp]
    /\ UNCHANGED <<cacheKind, linked, raced, opsLeft, cacheFaults>>

CacheStep(p) ==
    \/ CacheStat(p) \/ RedisStatGlobal(p) \/ RedisStatHash(p) \/ CacheFails(p)
    \/ StatLink(p) \/ StatData(p) \/ StatFilled(p) \/ SetMember(p) \/ SetGlobal(p) \/ SetHash(p)
    \/ Clear(p) \/ Unlink(p) \/ MountLink(p) \/ PushData(p) \/ PushLink(p)

CacheNext ==
    \/ \E p \in Procs, r \in CacheRepos : CacheStep(p) \/ \E what \in {"stat", "push", "delete"} : CacheBegin(p, what, r, r)
    \/ \E p \in Procs, r, to \in CacheRepos : r # to /\ CacheBegin(p, "mount", r, to)
    \/ Evict \/ CollectGarbage

CacheSpec == CacheInit /\ [][CacheNext]_cacheVars

-----------------------------------------------------------------------------
\* A blob is answered as present in a repository only if it was linked there: the descriptor all
\* repositories share never makes it visible in another one (repositoryScopedRedisBlobDescriptorService
\* and repositoryScopedInMemoryBlobDescriptorCache).
ScopedToRepository == \A p \in Procs : op[p].at = "present" => op[p].repo \in linked

Hit(r) == member[r] /\ (cacheKind = "redis" => global /\ hash[r])
\* A delete that no other operation of the repository overlapped leaves no entry behind that
\* would answer for the blob, whatever was evicted or failed; a stale hit needs a Stat or a push
\* that overlapped the delete, or a garbage collection that redis outlived.
StaleOnlyIfRaced ==
    \A r \in CacheRepos : Hit(r) => link[r] \/ raced[r] \/ (collected /\ cacheKind = "redis")

\* A blob answered as present has its data, unless redis outlived a garbage collection.
PresentHasData ==
    \A p \in Procs : op[p].at = "present" => data \/ (collected /\ cacheKind = "redis")

\* A delete of a blob that was there, with no other operation of the repository, no failed call
\* of the cache and no eviction meanwhile, is never answered with ErrBlobUnknown: the Stat that
\* goes first enters the blob that Clear of redis looks for.
DeleteAnswered ==
    \A p \in Procs :
        op[p].what = "delete" /\ op[p].at = "unknown" => ~(op[p].had /\ op[p].alone /\ op[p].calm)

\* A blob answered as present is there: in this repository, and with its data (Stat of
\* cachedBlobStatter over either cache).
PresentTrue == ScopedToRepository /\ PresentHasData

\* A delete does what it says: the blob that was there is deleted, and no entry of the cache
\* brings it back (linkedBlobStore.Delete, Clear of both caches).
DeleteEffective == StaleOnlyIfRaced /\ DeleteAnswered
=============================================================================
