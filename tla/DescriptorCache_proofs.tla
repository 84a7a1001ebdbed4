----------------------- MODULE DescriptorCache_proofs -----------------------
(***************************************************************************)
(* Proofs about the descriptor caches, for any number of processes,        *)
(* repositories and faults.                                                *)
(***************************************************************************)
EXTENDS DescriptorCache, TLAPS

Ats == {"idle", "cache", "cacheGlobal", "cacheHash", "backend", "data", "filled", "setMember",
        "setGlobal", "setHash", "clear", "unlink", "link", "store", "linking", "present",
        "unknown", "deleted", "done"}
Whats == {"none", "stat", "push", "delete", "mount"}
OpRecord == [what : Whats, repo : CacheRepos, to : CacheRepos, at : Ats,
             miss : BOOLEAN, alone : BOOLEAN, calm : BOOLEAN, had : BOOLEAN]

CacheTypes ==
    /\ link \in [CacheRepos -> BOOLEAN]
    /\ member \in [CacheRepos -> BOOLEAN]
    /\ hash \in [CacheRepos -> BOOLEAN]
    /\ global \in BOOLEAN /\ data \in BOOLEAN /\ collected \in BOOLEAN
    /\ op \in [Procs -> OpRecord]

\* Steps that follow a look at the link of the repository or at its entry in the cache, the
\* answer of Stat and the steps after it included.
Seen == {"cacheGlobal", "cacheHash", "data", "filled", "setMember", "setGlobal", "setHash",
         "present", "clear", "link"}

\* The data is there, or redis outlived the garbage collection that removed it.
Excused == data \/ (collected /\ cacheKind = "redis")

(***************************************************************************)
(* Links and entries of a repository are only made after the blob was      *)
(* linked there, and only for data that was stored; an operation that has  *)
(* seen one of them knows the same.                                        *)
(***************************************************************************)
CacheInv ==
    /\ CacheTypes
    /\ \A r \in CacheRepos : link[r] \/ member[r] => r \in linked /\ Excused
    /\ global => Excused
    /\ \A p \in Procs : /\ op[p].at \in Seen => op[p].repo \in linked
                        /\ op[p].at \in (Seen \ {"data"}) \cup {"linking"} => Excused
-----------------------------------------------------------------------------
LEMMA IdleOpType == IdleOp \in OpRecord
  BY CacheAssumption DEF IdleOp, OpRecord, Ats, Whats

\* A step that moves one operation on keeps the others, and its own repository.
Moved(p, to) ==
    /\ op' \in [Procs -> OpRecord]
    /\ \A q \in Procs : op'[q].repo = op[q].repo /\ op'[q].at = IF q = p THEN to ELSE op[q].at

LEMMA OpMoved ==
  ASSUME op \in [Procs -> OpRecord], NEW p \in Procs, NEW to \in Ats, NEW b \in BOOLEAN,
         \/ op' = [op EXCEPT ![p].at = to]
         \/ op' = [op EXCEPT ![p].at = to, ![p].miss = b]
         \/ op' = [op EXCEPT ![p].calm = b, ![p].at = to]
  PROVE  Moved(p, to)
<1>0. op[p] \in OpRecord
  OBVIOUS
<1>1. ASSUME NEW n \in OpRecord, op' = [op EXCEPT ![p] = n], n.at = to, n.repo = op[p].repo
      PROVE  Moved(p, to)
  BY <1>1 DEF Moved
<1>2. CASE op' = [op EXCEPT ![p].at = to]
  <2> DEFINE n == [op[p] EXCEPT !.at = to]
  <2>1. op' = [op EXCEPT ![p] = n]
    BY <1>2
  <2>2. n \in OpRecord
    BY <1>0 DEF OpRecord
  <2>3. n.at = to /\ n.repo = op[p].repo
    BY <1>0 DEF OpRecord
  <2> HIDE DEF n
  <2>4. QED
    BY <1>1, <2>1, <2>2, <2>3, ZenonT(30)
<1>3. CASE op' = [op EXCEPT ![p].at = to, ![p].miss = b]
  <2> DEFINE n == [[op[p] EXCEPT !.at = to] EXCEPT !.miss = b]
  <2>1. op' = [op EXCEPT ![p] = n]
    BY <1>3, ZenonT(30)
  <2>2. n \in OpRecord
    BY <1>0, ZenonT(30) DEF OpRecord
  <2>3. n.at = to /\ n.repo = op[p].repo
    BY <1>0 DEF OpRecord
  <2> HIDE DEF n
  <2>4. QED
    BY <1>1, <2>1, <2>2, <2>3, ZenonT(30)
<1>4. CASE op' = [op EXCEPT ![p].calm = b, ![p].at = to]
  <2> DEFINE n == [[op[p] EXCEPT !.calm = b] EXCEPT !.at = to]
  <2>1. op' = [op EXCEPT ![p] = n]
    BY <1>4, ZenonT(30)
  <2>2. n \in OpRecord
    BY <1>0, ZenonT(30) DEF OpRecord
  <2>3. n.at = to /\ n.repo = op[p].repo
    BY <1>0 DEF OpRecord
  <2> HIDE DEF n
  <2>4. QED
    BY <1>1, <2>1, <2>2, <2>3, ZenonT(30)
<1>5. QED
  BY <1>2, <1>3, <1>4

LEMMA StattedType ==
  ASSUME NEW p \in Procs
  PROVE  Statted(p) \in {"clear", "link", "present"}
  BY DEF Statted

LEMMA CacheInvInit == CacheInit => CacheInv
<1> SUFFICES ASSUME CacheInit PROVE CacheInv
  OBVIOUS
<1>1. CacheTypes
  BY IdleOpType, ZenonT(30) DEF CacheInit, CacheTypes
<1>2. \A p \in Procs : op[p].at = "idle"
  BY DEF CacheInit, IdleOp
<1>3. ~global /\ \A r \in CacheRepos : ~link[r] /\ ~member[r]
  BY DEF CacheInit
<1>4. QED
  BY <1>1, <1>2, <1>3 DEF CacheInv, Seen

\* A step that only moves an operation on to where it may be.
LEMMA OpMoves ==
  ASSUME CacheInv, NEW p \in Procs, NEW to \in {"clear", "link", "present", "filled", "setMember",
           "setGlobal", "setHash", "cacheGlobal", "cacheHash", "data", "backend", "unknown",
           "deleted", "done", "unlink", "linking"},
         NEW b \in BOOLEAN,
         op' = [op EXCEPT ![p].at = to, ![p].miss = b] \/ op' = [op EXCEPT ![p].at = to],
         to \in Seen => op[p].repo \in linked,
         to \in (Seen \ {"data"}) \cup {"linking"} => Excused,
         UNCHANGED <<cacheKind, storage, entries, collected>>
  PROVE  CacheInv'
<1> USE DEF CacheInv, storage, entries
<1>0. op \in [Procs -> OpRecord] /\ to \in Ats
  BY DEF CacheTypes, Ats
<1>m. Moved(p, to)
  BY <1>0, OpMoved, ZenonT(30)
<1>1. op' \in [Procs -> OpRecord]
  BY <1>m DEF Moved
<1>2. \A q \in Procs : op'[q].repo = op[q].repo /\ op'[q].at = IF q = p THEN to ELSE op[q].at
  BY <1>m DEF Moved
<1>3. CacheTypes' /\ Excused' = Excused
  BY <1>1 DEF CacheTypes, Excused
<1>4. QED
  BY <1>2, <1>3

\* Steps that write: what is written is known to be true of the repository.
LEMMA CacheWrites ==
  ASSUME CacheInv, NEW p \in Procs, StatData(p) \/ SetMember(p) \/ SetGlobal(p) \/ SetHash(p)
  PROVE  CacheInv'
<1> USE DEF storage, ghosts, OpAt, OpGoes
<1>a. Excused' = Excused
  BY DEF StatData, SetMember, SetGlobal, SetHash, Excused
<1>b. Statted(p) \in {"clear", "link", "present"}
  BY StattedType
<1>1. PICK to \in {"unknown", "filled", "setGlobal", "setHash", "clear", "link", "present"} :
        /\ op' = [op EXCEPT ![p].at = to]
        /\ StatData(p) => to = IF data THEN "filled" ELSE "unknown"
        /\ ~StatData(p) => to \in Seen \ {"data"}
  <2>1. CASE StatData(p)
    BY <2>1 DEF StatData
  <2>2. CASE SetMember(p)
    BY <2>2 DEF SetMember, Seen, StatData
  <2>3. CASE SetGlobal(p)
    BY <1>b, <2>3, ZenonT(30) DEF SetGlobal, Seen, StatData
  <2>4. CASE SetHash(p)
    BY <1>b, <2>4, ZenonT(30) DEF SetHash, Seen, StatData
  <2>5. QED
    BY <2>1, <2>2, <2>3, <2>4
<1>2. to \in Ats /\ op \in [Procs -> OpRecord]
  BY DEF Ats, CacheInv, CacheTypes
<1>m. Moved(p, to)
  BY <1>1, <1>2, OpMoved, ZenonT(30)
<1>3. op' \in [Procs -> OpRecord]
  BY <1>m DEF Moved
<1>4. \A q \in Procs : op'[q].repo = op[q].repo /\ op'[q].at = IF q = p THEN to ELSE op[q].at
  BY <1>m DEF Moved
<1>5. global' \in BOOLEAN /\ UNCHANGED <<link, linked, data, collected>>
  BY ZenonT(30) DEF StatData, SetMember, SetGlobal, SetHash, CacheInv, CacheTypes
<1>6. member' \in [CacheRepos -> BOOLEAN] /\ hash' \in [CacheRepos -> BOOLEAN]
  BY ZenonT(30) DEF StatData, SetMember, SetGlobal, SetHash, CacheInv, CacheTypes
<1>7. CacheTypes'
  BY <1>3, <1>5, <1>6 DEF CacheInv, CacheTypes
<1>8. op[p].repo \in linked
  BY DEF StatData, SetMember, SetGlobal, SetHash, Seen, CacheInv
<1>9. CASE StatData(p)
  <2>1. data => Excused
    BY DEF Excused
  <2>2. (global' => Excused) /\ UNCHANGED member
    BY <1>9, <2>1 DEF StatData, CacheInv
  <2>3. QED
    BY <1>a, <1>1, <1>4, <1>5, <1>7, <1>8, <1>9, <2>1, <2>2 DEF CacheInv, Seen
<1>10. CASE ~StatData(p)
  <2>1. Excused
    BY <1>10 DEF SetMember, SetGlobal, SetHash, Seen, CacheInv
  <2>2. \A r \in CacheRepos : member'[r] => member[r] \/ r = op[p].repo
    BY <1>10 DEF SetMember, SetGlobal, SetHash, CacheInv, CacheTypes
  <2>3. QED
    BY <1>a, <1>1, <1>4, <1>5, <1>7, <1>8, <1>10, <2>1, <2>2 DEF CacheInv
<1>11. QED
  BY <1>9, <1>10

\* Steps that only look.
LEMMA CacheLooks ==
  ASSUME CacheInv, NEW p \in Procs,
         CacheStat(p) \/ RedisStatGlobal(p) \/ RedisStatHash(p) \/ StatLink(p) \/ StatFilled(p)
  PROVE  CacheInv'
<1> USE DEF OnlyOp, OpAt, OpGoes, ghosts
<1>a. Statted(p) \in {"clear", "link", "present"}
  BY StattedType
<1>b. op[p].repo \in CacheRepos
  BY DEF CacheInv, CacheTypes, OpRecord
<1>1. CASE CacheStat(p)
  <2>1. CASE ~member[op[p].repo]
    BY <1>1, <2>1, OpMoves, ZenonT(30) DEF CacheStat, Seen
  <2>2. CASE member[op[p].repo]
    <3>1. op[p].repo \in linked /\ Excused
      BY <1>b, <2>2 DEF CacheInv
    <3>2. QED
      BY <1>1, <1>a, <2>2, <3>1, OpMoves, ZenonT(30) DEF CacheStat
  <2>3. QED
    BY <2>1, <2>2
<1>2. CASE RedisStatGlobal(p) \/ RedisStatHash(p) \/ StatFilled(p)
  <2>1. op[p].repo \in linked /\ Excused
    BY <1>2 DEF RedisStatGlobal, RedisStatHash, StatFilled, CacheInv, Seen
  <2>2. QED
    BY <1>2, <1>a, <2>1, OpMoves, ZenonT(30) DEF RedisStatGlobal, RedisStatHash, StatFilled
<1>3. CASE StatLink(p)
  <2>1. CASE ~link[op[p].repo]
    BY <1>3, <2>1, OpMoves, ZenonT(30) DEF StatLink, Seen
  <2>2. CASE link[op[p].repo]
    <3>1. op[p].repo \in linked /\ Excused
      BY <1>b, <2>2 DEF CacheInv
    <3>2. QED
      BY <1>3, <2>2, <3>1, OpMoves, ZenonT(30) DEF StatLink
  <2>3. QED
    BY <2>1, <2>2
<1>4. QED
  BY <1>1, <1>2, <1>3

\* Failed calls of the cache and lost entries leave less behind.
LEMMA CacheLoses ==
  ASSUME CacheInv, Evict \/ (\E p \in Procs : CacheFails(p) \/ Clear(p))
  PROVE  CacheInv'
<1>1. CASE Evict
  <2>1. \A q \in Procs : op'[q] = [op[q] EXCEPT !.calm = FALSE]
    BY <1>1 DEF Evict
  <2>2. op' \in [Procs -> OpRecord] /\ \A q \in Procs : op'[q].at = op[q].at /\ op'[q].repo = op[q].repo
    <3>1. ASSUME NEW q \in Procs
          PROVE  op'[q] \in OpRecord /\ op'[q].at = op[q].at /\ op'[q].repo = op[q].repo
      <4>1. op[q] \in OpRecord
        BY DEF CacheInv, CacheTypes
      <4>2. [op[q] EXCEPT !.calm = FALSE] \in OpRecord
        BY <4>1, ZenonT(30) DEF OpRecord
      <4>3. [op[q] EXCEPT !.calm = FALSE].at = op[q].at /\ [op[q] EXCEPT !.calm = FALSE].repo = op[q].repo
        BY <4>1 DEF OpRecord
      <4>4. QED
        BY <2>1, <4>2, <4>3, ZenonT(30)
    <3>2. op' = [q \in Procs |-> op'[q]]
      BY <1>1 DEF Evict
    <3>3. QED
      BY <3>1, <3>2
  <2>3. CacheTypes'
    BY <1>1, <2>2, ZenonT(30) DEF Evict, CacheInv, CacheTypes, storage, ghosts
  <2>4. /\ \A r \in CacheRepos : member'[r] => member[r]
        /\ global' => global
        /\ UNCHANGED <<link, linked, data, collected, cacheKind>>
    BY <1>1 DEF Evict, CacheInv, CacheTypes, storage, ghosts
  <2>5. QED
    BY <2>2, <2>3, <2>4 DEF CacheInv, Excused
<1>2. ASSUME NEW p \in Procs, CacheFails(p) PROVE CacheInv'
  <2> USE <1>2 DEF CacheFails
  <2>a. Statted(p) \in {"clear", "link", "present"}
    BY StattedType
  <2>1. PICK to \in {"backend", "done", "clear", "link", "present"} :
           op' = [op EXCEPT ![p].calm = FALSE, ![p].at = to] /\ (to \in Seen => op[p].at \in Seen \ {"data"})
    BY <2>a, ZenonT(30) DEF Seen
  <2>b. to \in Ats /\ op \in [Procs -> OpRecord] /\ FALSE \in BOOLEAN
    BY DEF Ats, CacheInv, CacheTypes
  <2>m. Moved(p, to)
    BY <2>1, <2>b, OpMoved, ZenonT(30)
  <2>2. op' \in [Procs -> OpRecord]
    BY <2>m DEF Moved
  <2>3. \A q \in Procs : op'[q].repo = op[q].repo /\ op'[q].at = IF q = p THEN to ELSE op[q].at
    BY <2>m DEF Moved
  <2>4. to # "linking"
    OBVIOUS
  <2>5. QED
    BY <2>1, <2>2, <2>3, <2>4 DEF CacheInv, CacheTypes, Excused, storage, entries, ghosts
<1>3. ASSUME NEW p \in Procs, Clear(p) PROVE CacheInv'
  <2> USE <1>3 DEF Clear, OpGoes, OpAt
  <2>1. PICK to \in {"unknown", "unlink"} : op' = [op EXCEPT ![p].at = to]
    OBVIOUS
  <2>b. to \in Ats /\ op \in [Procs -> OpRecord] /\ FALSE \in BOOLEAN
    BY DEF Ats, CacheInv, CacheTypes
  <2>m. Moved(p, to)
    BY <2>1, <2>b, OpMoved, ZenonT(30)
  <2>2. op' \in [Procs -> OpRecord]
    BY <2>m DEF Moved
  <2>3. \A q \in Procs : op'[q].repo = op[q].repo /\ op'[q].at = IF q = p THEN to ELSE op[q].at
    BY <2>m DEF Moved
  <2>4. CacheTypes'
    BY <2>2, ZenonT(30) DEF CacheInv, CacheTypes, storage, entries, ghosts
  <2>5. /\ \A r \in CacheRepos : member'[r] => member[r]
        /\ global' => global
        /\ UNCHANGED <<link, linked, data, collected, cacheKind>>
    BY DEF CacheInv, CacheTypes, storage, entries, ghosts
  <2>6. QED
    BY <2>3, <2>4, <2>5 DEF CacheInv, Excused, Seen
<1>4. QED
  BY <1>1, <1>2, <1>3

\* Steps that change links or data.
LEMMA CacheLinks ==
  ASSUME CacheInv, NEW p \in Procs, Unlink(p) \/ MountLink(p) \/ PushData(p) \/ PushLink(p)
  PROVE  CacheInv'
<1> USE DEF OpAt, OpGoes, entries, ghosts
<1>1. PICK to \in {"deleted", "unknown", "done", "linking", "setMember"} : op' = [op EXCEPT ![p].at = to]
  <2>1. CASE Unlink(p)
    BY <2>1, ZenonT(30) DEF Unlink
  <2>2. CASE MountLink(p)
    BY <2>2 DEF MountLink
  <2>3. CASE PushData(p)
    BY <2>3 DEF PushData
  <2>4. CASE PushLink(p)
    BY <2>4 DEF PushLink
  <2>5. QED
    BY <2>1, <2>2, <2>3, <2>4
<1>a. to \in Ats /\ op \in [Procs -> OpRecord]
  BY DEF Ats, CacheInv, CacheTypes
<1>m. Moved(p, to)
  BY <1>1, <1>a, OpMoved, ZenonT(30)
<1>2. op' \in [Procs -> OpRecord]
  BY <1>m DEF Moved
<1>3. \A q \in Procs : op'[q].repo = op[q].repo /\ op'[q].at = IF q = p THEN to ELSE op[q].at
  BY <1>m DEF Moved
<1>4. op[p].repo \in CacheRepos /\ op[p].to \in CacheRepos /\ op[p].at = op[p].at
  BY DEF CacheInv, CacheTypes, OpRecord
<1>5. CASE Unlink(p)
  <2>1. CacheTypes'
    BY <1>2, <1>5, ZenonT(30) DEF Unlink, CacheInv, CacheTypes
  <2>2. \A r \in CacheRepos : link'[r] => link[r]
    BY <1>5 DEF Unlink, CacheInv, CacheTypes
  <2>3. to \in {"deleted", "unknown"}
    <3>1. op'[p].at \in {"deleted", "unknown"}
      BY <1>5 DEF Unlink, CacheInv, CacheTypes, OpRecord
    <3>2. QED
      BY <1>3, <3>1
  <2>4. UNCHANGED <<member, global, linked, data, collected, cacheKind>>
    BY <1>5 DEF Unlink
  <2>5. QED
    BY <1>3, <2>1, <2>2, <2>3, <2>4 DEF CacheInv, Excused, Seen
<1>6. CASE MountLink(p)
  <2>1. CacheTypes'
    BY <1>2, <1>6, ZenonT(30) DEF MountLink, CacheInv, CacheTypes
  <2>2. \A r \in CacheRepos : link'[r] => link[r] \/ r = op[p].to
    BY <1>6 DEF MountLink, CacheInv, CacheTypes
  <2>3. to = "done"
    <3>1. op'[p].at = "done"
      BY <1>6 DEF MountLink, CacheInv, CacheTypes, OpRecord
    <3>2. QED
      BY <1>3, <3>1
  <2>4. UNCHANGED <<member, global, data, collected, cacheKind>> /\ linked' = linked \cup {op[p].to}
    BY <1>6 DEF MountLink
  <2>5. Excused
    BY <1>6 DEF MountLink, CacheInv, Seen
  <2>6. QED
    BY <1>3, <2>1, <2>2, <2>3, <2>4, <2>5 DEF CacheInv, Excused, Seen
<1>7. CASE PushData(p)
  <2>1. CacheTypes'
    BY <1>2, <1>7 DEF PushData, CacheInv, CacheTypes
  <2>2. to = "linking"
    <3>1. op'[p].at = "linking"
      BY <1>7 DEF PushData, CacheInv, CacheTypes, OpRecord
    <3>2. QED
      BY <1>3, <3>1
  <2>3. UNCHANGED <<link, linked, member, global>> /\ Excused'
    BY <1>7 DEF PushData, Excused
  <2>4. QED
    BY <1>3, <2>1, <2>2, <2>3 DEF CacheInv, Seen
<1>8. CASE PushLink(p)
  <2>1. CacheTypes'
    BY <1>2, <1>8, ZenonT(30) DEF PushLink, CacheInv, CacheTypes
  <2>2. \A r \in CacheRepos : link'[r] => link[r] \/ r = op[p].repo
    BY <1>8 DEF PushLink, CacheInv, CacheTypes
  <2>3. UNCHANGED <<member, global, data, collected, cacheKind>> /\ linked' = linked \cup {op[p].repo}
    BY <1>8 DEF PushLink
  <2>4. Excused
    BY <1>8 DEF PushLink, CacheInv
  <2>5. QED
    BY <1>3, <2>1, <2>2, <2>3, <2>4 DEF CacheInv, Excused
<1>9. QED
  BY <1>5, <1>6, <1>7, <1>8

\* A new operation has seen nothing, and a garbage collection ends all of them.
LEMMA CacheBegins ==
  ASSUME CacheInv, NEW p \in Procs, NEW what \in {"stat", "push", "delete", "mount"},
         NEW r \in CacheRepos, NEW to \in CacheRepos, CacheBegin(p, what, r, to)
  PROVE  CacheInv'
<1>1. PICK had \in BOOLEAN, alone \in BOOLEAN, at \in {"store", "cache"} :
        op' = [q \in Procs |->
                 IF q = p THEN [IdleOp EXCEPT !.what = what, !.repo = r, !.to = to, !.at = at,
                                              !.had = had, !.alone = alone]
                 ELSE IF op[q].repo = r THEN [op[q] EXCEPT !.alone = FALSE] ELSE op[q]]
  <2>1. (link[r] /\ data) \in BOOLEAN /\ (\A x \in Procs \ {p} : ~Active(x, r)) \in BOOLEAN
    OBVIOUS
  <2>2. (IF what = "push" THEN "store" ELSE "cache") \in {"store", "cache"}
    OBVIOUS
  <2>3. QED
    BY <2>1, <2>2, ZenonT(30) DEF CacheBegin
<1>2. ASSUME NEW q \in Procs PROVE op'[q] \in OpRecord
  <2>1. CASE q = p
    BY <1>1, <2>1, IdleOpType, ZenonT(30) DEF OpRecord, Ats, Whats
  <2>2. CASE q # p
    <3>1. op[q] \in OpRecord
      BY DEF CacheInv, CacheTypes
    <3>2. [op[q] EXCEPT !.alone = FALSE] \in OpRecord
      BY <3>1, ZenonT(30) DEF OpRecord
    <3>3. QED
      BY <1>1, <2>2, <3>1, <3>2
  <2>3. QED
    BY <2>1, <2>2
<1>3. \A q \in Procs \ {p} : op'[q].at = op[q].at /\ op'[q].repo = op[q].repo
  BY <1>1 DEF CacheInv, CacheTypes, OpRecord
<1>4. op'[p].at \in {"store", "cache"}
  BY <1>1, IdleOpType, ZenonT(30) DEF OpRecord
<1>5. op' \in [Procs -> OpRecord]
  BY <1>1, <1>2
<1>6. UNCHANGED <<cacheKind, link, data, linked, member, hash, global, collected>>
  BY ZenonT(30) DEF CacheBegin, storage, entries
<1>7. CacheTypes' /\ Excused' = Excused
  BY <1>5, <1>6 DEF CacheInv, CacheTypes, Excused
<1>8. QED
  BY <1>3, <1>4, <1>6, <1>7 DEF CacheInv, Seen

LEMMA CacheCollected ==
  ASSUME CacheInv, CollectGarbage
  PROVE  CacheInv'
<1> USE DEF CollectGarbage
<1>1. op' \in [Procs -> OpRecord] /\ \A q \in Procs : op'[q].at = "idle"
  BY IdleOpType, ZenonT(30) DEF IdleOp
<1>2. CASE cacheKind = "redis"
  BY <1>1, <1>2, ZenonT(30) DEF CacheInv, CacheTypes, Excused, Seen, entries
<1>3. CASE cacheKind # "redis"
  <2>1. ~global' /\ \A r \in CacheRepos : ~link'[r] /\ ~member'[r]
    BY <1>3
  <2>2. CacheTypes'
    BY <1>1, <1>3, ZenonT(30) DEF CacheInv, CacheTypes
  <2>3. QED
    BY <1>1, <2>1, <2>2 DEF CacheInv, Seen
<1>4. QED
  BY <1>2, <1>3

LEMMA CacheInvNext == CacheInv /\ [CacheNext]_cacheVars => CacheInv'
<1>1. ASSUME CacheInv, CacheNext PROVE CacheInv'
  BY <1>1, CacheWrites, CacheLooks, CacheLoses, CacheLinks, CacheBegins, CacheCollected
     DEF CacheNext, CacheStep
<1>2. ASSUME CacheInv, UNCHANGED cacheVars PROVE CacheInv'
  BY <1>2 DEF CacheInv, CacheTypes, Excused, cacheVars
<1>3. QED
  BY <1>1, <1>2

(***************************************************************************)
(* The descriptor the caches share between repositories never makes a blob *)
(* visible in a repository it was not linked in, and a blob is answered as *)
(* present only while its data is there, unless redis outlived a garbage   *)
(* collection: whatever is evicted, fails or overlaps.                     *)
(***************************************************************************)
THEOREM CacheCorrect == CacheSpec => []PresentTrue
<1>1. CacheInv => PresentTrue
  BY DEF CacheInv, PresentTrue, ScopedToRepository, PresentHasData, Excused, Seen
<1>2. QED
  BY <1>1, CacheInvInit, CacheInvNext, PTL DEF CacheSpec
-----------------------------------------------------------------------------
Busy(p) == op[p].at \notin {"idle", "present", "unknown", "deleted", "done"}

\* The blob is not linked in the repository, and no race or collection explains an entry there.
Gone(r) == ~link[r] /\ ~raced[r] /\ ~(collected /\ cacheKind = "redis")

\* Of two operations that are under way in a repository neither is alone there.
AloneInv ==
    \A p, q \in Procs : p # q /\ op[p].repo = op[q].repo /\ Busy(p) /\ Busy(q) => ~op[p].alone

\* Where the blob is gone there is no entry, and no operation that could make one.
GoneInv ==
    \A r \in CacheRepos : Gone(r) =>
        /\ ~member[r]
        /\ \A p \in Procs : Busy(p) /\ op[p].repo = r => op[p].at \in {"cache", "backend", "store", "linking"}

\* A delete that is alone finds no new entry between Clear and the removal of the link.
UnlinkInv == \A p \in Procs : op[p].at = "unlink" /\ op[p].alone => ~member[op[p].repo]

\* What an undisturbed delete of a blob that was there has established so far.
Undisturbed(o) == o.what = "delete" /\ o.had /\ o.alone /\ o.calm
DeleteFits(o) ==
    /\ o.at # "unknown"
    /\ o.at \notin {"idle", "present", "unknown", "deleted", "done"} => link[o.repo] /\ data
    /\ o.at \in {"backend", "data", "filled"} => o.miss
    /\ o.at \in {"cacheGlobal", "cacheHash", "setGlobal", "setHash", "clear"} => member[o.repo]
DeletesFit == \A p \in Procs : Undisturbed(op[p]) => DeleteFits(op[p])

DeleteInv ==
    /\ raced \in [CacheRepos -> BOOLEAN]
    /\ AloneInv /\ GoneInv /\ UnlinkInv /\ DeletesFit

LEMMA DeleteInvInit == CacheInit => DeleteInv
<1> SUFFICES ASSUME CacheInit PROVE DeleteInv
  OBVIOUS
<1>1. \A p \in Procs : op[p].at = "idle" /\ op[p].what = "none"
  BY DEF CacheInit, IdleOp
<1>2. raced \in [CacheRepos -> BOOLEAN] /\ \A r \in CacheRepos : ~member[r]
  BY DEF CacheInit
<1>3. AloneInv /\ GoneInv /\ UnlinkInv
  BY <1>1, <1>2 DEF AloneInv, GoneInv, UnlinkInv, Busy
<1>4. DeletesFit
  BY <1>1 DEF DeletesFit, Undisturbed
<1>5. QED
  BY <1>2, <1>3, <1>4 DEF DeleteInv

\* An operation moves on, and stays what it is.
Onward(p, to) ==
    /\ \A q \in Procs : q # p => op'[q] = op[q]
    /\ op'[p].at = to /\ op'[p].repo = op[p].repo /\ op'[p].what = op[p].what
    /\ op'[p].alone = op[p].alone /\ op'[p].had = op[p].had

LEMMA OpOnward ==
  ASSUME op \in [Procs -> OpRecord], NEW p \in Procs, NEW to
  PROVE  /\ op' = [op EXCEPT ![p].at = to] =>
              Onward(p, to) /\ op'[p].calm = op[p].calm /\ op'[p].miss = op[p].miss
         /\ \A b : op' = [op EXCEPT ![p].at = to, ![p].miss = b] =>
              Onward(p, to) /\ op'[p].calm = op[p].calm /\ op'[p].miss = b
         /\ op' = [op EXCEPT ![p].calm = FALSE, ![p].at = to] => Onward(p, to) /\ ~op'[p].calm
<1>1. op[p] \in OpRecord
  OBVIOUS
<1>2. ASSUME op' = [op EXCEPT ![p].at = to]
      PROVE  Onward(p, to) /\ op'[p].calm = op[p].calm /\ op'[p].miss = op[p].miss
  <2>1. op'[p] = [op[p] EXCEPT !.at = to] /\ \A q \in Procs : q # p => op'[q] = op[q]
    BY <1>2
  <2>2. QED
    BY <1>1, <2>1 DEF OpRecord, Onward
<1>3. ASSUME NEW b, op' = [op EXCEPT ![p].at = to, ![p].miss = b]
      PROVE  Onward(p, to) /\ op'[p].calm = op[p].calm /\ op'[p].miss = b
  <2>1. op'[p] = [[op[p] EXCEPT !.at = to] EXCEPT !.miss = b] /\ \A q \in Procs : q # p => op'[q] = op[q]
    BY <1>3
  <2>2. QED
    BY <1>1, <2>1 DEF OpRecord, Onward
<1>4. ASSUME op' = [op EXCEPT ![p].calm = FALSE, ![p].at = to]
      PROVE  Onward(p, to) /\ ~op'[p].calm
  <2>1. op'[p] = [[op[p] EXCEPT !.calm = FALSE] EXCEPT !.at = to] /\ \A q \in Procs : q # p => op'[q] = op[q]
    BY <1>4
  <2>2. QED
    BY <1>1, <2>1 DEF OpRecord, Onward
<1>5. QED
  BY <1>2, <1>3, <1>4, ZenonT(30)

\* What the step of one operation owes to its own repository and to the others.
LEMMA OneMoves ==
  ASSUME CacheTypes, DeleteInv, NEW p \in Procs, NEW to, Onward(p, to), Busy(p),
         raced' \in [CacheRepos -> BOOLEAN], collected' = collected, cacheKind' = cacheKind, data => data',
         \A r \in CacheRepos : r # op[p].repo =>
             member'[r] = member[r] /\ raced'[r] = raced[r] /\ (link[r] => link'[r]),
         Gone(op[p].repo)' =>
             /\ ~member'[op[p].repo]
             /\ to \in {"cache", "backend", "store", "linking", "idle", "present", "unknown", "deleted", "done"}
             /\ Gone(op[p].repo) \/ op[p].alone,
         to = "unlink" /\ op[p].alone => ~member'[op[p].repo],
         Undisturbed(op[p])' => DeleteFits(op[p])'
  PROVE  DeleteInv'
<1> DEFINE r0 == op[p].repo
<1>0. \A q \in Procs : op[q].repo \in CacheRepos
  BY DEF CacheTypes, OpRecord
<1>1. \A q \in Procs : /\ op'[q].repo = op[q].repo /\ op'[q].alone = op[q].alone
                       /\ q # p => op'[q] = op[q]
  BY DEF Onward
<1>2. \A q \in Procs : q # p => Busy(q)' = Busy(q)
  BY <1>1 DEF Busy
<1>a. \A q \in Procs : q # p /\ op[q].repo = r0 /\ Busy(q) => ~op[q].alone /\ ~op[p].alone
  BY DEF DeleteInv, AloneInv
<1>3. AloneInv'
  BY <1>1, <1>2, <1>a DEF DeleteInv, AloneInv
<1>4. GoneInv'
  <2> SUFFICES ASSUME NEW r \in CacheRepos, Gone(r)'
               PROVE  /\ ~member'[r]
                      /\ \A q \in Procs : Busy(q)' /\ op'[q].repo = r =>
                            op'[q].at \in {"cache", "backend", "store", "linking"}
    BY DEF GoneInv
  <2>1. CASE r # r0
    <3>1. Gone(r)
      BY <2>1 DEF Gone
    <3>2. QED
      BY <1>1, <1>2, <2>1, <3>1 DEF DeleteInv, GoneInv
  <2>2. CASE r = r0
    <3>0. Gone(op[p].repo)'
      BY <1>1, <2>2 DEF Gone
    <3>1. ~member'[r]
      BY <2>2, <3>0
    <3>2. Busy(p)' => op'[p].at \in {"cache", "backend", "store", "linking"}
      BY <3>0 DEF Busy, Onward
    <3>3. ASSUME NEW q \in Procs, q # p, Busy(q)', op'[q].repo = r
          PROVE  op'[q].at \in {"cache", "backend", "store", "linking"}
      <4>1. Busy(q) /\ op[q].repo = r0 /\ op'[q] = op[q]
        BY <1>1, <1>2, <2>2, <3>3
      <4>2. Gone(r0)
        BY <1>a, <3>0, <3>3, <4>1
      <4>3. QED
        BY <1>0, <4>1, <4>2 DEF DeleteInv, GoneInv
    <3>4. QED
      BY <3>1, <3>2, <3>3
  <2>3. QED
    BY <2>1, <2>2
<1>5. UnlinkInv'
  <2> SUFFICES ASSUME NEW q \in Procs, op'[q].at = "unlink", op'[q].alone
               PROVE  ~member'[op'[q].repo]
    BY DEF UnlinkInv
  <2>1. CASE q = p
    BY <1>1, <2>1 DEF Onward
  <2>2. CASE q # p
    <3>1. op[q].at = "unlink" /\ op[q].alone /\ Busy(q)
      BY <1>1, <2>2 DEF Busy
    <3>2. op[q].repo # r0
      BY <1>a, <2>2, <3>1
    <3>3. QED
      BY <1>0, <1>1, <2>2, <3>1, <3>2 DEF DeleteInv, UnlinkInv
  <2>3. QED
    BY <2>1, <2>2
<1>6. DeletesFit'
  <2> SUFFICES ASSUME NEW q \in Procs, Undisturbed(op[q])'
               PROVE  DeleteFits(op[q])'
    BY DEF DeletesFit
  <2>1. CASE q # p
    <3>1. op'[q] = op[q] /\ Undisturbed(op[q]) /\ op[q].alone
      BY <1>1, <2>1 DEF Undisturbed
    <3>2. DeleteFits(op[q])
      BY <3>1 DEF DeleteInv, DeletesFit
    <3>3. CASE Busy(q)
      <4>1. op[q].repo # r0 /\ op[q].repo \in CacheRepos
        BY <1>0, <1>a, <2>1, <3>1, <3>3
      <4>2. QED
        BY <3>1, <3>2, <4>1 DEF DeleteFits
    <3>4. CASE ~Busy(q)
      BY <3>1, <3>2, <3>4 DEF DeleteFits, Busy
    <3>5. QED
      BY <3>3, <3>4
  <2>2. QED
    BY <2>1
<1>7. QED
  BY <1>3, <1>4, <1>5, <1>6 DEF DeleteInv

\* A step that leaves links, entries and data alone.
LEMMA LookingMoves ==
  ASSUME CacheTypes, DeleteInv, NEW p \in Procs, NEW to, Onward(p, to), Busy(p),
         UNCHANGED <<raced, collected, cacheKind, data, link, member>>,
         Gone(op[p].repo) => to \in {"backend", "unknown"},
         to # "unlink",
         Undisturbed(op[p])' => DeleteFits(op[p])'
  PROVE  DeleteInv'
<1>1. op'[p].repo = op[p].repo /\ op[p].repo \in CacheRepos
  BY DEF Onward, CacheTypes, OpRecord
<1>2. Gone(op[p].repo)' => Gone(op[p].repo)
  BY <1>1 DEF Gone
<1>3. Gone(op[p].repo) => ~member[op[p].repo]
  BY <1>1 DEF DeleteInv, GoneInv
<1>4. raced' \in [CacheRepos -> BOOLEAN]
  BY DEF DeleteInv
<1>5. QED
  BY <1>1, <1>2, <1>3, <1>4, OneMoves

\* Before a step an undisturbed delete was undisturbed, and it was as far as it should be.
LEMMA WasUndisturbed ==
  ASSUME DeleteInv, NEW p \in Procs, NEW to, Onward(p, to), op'[p].calm = op[p].calm, Undisturbed(op[p])'
  PROVE  Undisturbed(op[p]) /\ DeleteFits(op[p]) /\ Statted(p) = "clear"
BY ZenonT(30) DEF DeleteInv, DeletesFit, Undisturbed, Onward, Statted

LEMMA GoneAt ==
  ASSUME CacheTypes, DeleteInv, NEW p \in Procs, Busy(p), Gone(op[p].repo)
  PROVE  op[p].at \in {"cache", "backend", "store", "linking"} /\ ~member[op[p].repo] /\ ~link[op[p].repo]
<1>1. op[p].repo \in CacheRepos
  BY DEF CacheTypes, OpRecord
<1>2. QED
  BY <1>1 DEF DeleteInv, GoneInv, Gone

LEMMA DeleteLooksUp ==
  ASSUME CacheTypes, DeleteInv, NEW p \in Procs,
         CacheStat(p) \/ RedisStatGlobal(p) \/ RedisStatHash(p)
  PROVE  DeleteInv'
<1> USE DEF OpAt, OpGoes, OnlyOp, storage, entries, ghosts
<1>a. Statted(p) \in {"clear", "link", "present"}
  BY StattedType
<1>b. op \in [Procs -> OpRecord]
  BY DEF CacheTypes
<1>c. Busy(p) /\ op[p].at \in {"cache", "cacheGlobal", "cacheHash"}
  BY DEF CacheStat, RedisStatGlobal, RedisStatHash, Busy
<1>d. UNCHANGED <<raced, collected, cacheKind, data, link, member>>
  BY DEF CacheStat, RedisStatGlobal, RedisStatHash
<1>e. op[p].at \in {"cacheGlobal", "cacheHash"} => ~Gone(op[p].repo)
  BY <1>c, GoneAt
<1>f. op[p].at = "cache" /\ member[op[p].repo] => ~Gone(op[p].repo)
  BY <1>c, GoneAt
<1>1. CASE op' = [op EXCEPT ![p].at = "backend", ![p].miss = TRUE]
  <2>1. Onward(p, "backend") /\ op'[p].calm = op[p].calm /\ op'[p].miss = TRUE
    <3>1. \A b : op' = [op EXCEPT ![p].at = "backend", ![p].miss = b] =>
             Onward(p, "backend") /\ op'[p].calm = op[p].calm /\ op'[p].miss = b
      BY <1>b, OpOnward, ZenonT(30)
    <3>2. QED
      BY <1>1, <3>1, ZenonT(30)
  <2>2. ASSUME Undisturbed(op[p])' PROVE DeleteFits(op[p])'
    <3>1. DeleteFits(op[p])
      BY <2>1, <2>2, WasUndisturbed
    <3>2. QED
      BY <1>c, <1>d, <2>1, <3>1 DEF DeleteFits, Onward
  <2>3. QED
    BY <1>c, <1>d, <2>1, <2>2, LookingMoves
<1>2. CASE op' # [op EXCEPT ![p].at = "backend", ![p].miss = TRUE]
  <2>1. PICK to \in {"cacheGlobal", "cacheHash", "clear", "link", "present"} :
           op' = [op EXCEPT ![p].at = to] /\ (to \in {"link", "present", "clear"} => to = Statted(p))
    <3>1. CASE CacheStat(p)
      BY <1>a, <1>2, <3>1 DEF CacheStat
    <3>2. CASE RedisStatGlobal(p)
      BY <1>a, <1>2, <3>2 DEF RedisStatGlobal
    <3>3. CASE RedisStatHash(p)
      BY <1>a, <1>2, <3>3 DEF RedisStatHash
    <3>4. QED
      BY <3>1, <3>2, <3>3
  <2>2. Onward(p, to) /\ op'[p].calm = op[p].calm
    BY <1>b, <2>1, OpOnward, ZenonT(30)
  <2>3. op[p].at = "cache" => member[op[p].repo]
    BY <1>2 DEF CacheStat, RedisStatGlobal, RedisStatHash
  <2>4. ~Gone(op[p].repo)
    BY <1>c, <1>e, <1>f, <2>3
  <2>5. ASSUME Undisturbed(op[p])' PROVE DeleteFits(op[p])'
    <3>1. DeleteFits(op[p]) /\ Statted(p) = "clear"
      BY <2>2, <2>5, WasUndisturbed
    <3>2. member[op[p].repo] /\ link[op[p].repo] /\ data
      BY <1>c, <2>3, <3>1 DEF DeleteFits
    <3>3. QED
      BY <1>d, <2>1, <2>2, <3>1, <3>2 DEF DeleteFits, Onward
  <2>6. QED
    BY <1>c, <1>d, <2>2, <2>4, <2>5, LookingMoves
<1>3. QED
  BY <1>1, <1>2

LEMMA DeleteStats ==
  ASSUME CacheTypes, DeleteInv, NEW p \in Procs,
         StatLink(p) \/ StatData(p) \/ StatFilled(p) \/ SetGlobal(p) \/ SetHash(p)
  PROVE  DeleteInv'
<1> USE DEF OpAt, OpGoes, OnlyOp, storage, entries, ghosts
<1>a. Statted(p) \in {"clear", "link", "present"}
  BY StattedType
<1>b. op \in [Procs -> OpRecord]
  BY DEF CacheTypes
<1>c. Busy(p) /\ op[p].at \in {"backend", "data", "filled", "setGlobal", "setHash"}
  BY DEF StatLink, StatData, StatFilled, SetGlobal, SetHash, Busy
<1>d. UNCHANGED <<raced, collected, cacheKind, data, link, member>>
  BY SMTT(30) DEF StatLink, StatData, StatFilled, SetGlobal, SetHash
<1>1. PICK to \in {"unknown", "filled", "data", "setMember", "setHash", "clear", "link", "present"} :
        /\ op' = [op EXCEPT ![p].at = to]
        /\ to \in {"link", "present", "clear"} => to = Statted(p) /\ op[p].at \in {"filled", "setGlobal", "setHash"}
        /\ to = "unknown" => (op[p].at = "backend" /\ ~link[op[p].repo]) \/ (op[p].at = "data" /\ ~data)
        /\ to \in {"filled", "data"} => op[p].at \in {"backend", "data"}
        /\ to = "setHash" => op[p].at = "setGlobal"
        /\ op[p].at = "filled" /\ op[p].miss => to = "setMember"
        /\ op[p].at = "backend" /\ to # "unknown" => link[op[p].repo]
  <2>1. CASE StatLink(p)
    BY <2>1, ZenonT(30) DEF StatLink
  <2>2. CASE StatData(p)
    BY <2>2 DEF StatData
  <2>3. CASE StatFilled(p)
    BY <1>a, <2>3, ZenonT(30) DEF StatFilled
  <2>4. CASE SetGlobal(p)
    BY <1>a, <2>4, ZenonT(30) DEF SetGlobal
  <2>5. CASE SetHash(p)
    BY <1>a, <2>5, ZenonT(30) DEF SetHash
  <2>6. QED
    BY <2>1, <2>2, <2>3, <2>4, <2>5
<1>2. Onward(p, to) /\ op'[p].calm = op[p].calm /\ op'[p].miss = op[p].miss
  BY <1>b, <1>1, OpOnward, ZenonT(30)
<1>3. Gone(op[p].repo) => to = "unknown"
  BY <1>c, <1>1, GoneAt
<1>4. ASSUME Undisturbed(op[p])' PROVE DeleteFits(op[p])'
  <2>1. DeleteFits(op[p]) /\ Statted(p) = "clear"
    BY <1>2, <1>4, WasUndisturbed
  <2>2. link[op[p].repo] /\ data
    BY <1>c, <2>1 DEF DeleteFits
  <2>3. to # "unknown" /\ (to \in {"backend", "data", "filled"} => op[p].miss)
    BY <1>c, <1>1, <2>1, <2>2 DEF DeleteFits
  <2>4. to \in {"cacheGlobal", "cacheHash", "setGlobal", "setHash", "clear"} => member[op[p].repo]
    BY <1>c, <1>1, <2>1 DEF DeleteFits
  <2>5. QED
    BY <1>d, <1>2, <2>2, <2>3, <2>4 DEF DeleteFits, Onward
<1>5. QED
  BY <1>c, <1>d, <1>2, <1>3, <1>4, LookingMoves

LEMMA DeleteMeetsFault ==
  ASSUME CacheTypes, DeleteInv, NEW p \in Procs, CacheFails(p)
  PROVE  DeleteInv'
<1> USE DEF storage, entries, ghosts
<1>a. Statted(p) \in {"clear", "link", "present"}
  BY StattedType
<1>b. op \in [Procs -> OpRecord]
  BY DEF CacheTypes
<1>c. Busy(p)
  BY DEF CacheFails, Busy
<1>d. UNCHANGED <<raced, collected, cacheKind, data, link, member>>
  BY DEF CacheFails
<1>1. PICK to \in {"backend", "done", "clear", "link", "present"} :
        /\ op' = [op EXCEPT ![p].calm = FALSE, ![p].at = to]
        /\ op[p].at \in {"cache", "backend", "store", "linking"} => to = "backend"
  BY <1>a, ZenonT(30) DEF CacheFails
<1>2. Onward(p, to) /\ ~op'[p].calm
  BY <1>b, <1>1, OpOnward, ZenonT(30)
<1>3. Gone(op[p].repo) => to = "backend"
  BY <1>c, <1>1, GoneAt
<1>4. ~Undisturbed(op[p])'
  BY <1>2 DEF Undisturbed
<1>5. QED
  BY <1>c, <1>d, <1>2, <1>3, <1>4, LookingMoves

LEMMA DeleteSetsMember ==
  ASSUME CacheTypes, DeleteInv, NEW p \in Procs, SetMember(p)
  PROVE  DeleteInv'
<1> DEFINE r == op[p].repo
<1>a. /\ op[p].at = "setMember" /\ op' = [op EXCEPT ![p].at = "setGlobal"]
      /\ member' = [member EXCEPT ![r] = TRUE]
  BY DEF SetMember, OpAt, OpGoes
<1>1. op \in [Procs -> OpRecord] /\ r \in CacheRepos /\ member \in [CacheRepos -> BOOLEAN]
  BY DEF CacheTypes, OpRecord
<1>2. Onward(p, "setGlobal") /\ op'[p].calm = op[p].calm /\ Busy(p)
  BY <1>a, <1>1, OpOnward, ZenonT(30) DEF Busy
<1>3. UNCHANGED <<raced, collected, cacheKind, data, link>>
  BY DEF SetMember, storage, ghosts
<1>4. member'[r] /\ \A s \in CacheRepos : s # r => member'[s] = member[s]
  BY <1>a, <1>1
<1>5. ~Gone(r)
  BY <1>a, <1>2, GoneAt
<1>6. ~Gone(r)'
  BY <1>2, <1>3, <1>5 DEF Gone, Onward
<1>7. ASSUME Undisturbed(op[p])' PROVE DeleteFits(op[p])'
  <2>1. DeleteFits(op[p])
    BY <1>2, <1>7, WasUndisturbed
  <2>2. link[r] /\ data
    BY <1>a, <2>1 DEF DeleteFits
  <2>3. QED
    BY <1>2, <1>3, <1>4, <2>2 DEF DeleteFits, Onward
<1>8. raced' \in [CacheRepos -> BOOLEAN]
  BY <1>3 DEF DeleteInv
<1>9. QED
  BY <1>2, <1>3, <1>4, <1>6, <1>7, <1>8, OneMoves

LEMMA DeleteClears ==
  ASSUME CacheTypes, DeleteInv, NEW p \in Procs, Clear(p)
  PROVE  DeleteInv'
<1> DEFINE r == op[p].repo
<1>a. op[p].at = "clear" /\ UNCHANGED <<raced, collected, cacheKind, data, link>>
  BY DEF Clear, OpAt, storage, ghosts
<1>b. op \in [Procs -> OpRecord] /\ r \in CacheRepos /\ member \in [CacheRepos -> BOOLEAN]
  BY DEF CacheTypes, OpRecord
<1>c. Busy(p)
  BY <1>a DEF Busy
<1>d. ~Gone(r)
  BY <1>a, <1>c, GoneAt
<1>1. CASE cacheKind = "redis" /\ ~member[r]
  <2>1. op' = [op EXCEPT ![p].at = "unknown"] /\ UNCHANGED member
    BY <1>1 DEF Clear, OpGoes, entries
  <2>2. Onward(p, "unknown") /\ op'[p].calm = op[p].calm
    BY <1>b, <2>1, OpOnward, ZenonT(30)
  <2>3. ~Undisturbed(op[p])'
    BY <1>a, <1>1, <2>2, WasUndisturbed DEF DeleteFits
  <2>4. QED
    BY <1>a, <1>c, <1>d, <2>1, <2>2, <2>3, LookingMoves
<1>2. CASE ~(cacheKind = "redis" /\ ~member[r])
  <2>1. op' = [op EXCEPT ![p].at = "unlink"] /\ member' = [member EXCEPT ![r] = FALSE]
    BY <1>2 DEF Clear, OpGoes
  <2>2. Onward(p, "unlink") /\ op'[p].calm = op[p].calm
    BY <1>b, <2>1, OpOnward, ZenonT(30)
  <2>3. ~member'[r] /\ \A s \in CacheRepos : s # r => member'[s] = member[s]
    BY <1>b, <2>1
  <2>4. ~Gone(r)'
    BY <1>a, <1>d, <2>2 DEF Gone, Onward
  <2>5. ASSUME Undisturbed(op[p])' PROVE DeleteFits(op[p])'
    <3>1. DeleteFits(op[p])
      BY <2>2, <2>5, WasUndisturbed
    <3>2. link[r] /\ data
      BY <1>a, <3>1 DEF DeleteFits
    <3>3. QED
      BY <1>a, <2>2, <3>2 DEF DeleteFits, Onward
  <2>6. raced' \in [CacheRepos -> BOOLEAN]
    BY <1>a DEF DeleteInv
  <2>7. QED
    BY <1>a, <1>c, <2>2, <2>3, <2>4, <2>5, <2>6, OneMoves
<1>3. QED
  BY <1>1, <1>2

LEMMA DeleteUnlinks ==
  ASSUME CacheTypes, DeleteInv, NEW p \in Procs, Unlink(p)
  PROVE  DeleteInv'
<1> DEFINE r == op[p].repo
<1>a. op[p].at = "unlink" /\ UNCHANGED <<collected, cacheKind, data, member>>
  BY DEF Unlink, OpAt, entries
<1>b. op \in [Procs -> OpRecord] /\ r \in CacheRepos /\ link \in [CacheRepos -> BOOLEAN]
  BY DEF CacheTypes, OpRecord
<1>c. Busy(p) /\ op[p].alone \in BOOLEAN
  BY <1>a, <1>b DEF Busy, OpRecord
<1>1. PICK to \in {"deleted", "unknown"} : op' = [op EXCEPT ![p].at = to] /\ (link[r] => to = "deleted")
  BY ZenonT(30) DEF Unlink, OpGoes
<1>2. link' = [link EXCEPT ![r] = FALSE] /\ raced' = [raced EXCEPT ![r] = ~op[p].alone]
  BY DEF Unlink
<1>3. Onward(p, to) /\ op'[p].calm = op[p].calm
  BY <1>b, <1>1, OpOnward, ZenonT(30)
<1>4. raced \in [CacheRepos -> BOOLEAN]
  BY DEF DeleteInv
<1>5. raced' \in [CacheRepos -> BOOLEAN] /\ raced'[r] = ~op[p].alone
  BY <1>b, <1>c, <1>2, <1>4
<1>6. \A s \in CacheRepos : s # r => raced'[s] = raced[s] /\ link'[s] = link[s]
  BY <1>b, <1>2, <1>4
<1>7. Gone(r)' => op[p].alone
  BY <1>3, <1>5, ZenonT(30) DEF Gone, Onward
<1>8. op[p].alone => ~member[r]
  BY <1>a DEF DeleteInv, UnlinkInv
<1>9. ASSUME Undisturbed(op[p])' PROVE DeleteFits(op[p])'
  <2>1. DeleteFits(op[p])
    BY <1>3, <1>9, WasUndisturbed
  <2>2. to = "deleted"
    BY <1>a, <1>1, <2>1 DEF DeleteFits
  <2>3. QED
    BY <1>3, <2>2 DEF DeleteFits, Onward
<1>10. QED
  BY <1>a, <1>c, <1>3, <1>5, <1>6, <1>7, <1>8, <1>9, OneMoves, ZenonT(30)

LEMMA DeleteLinks ==
  ASSUME CacheTypes, DeleteInv, NEW p \in Procs, MountLink(p) \/ PushData(p) \/ PushLink(p)
  PROVE  DeleteInv'
<1> DEFINE r == op[p].repo
<1>a. UNCHANGED <<raced, collected, cacheKind, member>> /\ (data => data')
  BY DEF MountLink, PushData, PushLink, entries, ghosts
<1>b. /\ op \in [Procs -> OpRecord] /\ r \in CacheRepos /\ op[p].to \in CacheRepos
      /\ link \in [CacheRepos -> BOOLEAN]
  BY DEF CacheTypes, OpRecord
<1>1. PICK to \in {"done", "linking", "setMember"} :
        /\ op' = [op EXCEPT ![p].at = to]
        /\ \/ to = "done" /\ op[p].at = "link" /\ link' = [link EXCEPT ![op[p].to] = TRUE]
           \/ to = "linking" /\ op[p].at = "store" /\ link' = link /\ data' = TRUE
           \/ to = "setMember" /\ op[p].at = "linking" /\ link' = [link EXCEPT ![r] = TRUE]
  BY ZenonT(30) DEF MountLink, PushData, PushLink, OpAt, OpGoes
<1>2. Onward(p, to) /\ op'[p].calm = op[p].calm
  BY <1>b, <1>1, OpOnward, ZenonT(30)
<1>c. Busy(p)
  BY <1>1 DEF Busy
<1>3. \A s \in CacheRepos : link[s] => link'[s]
  BY <1>b, <1>1
<1>4. to = "setMember" => link'[r]
  BY <1>b, <1>1
<1>5. Gone(r)' => Gone(r) /\ to # "setMember"
  BY <1>a, <1>b, <1>2, <1>3, <1>4 DEF Gone, Onward
<1>6. Gone(r) => ~member[r]
  BY <1>c, GoneAt
<1>7. ASSUME Undisturbed(op[p])' PROVE DeleteFits(op[p])'
  <2>1. DeleteFits(op[p])
    BY <1>2, <1>7, WasUndisturbed
  <2>2. link[r] /\ data
    BY <1>c, <2>1 DEF DeleteFits, Busy
  <2>3. link'[r] /\ data'
    BY <1>a, <1>b, <1>3, <2>2
  <2>4. QED
    BY <1>1, <1>2, <2>3 DEF DeleteFits, Onward
<1>8. raced' \in [CacheRepos -> BOOLEAN]
  BY <1>a DEF DeleteInv
<1>9. QED
  BY <1>a, <1>c, <1>1, <1>2, <1>3, <1>5, <1>6, <1>7, <1>8, OneMoves

\* An eviction takes entries away, and no operation is calm after it.
LEMMA DeleteMeetsEviction ==
  ASSUME CacheTypes, DeleteInv, Evict
  PROVE  DeleteInv'
<1>1. op \in [Procs -> OpRecord] /\ member \in [CacheRepos -> BOOLEAN]
  BY DEF CacheTypes
<1>2. op' = [q \in Procs |-> [op[q] EXCEPT !.calm = FALSE]]
  BY DEF Evict
<1>3. UNCHANGED <<raced, collected, cacheKind, data, link>>
  BY DEF Evict, storage, ghosts
<1>4. \A r \in CacheRepos : ~member[r] => ~member'[r]
  <2>1. CASE UNCHANGED member
    BY <2>1
  <2>2. CASE \E r \in CacheRepos : member' = [member EXCEPT ![r] = FALSE]
    BY <1>1, <2>2
  <2>3. QED
    BY <2>1, <2>2, ZenonT(30) DEF Evict
<1>5. ASSUME NEW q \in Procs
      PROVE  op'[q].at = op[q].at /\ op'[q].repo = op[q].repo /\ op'[q].alone = op[q].alone /\ ~op'[q].calm
  <2>1. op'[q] = [op[q] EXCEPT !.calm = FALSE] /\ op[q] \in OpRecord
    BY <1>1, <1>2
  <2>2. QED
    BY <2>1 DEF OpRecord
<1>6. \A q \in Procs : Busy(q)' = Busy(q) /\ op[q].repo \in CacheRepos
  BY <1>1, <1>5 DEF Busy, OpRecord
<1>7. \A r \in CacheRepos : Gone(r)' = Gone(r)
  BY <1>3 DEF Gone
<1>8. AloneInv'
  BY <1>5, <1>6 DEF DeleteInv, AloneInv
<1>9. GoneInv'
  BY <1>4, <1>5, <1>6, <1>7 DEF DeleteInv, GoneInv
<1>10. UnlinkInv'
  BY <1>4, <1>5, <1>6 DEF DeleteInv, UnlinkInv
<1>11. DeletesFit'
  BY <1>5 DEF DeletesFit, Undisturbed
<1>12. QED
  BY <1>3, <1>8, <1>9, <1>10, <1>11 DEF DeleteInv

LEMMA DeleteBegins ==
  ASSUME CacheTypes, DeleteInv, NEW p \in Procs, NEW what \in {"stat", "push", "delete", "mount"},
         NEW r \in CacheRepos, NEW to \in CacheRepos, CacheBegin(p, what, r, to)
  PROVE  DeleteInv'
<1> DEFINE at == IF what = "push" THEN "store" ELSE "cache"
           mine == [IdleOp EXCEPT !.what = what, !.repo = r, !.to = to, !.at = at,
                                  !.had = link[r] /\ data, !.alone = \A x \in Procs \ {p} : ~Active(x, r)]
<1>1. op' = [q \in Procs |-> IF q = p THEN mine
                             ELSE IF op[q].repo = r THEN [op[q] EXCEPT !.alone = FALSE] ELSE op[q]]
  BY ZenonT(30) DEF CacheBegin
<1>2. UNCHANGED <<raced, collected, cacheKind, data, link, member>>
  BY ZenonT(30) DEF CacheBegin, storage, entries
<1>3. op \in [Procs -> OpRecord]
  BY DEF CacheTypes
<1>4. /\ mine.at = at /\ mine.repo = r /\ mine.had = (link[r] /\ data)
      /\ mine.alone = (\A x \in Procs \ {p} : ~Active(x, r))
  BY ZenonT(30) DEF IdleOp
<1> HIDE DEF mine
<1>5. op'[p] = mine
  BY <1>1
<1>6. ASSUME NEW q \in Procs, q # p
      PROVE  /\ op[q].repo \in CacheRepos
             /\ op[q].repo # r => op'[q] = op[q]
             /\ op[q].repo = r => op'[q].at = op[q].at /\ op'[q].repo = r /\ ~op'[q].alone
  BY <1>1, <1>3, <1>6 DEF OpRecord
<1>7. ~Busy(p)
  BY ZenonT(30) DEF CacheBegin, Busy
<1>8. \A q \in Procs : q # p => Busy(q)' = Busy(q) /\ op'[q].at = op[q].at /\ op'[q].repo = op[q].repo
  BY <1>6 DEF Busy
<1>9. \A s \in CacheRepos : Gone(s)' = Gone(s)
  BY <1>2 DEF Gone
<1>10. at \in {"cache", "store"}
  OBVIOUS
<1> HIDE DEF at
<1>11. AloneInv'
  <2> SUFFICES ASSUME NEW a \in Procs, NEW b \in Procs, a # b, op'[a].repo = op'[b].repo, Busy(a)', Busy(b)'
               PROVE  ~op'[a].alone
    BY DEF AloneInv
  <2>1. CASE a = p
    <3>1. Active(b, r)
      BY <1>4, <1>5, <1>8, <2>1 DEF Active, Busy
    <3>2. QED
      BY <1>4, <1>5, <2>1, <3>1, ZenonT(30)
  <2>2. CASE b = p
    BY <1>4, <1>5, <1>6, <2>2
  <2>3. CASE a # p /\ b # p
    <3>1. ~op[a].alone
      BY <1>8, <2>3 DEF DeleteInv, AloneInv
    <3>2. QED
      BY <1>6, <2>3, <3>1
  <2>4. QED
    BY <2>1, <2>2, <2>3
<1>12. GoneInv'
  <2>1. ASSUME NEW s \in CacheRepos, Gone(s)', NEW q \in Procs, Busy(q)', op'[q].repo = s
        PROVE  op'[q].at \in {"cache", "backend", "store", "linking"}
    <3>1. CASE q = p
      BY <1>4, <1>5, <1>10, <3>1
    <3>2. CASE q # p
      BY <1>8, <1>9, <2>1, <3>2 DEF DeleteInv, GoneInv
    <3>3. QED
      BY <3>1, <3>2
  <2>2. QED
    BY <1>2, <1>9, <2>1 DEF DeleteInv, GoneInv
<1>13. UnlinkInv'
  <2> SUFFICES ASSUME NEW q \in Procs, op'[q].at = "unlink", op'[q].alone PROVE ~member'[op'[q].repo]
    BY DEF UnlinkInv
  <2>1. q # p
    BY <1>4, <1>5, <1>10
  <2>2. op'[q] = op[q]
    BY <1>6, <2>1
  <2>3. QED
    BY <1>2, <2>2 DEF DeleteInv, UnlinkInv
<1>14. DeletesFit'
  <2> SUFFICES ASSUME NEW q \in Procs, Undisturbed(op[q])' PROVE DeleteFits(op[q])'
    BY DEF DeletesFit
  <2>1. CASE q = p
    <3>1. link[r] /\ data
      BY <1>4, <1>5, <2>1, ZenonT(30) DEF Undisturbed
    <3>2. QED
      BY <1>2, <1>4, <1>5, <1>10, <2>1, <3>1 DEF DeleteFits
  <2>2. CASE q # p
    <3>1. op'[q] = op[q]
      BY <1>6, <2>2 DEF Undisturbed
    <3>2. DeleteFits(op[q])
      BY <3>1 DEF DeleteInv, DeletesFit, Undisturbed
    <3>3. QED
      BY <1>2, <3>1, <3>2 DEF DeleteFits
  <2>3. QED
    BY <2>1, <2>2
<1>15. QED
  BY <1>2, <1>11, <1>12, <1>13, <1>14 DEF DeleteInv

LEMMA DeleteCollected ==
  ASSUME CacheTypes, DeleteInv, CollectGarbage
  PROVE  DeleteInv'
<1>1. op' = [p \in Procs |-> IdleOp] /\ collected' = TRUE /\ UNCHANGED <<cacheKind, raced>>
  BY DEF CollectGarbage
<1>2. \A p \in Procs : op'[p].at = "idle" /\ op'[p].what = "none"
  BY <1>1 DEF IdleOp
<1>3. cacheKind # "redis" => \A r \in CacheRepos : ~member'[r]
  BY DEF CollectGarbage
<1>4. AloneInv' /\ UnlinkInv'
  BY <1>2 DEF AloneInv, UnlinkInv, Busy
<1>5. GoneInv'
  BY <1>1, <1>2, <1>3 DEF GoneInv, Gone, Busy
<1>6. DeletesFit'
  BY <1>2 DEF DeletesFit, Undisturbed
<1>7. QED
  BY <1>1, <1>4, <1>5, <1>6 DEF DeleteInv

LEMMA DeleteInvNext == CacheTypes /\ DeleteInv /\ [CacheNext]_cacheVars => DeleteInv'
<1>1. ASSUME CacheTypes, DeleteInv, CacheNext PROVE DeleteInv'
  <2>1. ASSUME NEW p \in Procs, CacheStep(p) PROVE DeleteInv'
    BY <1>1, <2>1, DeleteLooksUp, DeleteStats, DeleteMeetsFault, DeleteSetsMember, DeleteClears,
       DeleteUnlinks, DeleteLinks DEF CacheStep
  <2>2. QED
    BY <1>1, <2>1, DeleteBegins, DeleteMeetsEviction, DeleteCollected DEF CacheNext
<1>2. ASSUME CacheTypes, DeleteInv, UNCHANGED cacheVars PROVE DeleteInv'
  <2>1. UNCHANGED <<cacheKind, raced, collected, op, member, link, data>>
    BY <1>2 DEF cacheVars
  <2>2. AloneInv' /\ GoneInv' /\ UnlinkInv'
    BY <1>2, <2>1 DEF DeleteInv, AloneInv, GoneInv, UnlinkInv, Gone, Busy
  <2>3. DeletesFit'
    BY <1>2, <2>1 DEF DeleteInv, DeletesFit, DeleteFits, Undisturbed
  <2>4. QED
    BY <1>2, <2>1, <2>2, <2>3 DEF DeleteInv
<1>3. QED
  BY <1>1, <1>2

(***************************************************************************)
(* A delete takes effect and its answer is true, whatever is evicted and   *)
(* whatever fails: an entry that outlives the link is the work of another  *)
(* operation that overlapped the delete in the repository, or of redis     *)
(* outliving a garbage collection, and a delete of a blob that was there   *)
(* is answered "unknown" only if another operation or a cache fault        *)
(* disturbed it.                                                           *)
(***************************************************************************)
THEOREM CacheDeletes == CacheSpec => []DeleteEffective
<1>1. CacheInv /\ DeleteInv => DeleteEffective
  <2> SUFFICES ASSUME CacheInv, DeleteInv PROVE DeleteEffective
    OBVIOUS
  <2>1. StaleOnlyIfRaced
    BY ZenonT(30) DEF DeleteInv, GoneInv, Gone, StaleOnlyIfRaced, Hit
  <2>2. DeleteAnswered
    BY DEF DeleteInv, DeletesFit, DeleteFits, Undisturbed, DeleteAnswered
  <2>3. QED
    BY <2>1, <2>2 DEF DeleteEffective
<1>2. CacheInv => CacheTypes
  BY DEF CacheInv
<1>3. QED
  BY <1>1, <1>2, CacheInvInit, CacheInvNext, DeleteInvInit, DeleteInvNext, PTL DEF CacheSpec
=============================================================================
