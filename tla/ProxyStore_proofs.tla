-------------------------- MODULE ProxyStore_proofs --------------------------
(***************************************************************************)
(* Proofs about ProxyStore, for any number of requests at once, any keys,  *)
(* manifests, timers and restarts.                                         *)
(***************************************************************************)
EXTENDS ProxyStore, TLAPS

BlobSteps == {"stat", "serve", "body", "remote", "copy", "store", "link", "cache"}
ManifestSteps == {"m.local", "m.remote", "m.link"}
Steps == BlobSteps \cup ManifestSteps \cup {Idle, "add"}

ProxyTypes ==
    /\ entries \in [Key -> EntryStates] /\ orphans \in [Key -> Nat] /\ waiting \in [Key -> Nat]
    /\ running \in Key \cup {NoKey} /\ saved \subseteq Key
    /\ pc \in [Proc -> Steps] /\ key \in [Proc -> Key \cup {NoKey}] /\ raced \in [Proc -> BOOLEAN]
    /\ links \subseteq Key /\ scenario \in Scenarios
    /\ xstep \in {"none", "clear", "remove", "end"} /\ (xstep = "none" <=> running = NoKey)
    /\ xstep = "remove" => Dgst(running) \notin Manifests

\* A request that is under way has a key, of the kind its handler serves.
KeysFit ==
    \A p \in Proc :
        /\ pc[p] # Idle => key[p] \in Key
        /\ pc[p] \in BlobSteps => Dgst(key[p]) \notin Manifests
        /\ pc[p] \in ManifestSteps => Dgst(key[p]) \in Manifests

\* OneStores, digest by digest.
Marked ==
    /\ \A p \in Proc : Storing(p) => Dgst(key[p]) \in inflight
    /\ \A d \in inflight : \E p \in Proc : Storing(p) /\ Dgst(key[p]) = d
    /\ \A p, q \in Proc : Storing(p) /\ Storing(q) /\ p # q => Dgst(key[p]) # Dgst(key[q])

\* The content of a manifest is never removed, so a link to it can be followed.
ManifestsHeld ==
    /\ \A k \in links : Dgst(k) \in Manifests => Dgst(k) \in data
    /\ cacheGlobal \cap Manifests \subseteq data
    /\ \A p \in Proc : pc[p] = "m.link" => Dgst(key[p]) \in data

\* Without a descriptor cache the content of a blob being served is there, or was removed meanwhile.
ServedHeld ==
    ~scenario.cache =>
        /\ cacheRepo = {} /\ cacheGlobal = {} /\ ~truncated
        /\ \A p \in Proc : pc[p] \in {"serve", "body"} => Dgst(key[p]) \in data \/ raced[p]

\* A request will write the link of the key, or has, and will schedule it.
WillSchedule(k) ==
    \E p \in Proc : key[p] = k /\ (pc[p] \in {"link", "m.link"} \/ (pc[p] \in {"cache", "add"} /\ k \in links))

\* A plan that works: only a key with a link is removed by its expiry function, and a plan whose
\* function is about to return is no plan any more.
Covered(k) ==
    \/ k \in lost
    \/ WillSchedule(k)
    \/ k \in links /\ Planned(k) /\ ~(running = k /\ xstep = "end")
    \/ running = k /\ xstep = "remove"

AllCovered ==
    /\ \A d \in data \ Manifests : \E k \in Key : Dgst(k) = d /\ Covered(k)
    /\ \A k \in links : Dgst(k) \in Manifests => Covered(k)

ProxyInv == ProxyTypes /\ KeysFit /\ Marked /\ ManifestsHeld /\ ServedHeld /\ AllCovered

-----------------------------------------------------------------------------
LEMMA ProxyInvInit == ProxyInit => ProxyInv
<1> SUFFICES ASSUME ProxyInit PROVE ProxyInv
  OBVIOUS
<1> USE DEF ProxyInit, SchedInit
<1>1. ProxyTypes
  BY DEF ProxyTypes, Started, EntryStates, Steps, Idle
<1>2. KeysFit /\ Marked
  BY DEF KeysFit, Marked, Storing, Idle, BlobSteps, ManifestSteps
<1>3. ManifestsHeld /\ ServedHeld /\ AllCovered
  BY DEF ManifestsHeld, ServedHeld, AllCovered, Idle
<1>4. QED
  BY <1>1, <1>2, <1>3 DEF ProxyInv

\* What Goto does to the requests.
LEMMA GotoEffect ==
  ASSUME ProxyTypes, NEW p \in Proc, NEW step \in Steps, Goto(p, step)
  PROVE  /\ pc' \in [Proc -> Steps] /\ key' \in [Proc -> Key \cup {NoKey}] /\ raced' \in [Proc -> BOOLEAN]
         /\ pc'[p] = step /\ (step # Idle => key'[p] = key[p])
         /\ raced'[p] = (raced[p] /\ step \in {"serve", "body"})
         /\ \A q \in Proc : q # p => pc'[q] = pc[q] /\ key'[q] = key[q] /\ raced'[q] = raced[q]
BY DEF ProxyTypes, Goto

\* The steps of the next-state relation, for the case splits below.
RequestStep(p) == Request(p) \/ RemoteFails(p) \/ Step(p)
SchedulerStep ==
    \/ \E k \in Key : SchedStep(TimerFires(k)) \/ ExpiryBegins(k)
    \/ ExpiryClears \/ ExpiryRemoves \/ ExpiryEnds
    \/ SchedStep(SaveIndex) \/ SchedStep(Stop) \/ RegistryRestarts \/ UNCHANGED proxyVars

LEMMA TypesRequest ==
  ASSUME ProxyTypes, KeysFit, NEW p \in Proc, RequestStep(p)
  PROVE  ProxyTypes'
<1> USE DEF ProxyTypes
<1>1. CASE Request(p)
  BY <1>1, ProxyAssumption DEF Request, UnchangedStore, schedVars, Steps, BlobSteps, ManifestSteps, Idle
<1>2. CASE RemoteFails(p) \/ ServeBody(p) \/ CopyContent(p)
  BY <1>2, GotoEffect DEF RemoteFails, ServeBody, CopyContent, UnchangedStore, schedVars, Steps
<1>3. CASE ServeLocalStat(p) \/ ServeLocal(p) \/ Fetch(p)
  BY <1>3, GotoEffect, ZenonT(30) DEF ServeLocalStat, ServeLocal, Fetch, UnchangedStore, schedVars, Steps, BlobSteps
<1>4. CASE CommitData(p) \/ SetDescriptor(p) \/ ManifestLocal(p) \/ ManifestPut(p)
  BY <1>4, GotoEffect
  DEF CommitData, SetDescriptor, ManifestLocal, ManifestPut, UnchangedStore, schedVars, Steps, BlobSteps, ManifestSteps
<1>5. CASE CommitLink(p) \/ ManifestLink(p)
  BY <1>5, GotoEffect DEF KeysFit, CommitLink, ManifestLink, schedVars, Steps, BlobSteps, Idle
<1>6. CASE Schedule(p)
  <2>1. key[p] \in Key
    BY <1>6 DEF Schedule, KeysFit, Idle
  <2>2. QED
    BY <1>6, <2>1, GotoEffect DEF Schedule, Add, AddRefused, UnchangedStore, schedVars, Steps, EntryStates
<1>7. QED
  BY <1>1, <1>2, <1>3, <1>4, <1>5, <1>6 DEF RequestStep, Step

LEMMA TypesScheduler ==
  ASSUME ProxyTypes, SchedulerStep
  PROVE  ProxyTypes'
<1> USE ProxyAssumption DEF ProxyTypes
<1>1. ASSUME NEW k \in Key, SchedStep(TimerFires(k))
      PROVE  ProxyTypes'
  BY <1>1, SMTT(30) DEF SchedStep, TimerFires, storeVars, EntryStates
<1>2. ASSUME NEW k \in Key, ExpiryBegins(k)
      PROVE  ProxyTypes'
  BY <1>2 DEF ExpiryBegins, CallbackBegins
<1>3. CASE ExpiryClears \/ ExpiryRemoves
  BY <1>3, ZenonT(30) DEF ExpiryClears, ExpiryRemoves, schedVars
<1>4. CASE ExpiryEnds
  BY <1>4 DEF ExpiryEnds, CallbackEnds, EntryStates
<1>5. CASE SchedStep(SaveIndex) \/ SchedStep(Stop)
  BY <1>5 DEF SchedStep, SaveIndex, Stop, storeVars, Indexed, EntryStates
<1>6. CASE RegistryRestarts
  BY <1>6 DEF RegistryRestarts, Restart, Started, EntryStates, Steps
<1>7. CASE UNCHANGED proxyVars
  BY <1>7 DEF proxyVars, schedVars, storeVars
<1>8. QED
  BY <1>1, <1>2, <1>3, <1>4, <1>5, <1>6, <1>7 DEF SchedulerStep

-----------------------------------------------------------------------------
LEMMA KeysRequest ==
  ASSUME ProxyTypes, KeysFit, NEW p \in Proc, RequestStep(p)
  PROVE  KeysFit'
<1> USE DEF KeysFit, Idle, BlobSteps, ManifestSteps
<1>1. CASE Request(p)
  BY <1>1, ProxyAssumption DEF Request, ProxyTypes
<1>2. CASE RemoteFails(p)
  BY <1>2 DEF RemoteFails, ProxyTypes, Idle, Goto
<1>3. CASE ServeBody(p) \/ CopyContent(p)
  BY <1>3 DEF ServeBody, CopyContent, ProxyTypes, Idle, Goto
<1>4. CASE Schedule(p)
  BY <1>4 DEF Schedule, ProxyTypes, Idle, Goto
<1>5. CASE ServeLocalStat(p)
  BY <1>5 DEF ServeLocalStat, ProxyTypes, Idle, Goto
<1>6. CASE ServeLocal(p)
  BY <1>6 DEF ServeLocal, ProxyTypes, Idle, Goto
<1>7. CASE Fetch(p)
  BY <1>7 DEF Fetch, ProxyTypes, Idle, Goto
<1>8. CASE CommitData(p)
  BY <1>8 DEF CommitData, ProxyTypes, Idle, Goto
<1>9. CASE CommitLink(p)
  BY <1>9 DEF CommitLink, ProxyTypes, Idle, Goto
<1>10. CASE SetDescriptor(p)
  BY <1>10 DEF SetDescriptor, ProxyTypes, Idle, Goto
<1>11. CASE ManifestLocal(p)
  BY <1>11 DEF ManifestLocal, ProxyTypes, Idle, Goto
<1>12. CASE ManifestPut(p)
  BY <1>12 DEF ManifestPut, ProxyTypes, Idle, Goto
<1>13. CASE ManifestLink(p)
  BY <1>13 DEF ManifestLink, ProxyTypes, Idle, Goto
<1>14. QED
  BY <1>1, <1>2, <1>3, <1>4, <1>5, <1>6, <1>7, <1>8, <1>9, <1>10, <1>11, <1>12, <1>13 DEF RequestStep, Step

\* A step of the scheduler leaves the requests alone, or ends them all.
LEMMA SchedulerEffect ==
  ASSUME ProxyTypes, SchedulerStep
  PROVE  \/ UNCHANGED <<pc, key, inflight, scenario, truncated, cacheGlobal>>
         \/ RegistryRestarts
BY DEF SchedulerStep, SchedStep, ExpiryBegins, ExpiryClears, ExpiryRemoves, ExpiryEnds, proxyVars, storeVars

LEMMA KeysScheduler ==
  ASSUME ProxyTypes, KeysFit, SchedulerStep
  PROVE  KeysFit'
BY SchedulerEffect DEF KeysFit, RegistryRestarts, Idle, BlobSteps, ManifestSteps

-----------------------------------------------------------------------------
\* A step after which the same requests store the same digests.
LEMMA MarkedKept ==
  ASSUME Marked, inflight' = inflight,
         \A q \in Proc : Storing(q)' = Storing(q) /\ (Storing(q) => key'[q] = key[q])
  PROVE  Marked'
BY DEF Marked

LEMMA MarkedRequest ==
  ASSUME ProxyTypes, KeysFit, Marked, NEW p \in Proc, RequestStep(p)
  PROVE  Marked'
<1> USE DEF Storing, Idle
<1>1. CASE Request(p)
  BY <1>1, MarkedKept DEF Request, ProxyTypes
<1>2. CASE ServeLocalStat(p) \/ ServeLocal(p) \/ ServeBody(p) \/ CopyContent(p)
  BY <1>2, MarkedKept, SMTT(30) DEF ServeLocalStat, ServeLocal, ServeBody, CopyContent, BlobSteps, ProxyTypes, Idle, Goto
<1>3. CASE CommitData(p) \/ CommitLink(p) \/ SetDescriptor(p)
  BY <1>3, MarkedKept, SMTT(30) DEF CommitData, CommitLink, SetDescriptor, BlobSteps, ProxyTypes, Idle, Goto
<1>4. CASE ManifestLocal(p) \/ ManifestPut(p) \/ ManifestLink(p)
  BY <1>4, MarkedKept, SMTT(30) DEF ManifestLocal, ManifestPut, ManifestLink, ManifestSteps, KeysFit, ProxyTypes, Idle, Goto
<1>5. CASE Fetch(p)
  <2>1. pc[p] = "remote" /\ Dgst(key[p]) \notin Manifests /\ ~Storing(p)
    BY <1>5 DEF Fetch, KeysFit, BlobSteps
  <2>2. CASE Dgst(key[p]) \in inflight
    BY <1>5, <2>1, <2>2, MarkedKept DEF Fetch, BlobSteps, ProxyTypes, Idle, Goto
  <2>3. CASE Dgst(key[p]) \notin inflight
    <3>1. Storing(p)' /\ key'[p] = key[p] /\ inflight' = inflight \cup {Dgst(key[p])}
      BY <1>5, <2>1, <2>3 DEF Fetch, BlobSteps, ProxyTypes, Idle, Goto
    <3>2. \A q \in Proc : q # p => Storing(q)' = Storing(q) /\ key'[q] = key[q]
      BY <1>5, <2>3 DEF Fetch, BlobSteps, ProxyTypes, Idle, Goto
    <3>3. QED
      BY <2>1, <2>3, <3>1, <3>2, SMTT(30) DEF Marked
  <2>4. QED
    BY <2>2, <2>3
<1>6. CASE RemoteFails(p) \/ Schedule(p)
  <2>1. /\ inflight' = IF Storing(p) \/ pc[p] = "add" THEN inflight \ {Dgst(key[p])} ELSE inflight
        /\ ~Storing(p)'
    BY <1>6 DEF RemoteFails, Schedule, KeysFit, BlobSteps, ProxyTypes, Idle, Goto
  <2>2. \A q \in Proc : q # p => Storing(q)' = Storing(q) /\ key'[q] = key[q]
    BY <1>6 DEF RemoteFails, Schedule, ProxyTypes, Idle, Goto
  <2>3. CASE Storing(p)
    BY <2>1, <2>2, <2>3, SMTT(30) DEF Marked
  <2>4. CASE ~Storing(p)
    <3>1. inflight' = inflight
      BY <2>1, <2>4 DEF Marked
    <3>2. QED
      BY <2>1, <2>2, <2>4, <3>1, MarkedKept
  <2>5. QED
    BY <2>3, <2>4
<1>7. QED
  BY <1>1, <1>2, <1>3, <1>4, <1>5, <1>6 DEF RequestStep, Step

LEMMA MarkedScheduler ==
  ASSUME ProxyTypes, Marked, SchedulerStep
  PROVE  Marked'
<1>1. CASE UNCHANGED <<pc, key, inflight>>
  BY <1>1 DEF Marked, Storing
<1>2. CASE RegistryRestarts
  BY <1>2 DEF RegistryRestarts, Marked, Storing, Idle
<1>3. QED
  BY <1>1, <1>2, SchedulerEffect

-----------------------------------------------------------------------------
LEMMA HeldRequest ==
  ASSUME ProxyTypes, KeysFit, ManifestsHeld, NEW p \in Proc, RequestStep(p)
  PROVE  ManifestsHeld'
<1> USE DEF ManifestsHeld
<1>1. CASE Request(p)
  BY <1>1 DEF Request, ProxyTypes, UnchangedStore
<1>2. CASE RemoteFails(p)
  BY <1>2 DEF RemoteFails, UnchangedStore, Idle, ProxyTypes, Goto
<1>3. CASE ServeBody(p) \/ CopyContent(p)
  BY <1>3 DEF ServeBody, CopyContent, UnchangedStore, Idle, ProxyTypes, Goto
<1>4. CASE Fetch(p)
  BY <1>4 DEF Fetch, UnchangedStore, BlobSteps, ProxyTypes, Idle, Goto
<1>5. CASE Schedule(p)
  BY <1>5 DEF Schedule, UnchangedStore, Idle, ProxyTypes, Goto
<1>6. CASE ManifestLocal(p)
  BY <1>6 DEF ManifestLocal, UnchangedStore, ManifestSteps, Idle, ProxyTypes, Goto
<1>7. CASE ServeLocalStat(p)
  BY <1>7, SMTT(30) DEF ServeLocalStat, KeysFit, Cached, BlobSteps, ProxyTypes, Idle, Goto
<1>8. CASE ServeLocal(p)
  BY <1>8 DEF ServeLocal, KeysFit, Cached, BlobSteps, Idle, ProxyTypes, Goto
<1>9. CASE SetDescriptor(p)
  BY <1>9 DEF SetDescriptor, KeysFit, Cached, BlobSteps, ProxyTypes, Idle, Goto
<1>10. CASE CommitData(p)
  BY <1>10 DEF CommitData, BlobSteps, ProxyTypes, Idle, Goto
<1>11. CASE CommitLink(p)
  BY <1>11 DEF CommitLink, KeysFit, BlobSteps, ProxyTypes, Idle, Goto
<1>12. CASE ManifestPut(p)
  BY <1>12 DEF ManifestPut, KeysFit, KnownGlobally, Cached, ManifestSteps, Idle, ProxyTypes, Goto
<1>13. CASE ManifestLink(p)
  BY <1>13 DEF ManifestLink, ProxyTypes, Idle, Goto
<1>14. QED
  BY <1>1, <1>2, <1>3, <1>4, <1>5, <1>6, <1>7, <1>8, <1>9, <1>10, <1>11, <1>12, <1>13, ZenonT(30) DEF RequestStep, Step

LEMMA HeldScheduler ==
  ASSUME ProxyTypes, KeysFit, ManifestsHeld, SchedulerStep
  PROVE  ManifestsHeld'
<1>1. links' \subseteq links
  BY DEF SchedulerStep, SchedStep, ExpiryBegins, ExpiryClears, ExpiryRemoves, ExpiryEnds, RegistryRestarts, proxyVars, storeVars
<1>2. data \cap Manifests \subseteq data'
  BY DEF ProxyTypes, SchedulerStep, SchedStep, ExpiryBegins, ExpiryClears, ExpiryRemoves, ExpiryEnds, RegistryRestarts, proxyVars, storeVars
<1>3. CASE UNCHANGED <<pc, key, cacheGlobal>>
  BY <1>1, <1>2, <1>3 DEF ManifestsHeld, KeysFit, ManifestSteps
<1>4. CASE RegistryRestarts
  BY <1>4 DEF RegistryRestarts, ManifestsHeld, Idle
<1>5. QED
  BY <1>3, <1>4, SchedulerEffect

-----------------------------------------------------------------------------
LEMMA ServedRequest ==
  ASSUME ProxyTypes, ServedHeld, NEW p \in Proc, RequestStep(p)
  PROVE  ServedHeld'
<1> USE DEF ServedHeld
<1>1. CASE Request(p)
  BY <1>1, ZenonT(30) DEF Request, ProxyTypes, UnchangedStore
<1>2. CASE RemoteFails(p)
  BY <1>2 DEF RemoteFails, UnchangedStore, Idle, ProxyTypes, Goto
<1>3. CASE CopyContent(p)
  BY <1>3 DEF CopyContent, UnchangedStore, Idle, ProxyTypes, Goto
<1>4. CASE Fetch(p)
  BY <1>4 DEF Fetch, UnchangedStore, BlobSteps, ProxyTypes, Idle, Goto
<1>5. CASE Schedule(p)
  BY <1>5 DEF Schedule, UnchangedStore, Idle, ProxyTypes, Goto
<1>6. CASE ManifestLocal(p)
  BY <1>6 DEF ManifestLocal, UnchangedStore, ManifestSteps, Idle, ProxyTypes, Goto
<1>7. CASE ServeLocalStat(p)
  BY <1>7 DEF ServeLocalStat, Known, KnownGlobally, Cached, BlobSteps, Idle, ProxyTypes, Goto
<1>8. CASE ServeLocal(p)
  BY <1>8 DEF ServeLocal, Cached, BlobSteps, Idle, ProxyTypes, Goto
<1>9. CASE ServeBody(p)
  BY <1>9, ZenonT(30) DEF ServeBody, UnchangedStore, Idle, ProxyTypes, Goto
<1>10. CASE CommitData(p)
  BY <1>10 DEF CommitData, BlobSteps, ProxyTypes, Idle, Goto
<1>11. CASE CommitLink(p)
  BY <1>11 DEF CommitLink, BlobSteps, ProxyTypes, Idle, Goto
<1>12. CASE SetDescriptor(p)
  BY <1>12 DEF SetDescriptor, Cached, BlobSteps, ProxyTypes, Idle, Goto
<1>13. CASE ManifestPut(p)
  BY <1>13 DEF ManifestPut, Cached, ManifestSteps, ProxyTypes, Idle, Goto
<1>14. CASE ManifestLink(p)
  BY <1>14 DEF ManifestLink, ProxyTypes, Idle, Goto
<1>15. QED
  BY <1>1, <1>2, <1>3, <1>4, <1>5, <1>6, <1>7, <1>8, <1>9, <1>10, <1>11, <1>12, <1>13, <1>14, ZenonT(30) DEF RequestStep, Step

LEMMA ServedScheduler ==
  ASSUME ProxyTypes, ServedHeld, SchedulerStep
  PROVE  ServedHeld'
<1> USE DEF ServedHeld
<1>1. CASE ExpiryRemoves
  BY <1>1, ZenonT(30) DEF ExpiryRemoves, ProxyTypes
<1>2. CASE RegistryRestarts
  BY <1>2 DEF RegistryRestarts, Idle
<1>3. CASE ~ExpiryRemoves /\ ~RegistryRestarts
  <2>1. cacheRepo' \subseteq cacheRepo /\ UNCHANGED <<pc, key, raced, data, cacheGlobal, truncated, scenario>>
    BY <1>3 DEF SchedulerStep, SchedStep, ExpiryBegins, ExpiryClears, ExpiryEnds, proxyVars, storeVars
  <2>2. QED
    BY <2>1
<1>4. QED
  BY <1>1, <1>2, <1>3

-----------------------------------------------------------------------------
\* Until it schedules its key, a request takes no plan away: the link it was about to write is there.
LEMMA CoveredByRequest ==
  ASSUME ProxyTypes, KeysFit, NEW p \in Proc, RequestStep(p), ~Schedule(p),
         NEW k \in Key, Covered(k)
  PROVE  Covered(k)'
<1>1. UNCHANGED <<schedVars, lost, xstep>> /\ links \subseteq links'
  BY ZenonT(30) DEF RequestStep, Step, Request, RemoteFails, ServeLocalStat, ServeLocal, ServeBody, Fetch, CopyContent,
         CommitData, CommitLink, SetDescriptor, ManifestLocal, ManifestPut, ManifestLink, UnchangedStore
<1>2. ASSUME WillSchedule(k)
      PROVE  WillSchedule(k)'
  <2>1. PICK q \in Proc : key[q] = k /\ (pc[q] \in {"link", "m.link"} \/ (pc[q] \in {"cache", "add"} /\ k \in links))
    BY <1>2 DEF WillSchedule
  <2>2. CASE q # p
    <3>1. pc'[q] = pc[q] /\ key'[q] = key[q]
      <4>1. CASE Request(p)
        BY <2>2, <4>1 DEF Request, ProxyTypes
      <4>2. CASE RemoteFails(p) \/ Step(p)
        <5>1. \E step \in Steps : Goto(p, step)
          BY <4>2, ZenonT(30) DEF RemoteFails, Step, ServeLocalStat, ServeLocal, ServeBody, Fetch, CopyContent, CommitData,
                CommitLink, SetDescriptor, ManifestLocal, ManifestPut, ManifestLink, Schedule, Steps, BlobSteps, ManifestSteps
        <5>2. QED
          BY <2>2, <5>1, GotoEffect
      <4>3. QED
        BY <4>1, <4>2 DEF RequestStep
    <3>2. QED
      BY <1>1, <2>1, <3>1, ZenonT(30) DEF WillSchedule
  <2>3. CASE q = p
    <3>1. CommitLink(p) \/ SetDescriptor(p) \/ ManifestLink(p)
      BY <2>1, <2>3, ZenonT(30) DEF RequestStep, Step, Request, RemoteFails, ServeLocalStat, ServeLocal, ServeBody, Fetch,
            CopyContent, CommitData, ManifestLocal, ManifestPut, Idle
    <3>2. pc'[p] \in {"cache", "add"} /\ key'[p] = key[p] /\ k \in links'
      BY <2>1, <2>3, <3>1 DEF CommitLink, SetDescriptor, ManifestLink, BlobSteps, Idle, ProxyTypes, Goto
    <3>3. QED
      BY <2>1, <2>3, <3>2 DEF WillSchedule
  <2>4. QED
    BY <2>2, <2>3
<1>3. QED
  BY <1>1, <1>2 DEF Covered, Planned, schedVars

LEMMA CoverageOfRequest ==
  ASSUME ProxyTypes, KeysFit, AllCovered, NEW p \in Proc, RequestStep(p)
  PROVE  AllCovered'
<1>1. CASE Schedule(p)
  <2>1. key[p] \in Key /\ pc[p] = "add" /\ running = NoKey /\ UNCHANGED <<links, data, running, xstep>>
    BY <1>1, ZenonT(30) DEF Schedule, KeysFit, Idle, UnchangedStore, Add, AddRefused, schedVars
  <2>2. \A q \in Proc : q # p => pc'[q] = pc[q] /\ key'[q] = key[q]
    BY <1>1 DEF Schedule, ProxyTypes, Idle, Goto
  <2>3. \A k \in Key : Planned(k) => Planned(k)'
    BY <1>1, <2>1 DEF Schedule, Add, AddRefused, schedVars, Planned, ProxyTypes
  <2>4. ASSUME NEW k \in Key, Covered(k)
        PROVE  Covered(k)'
    <3>1. CASE k \in lost' \/ (k \in links /\ Planned(k)')
      BY <2>1, <3>1, ProxyAssumption DEF Covered
    <3>2. CASE k # key[p] \/ (k \notin links /\ lost' = lost)
      <4>1. WillSchedule(k) => WillSchedule(k)'
        BY <2>1, <2>2, <3>2 DEF WillSchedule
      <4>2. k \in lost => k \in lost'
        BY <1>1, <3>2, ZenonT(30) DEF Schedule
      <4>3. QED
        BY <2>1, <2>3, <2>4, <4>1, <4>2 DEF Covered
    <3>3. k = key[p] => k \in lost' \/ (k \in links /\ Planned(k)') \/ (k \notin links /\ lost' = lost)
      BY <1>1 DEF Schedule, Add, Planned, ProxyTypes
    <3>4. QED
      BY <3>1, <3>2, <3>3
  <2>5. QED
    BY <2>1, <2>4 DEF AllCovered, ProxyTypes
<1>2. CASE ~Schedule(p)
  <2>1. \A k \in Key : Covered(k) => Covered(k)'
    BY <1>2, CoveredByRequest
  <2>2. CASE CommitData(p)
    <3>1. PICK k \in Key : k = key[p]
      BY <2>2 DEF CommitData, KeysFit, Idle
    <3>2. WillSchedule(k)'
      BY <2>2, <3>1 DEF CommitData, WillSchedule, BlobSteps, Idle, ProxyTypes, Goto
    <3>3. data' = data \cup {Dgst(k)} /\ links' = links
      BY <2>2, <3>1 DEF CommitData
    <3>4. QED
      BY <2>1, <3>2, <3>3 DEF AllCovered, Covered, ProxyTypes
  <2>3. CASE CommitLink(p)
    <3>1. links' = links \cup {key[p]} /\ Dgst(key[p]) \notin Manifests /\ data' = data
      BY <2>3 DEF CommitLink, KeysFit, BlobSteps
    <3>2. QED
      BY <2>1, <3>1 DEF AllCovered, ProxyTypes
  <2>4. CASE ManifestLink(p)
    <3>1. PICK k \in Key : k = key[p]
      BY <2>4, ZenonT(30) DEF ManifestLink, KeysFit, Idle
    <3>2. links' = links \cup {k} /\ data' = data /\ WillSchedule(k)'
      BY <2>4, <3>1 DEF ManifestLink, WillSchedule, Idle, ProxyTypes, Goto
    <3>3. QED
      BY <2>1, <3>2 DEF AllCovered, Covered, ProxyTypes
  <2>5. CASE ManifestPut(p)
    <3>1. links' = links /\ data' \ Manifests \subseteq data
      BY <2>5 DEF ManifestPut, KeysFit, ManifestSteps
    <3>2. QED
      BY <2>1, <3>1 DEF AllCovered, ProxyTypes
  <2>6. CASE UNCHANGED <<links, data>>
    BY <2>1, <2>6 DEF AllCovered, ProxyTypes
  <2>7. QED
    BY <1>2, <2>2, <2>3, <2>4, <2>5, <2>6, ZenonT(30) DEF RequestStep, Step, Request, RemoteFails, ServeLocalStat, ServeLocal,
       ServeBody, Fetch, CopyContent, SetDescriptor, ManifestLocal, UnchangedStore
<1>3. QED
  BY <1>1, <1>2

\* The steps of the scheduler that end no plan.
LEMMA CoverageOfTimers ==
  ASSUME ProxyTypes, AllCovered, UNCHANGED storeVars, running' = running,
         \A k \in Key : Planned(k) => Planned(k)'
  PROVE  AllCovered'
<1>1. ASSUME NEW k \in Key, Covered(k)
      PROVE  Covered(k)'
  BY <1>1 DEF Covered, WillSchedule, storeVars
<1>2. QED
  BY <1>1 DEF AllCovered, ProxyTypes, storeVars

\* The expiry function of a key is run by one callback; other keys keep their plans.
LEMMA CoverageOfExpiry ==
  ASSUME ProxyTypes, ManifestsHeld, AllCovered,
         \/ \E k \in Key : ExpiryBegins(k)
         \/ ExpiryClears \/ ExpiryRemoves \/ ExpiryEnds
  PROVE  AllCovered'
<1> USE DEF ProxyTypes
<1>1. ASSUME NEW j \in Key, ExpiryBegins(j)
      PROVE  AllCovered'
  <2>1. /\ running = NoKey /\ xstep = "none" /\ running' = j /\ UNCHANGED <<links, data, lost, pc, key>>
        /\ xstep' = IF Known(j) THEN "clear" ELSE "end"
    BY <1>1 DEF ExpiryBegins, CallbackBegins
  <2>2. \A k \in Key : Planned(k) => Planned(k)'
    <3>1. Planned(j)'
      BY <2>1 DEF Planned
    <3>2. \A k \in Key : k # j => entries'[k] = entries[k] /\ orphans'[k] = orphans[k] /\ waiting'[k] = waiting[k]
      BY <1>1 DEF ExpiryBegins, CallbackBegins
    <3>3. QED
      BY <2>1, <3>1, <3>2, ProxyAssumption, ZenonT(30) DEF Planned
  <2>3. ASSUME NEW k \in Key, Covered(k), k \in links => Dgst(k) \in data
        PROVE  Covered(k)'
    <3>1. k \in links => Known(k)
      BY <2>3 DEF Known, KnownGlobally
    <3>2. QED
      BY <2>1, <2>2, <2>3, <3>1, ProxyAssumption DEF Covered, WillSchedule
  <2>4. QED
    BY <2>1, <2>3 DEF AllCovered, ManifestsHeld
<1>2. CASE ExpiryClears
  <2>1. /\ running \in Key /\ xstep = "clear" /\ links' = links \ {running}
        /\ xstep' = IF Dgst(running) \in Manifests \/ running \notin links THEN "end" ELSE "remove"
        /\ UNCHANGED <<schedVars, pc, key, data, lost>>
    BY <1>2 DEF ExpiryClears
  <2>2. ASSUME NEW k \in Key, Covered(k), k \in links' \/ Dgst(k) \notin Manifests
        PROVE  Covered(k)'
    <3>1. CASE k # running
      BY <2>1, <2>2, <3>1 DEF Covered, WillSchedule, Planned, schedVars
    <3>2. CASE k = running /\ k \in links
      BY <2>1, <2>2, <3>2 DEF Covered, schedVars
    <3>3. CASE k = running /\ k \notin links
      BY <2>1, <2>2, <3>3 DEF Covered, WillSchedule
    <3>4. QED
      BY <3>1, <3>2, <3>3
  <2>3. QED
    BY <2>1, <2>2 DEF AllCovered
<1>3. CASE ExpiryRemoves
  <2>1. /\ running \in Key /\ xstep = "remove" /\ Dgst(running) \notin Manifests /\ xstep' = "end"
        /\ UNCHANGED <<schedVars, links, pc, key>>
    BY <1>3 DEF ExpiryRemoves
  <2>2. CASE data' = data \ {Dgst(running)} /\ lost' = {k \in lost : Dgst(k) # Dgst(running)}
    <3>1. ASSUME NEW k \in Key, Covered(k), Dgst(k) # Dgst(running)
          PROVE  Covered(k)'
      BY <2>1, <2>2, <3>1 DEF Covered, WillSchedule, Planned, schedVars
    <3>2. QED
      BY <2>1, <2>2, <3>1 DEF AllCovered
  <2>3. CASE data' = data /\ lost' = lost \cup {running}
    <3>1. ASSUME NEW k \in Key, Covered(k)
          PROVE  Covered(k)'
      BY <2>1, <2>3, <3>1 DEF Covered, WillSchedule, Planned, schedVars
    <3>2. QED
      BY <2>1, <2>3, <3>1 DEF AllCovered
  <2>4. QED
    BY <1>3, <2>2, <2>3 DEF ExpiryRemoves
<1>4. CASE ExpiryEnds
  <2>1. /\ running \in Key /\ xstep = "end" /\ running' = NoKey /\ xstep' = "none"
        /\ UNCHANGED <<links, data, lost, pc, key>>
    BY <1>4 DEF ExpiryEnds, CallbackEnds
  <2>2. \A k \in Key : k # running /\ Planned(k) => Planned(k)'
    BY <1>4 DEF ExpiryEnds, CallbackEnds, Planned
  <2>3. ASSUME NEW k \in Key, Covered(k)
        PROVE  Covered(k)'
    BY <2>1, <2>2, <2>3, ProxyAssumption, ZenonT(30) DEF Covered, WillSchedule
  <2>4. QED
    BY <2>1, <2>3 DEF AllCovered
<1>5. QED
  BY <1>1, <1>2, <1>3, <1>4

LEMMA CoverageOfRestart ==
  ASSUME ProxyTypes, AllCovered, RegistryRestarts
  PROVE  AllCovered'
<1>1. lost' = lost \cup Forgotten /\ running' = NoKey /\ UNCHANGED <<links, data>>
  BY DEF RegistryRestarts, Restart
<1>2. \A k \in saved \cap links : Covered(k)'
  BY <1>1, ProxyAssumption, ZenonT(30) DEF RegistryRestarts, Restart, Started, Covered, Planned, ProxyTypes
<1>3. \A k \in Forgotten : Covered(k)'
  BY <1>1 DEF Covered
<1>4. ASSUME NEW d \in data \ Manifests
      PROVE  \E k \in Key : Dgst(k) = d /\ (k \in saved \cap links \/ k \in Forgotten)
  <2>1. PICK k \in Key : Dgst(k) = d
    BY DEF AllCovered
  <2>2. CASE \E j \in saved \cap links : Dgst(j) = d
    BY <2>2 DEF ProxyTypes
  <2>3. CASE \A j \in saved \cap links : Dgst(j) # d
    BY <2>1, <2>3 DEF Forgotten
  <2>4. QED
    BY <2>2, <2>3
<1>5. \A k \in links : Dgst(k) \in Manifests => k \in saved \/ k \in Forgotten
  BY DEF Forgotten, ProxyTypes
<1>6. QED
  BY <1>1, <1>2, <1>3, <1>4, <1>5 DEF AllCovered

LEMMA CoverageOfScheduler ==
  ASSUME ProxyTypes, ManifestsHeld, AllCovered, SchedulerStep
  PROVE  AllCovered'
<1>1. ASSUME NEW k \in Key, SchedStep(TimerFires(k))
      PROVE  AllCovered'
  BY <1>1, CoverageOfTimers, SMTT(30) DEF SchedStep, TimerFires, Planned, ProxyTypes
<1>2. CASE SchedStep(SaveIndex) \/ SchedStep(Stop)
  BY <1>2, CoverageOfTimers DEF SchedStep, SaveIndex, Stop, Planned, ProxyTypes
<1>3. CASE UNCHANGED proxyVars
  BY <1>3, CoverageOfTimers DEF proxyVars, schedVars, Planned
<1>4. QED
  BY <1>1, <1>2, <1>3, CoverageOfExpiry, CoverageOfRestart DEF SchedulerStep

-----------------------------------------------------------------------------
LEMMA ProxyInvStep == ProxyInv /\ [ProxyNext]_proxyVars => ProxyInv'
<1> SUFFICES ASSUME ProxyInv, [ProxyNext]_proxyVars PROVE ProxyInv'
  OBVIOUS
<1> USE DEF ProxyInv
<1>1. (\E p \in Proc : RequestStep(p)) \/ SchedulerStep
  BY DEF ProxyNext, RequestStep, SchedulerStep
<1>2. ASSUME NEW p \in Proc, RequestStep(p)
      PROVE  ProxyInv'
  BY <1>2, TypesRequest, KeysRequest, MarkedRequest, HeldRequest, ServedRequest, CoverageOfRequest
<1>3. CASE SchedulerStep
  BY <1>3, TypesScheduler, KeysScheduler, MarkedScheduler, HeldScheduler, ServedScheduler, CoverageOfScheduler
<1>4. QED
  BY <1>1, <1>2, <1>3

LEMMA ProxyInvImplies == ProxyInv => RemovalPlanned /\ OneStores /\ RefetchedWithoutCache
<1> SUFFICES ASSUME ProxyInv PROVE RemovalPlanned /\ OneStores /\ RefetchedWithoutCache
  OBVIOUS
<1>1. \A k \in Key : Covered(k) => Planned(k) \/ Pending(k) \/ k \in lost
  BY DEF Covered, WillSchedule, Pending, Planned
<1>2. RemovalPlanned
  BY <1>1 DEF ProxyInv, AllCovered, RemovalPlanned, ProxyTypes
<1>3. OneStores
  BY DEF ProxyInv, Marked, OneStores
<1>4. RefetchedWithoutCache
  BY DEF ProxyInv, ServedHeld, RefetchedWithoutCache
<1>5. QED
  BY <1>2, <1>3, <1>4

\* In a pull-through cache, with any number of repositories and requests, whatever fails and
\* whenever the registry restarts: nothing stored is left without a plan to remove it, one
\* request at a time stores a digest, and without a descriptor cache no request is answered from
\* content that was removed before it came (ServeBlob, Get and the expiry functions of the proxy).
THEOREM ProxyCorrect == ProxySpec => [](RemovalPlanned /\ OneStores /\ RefetchedWithoutCache)
<1>1. ProxySpec => []ProxyInv
  BY ProxyInvInit, ProxyInvStep, PTL DEF ProxySpec
<1>2. QED
  BY <1>1, ProxyInvImplies, PTL

\* inFlight of the proxied blob store lets one request at a time store a digest.
THEOREM ProxyOneStores == ProxySpec => []OneStores
BY ProxyCorrect, PTL

\* Without a descriptor cache content that expired is fetched again, not answered from what was
\* known about it (ServeBlob and Get after the expiry functions).
THEOREM ProxyRefetched == ProxySpec => []RefetchedWithoutCache
BY ProxyCorrect, PTL
-----------------------------------------------------------------------------
\* Older timers and callbacks of a key that has a fresh timer were there when it was armed.
OvertakenMarked ==
    /\ overtaken \in [Key -> BOOLEAN]
    /\ \A k \in Key : entries[k] = "armed" /\ (orphans[k] > 0 \/ waiting[k] > 0) => overtaken[k]

LEMMA OvertakenScheduler ==
  ASSUME ProxyTypes, OvertakenMarked, SchedulerStep
  PROVE  OvertakenMarked'
<1> USE DEF ProxyTypes, OvertakenMarked
<1>1. ASSUME NEW k \in Key, TimerFires(k) PROVE OvertakenMarked'
  <2>1. CASE entries[k] = "armed" /\ entries' = [entries EXCEPT ![k] = "fired"] /\ orphans' = orphans
    BY <1>1, <2>1 DEF TimerFires
  <2>2. CASE orphans[k] > 0 /\ orphans' = [orphans EXCEPT ![k] = orphans[k] - 1] /\ entries' = entries
    BY <1>1, <2>2 DEF TimerFires
  <2>3. QED
    BY <1>1, <2>1, <2>2 DEF TimerFires
<1>2. ASSUME NEW k \in Key, CallbackBegins(k) PROVE OvertakenMarked'
  BY <1>2 DEF CallbackBegins
<1>3. CASE CallbackEnds
  <2>1. running \in Key
    BY <1>3 DEF CallbackEnds
  <2>2. QED
    BY <1>3, <2>1 DEF CallbackEnds
<1>4. CASE SaveIndex \/ UNCHANGED schedVars
  BY <1>4 DEF SaveIndex, schedVars
<1>5. CASE Stop
  BY <1>5 DEF Stop
<1>6. CASE Restart
  BY <1>6 DEF Restart, Started
<1>7. QED
  BY <1>1, <1>2, <1>3, <1>4, <1>5, <1>6
  DEF SchedulerStep, SchedStep, ExpiryBegins, ExpiryClears, ExpiryRemoves, ExpiryEnds,
      RegistryRestarts, proxyVars

LEMMA OvertakenRequest ==
  ASSUME ProxyTypes, KeysFit, OvertakenMarked, NEW p \in Proc, RequestStep(p)
  PROVE  OvertakenMarked' /\ running' = running
<1>1. CASE UNCHANGED schedVars
  BY <1>1 DEF schedVars, OvertakenMarked
<1>2. CASE Schedule(p)
  <2>1. key[p] \in Key
    BY <1>2 DEF Schedule, KeysFit, Idle
  <2>2. ASSUME Add(key[p]) PROVE OvertakenMarked' /\ running' = running
    BY <2>1, <2>2, ZenonT(30) DEF Add, ProxyTypes, OvertakenMarked
  <2>3. QED
    BY <1>1, <1>2, <2>2 DEF Schedule, AddRefused
<1>3. QED
  BY <1>1, <1>2
  DEF RequestStep, Step, Request, RemoteFails, ServeLocalStat, ServeLocal, ServeBody, Fetch,
      CopyContent, CommitData, CommitLink, SetDescriptor, ManifestLocal, ManifestPut, ManifestLink

(***************************************************************************)
(* startTimer and add of the scheduler: content is removed before its own  *)
(* timer went off only when an older timer of the same reference could no  *)
(* longer be stopped as it was scheduled, for any number of references,    *)
(* requests, timers and restarts.                                          *)
(***************************************************************************)
THEOREM ProxyNotEarly == ProxySpec => EarlyOnlyIfOvertaken
<1>1. ProxyInit => OvertakenMarked
  BY DEF ProxyInit, SchedInit, OvertakenMarked
<1>2. ProxyInv /\ OvertakenMarked /\ [ProxyNext]_proxyVars => OvertakenMarked'
  BY OvertakenScheduler, OvertakenRequest DEF ProxyInv, ProxyNext, SchedulerStep, RequestStep
<1>3. ProxyInv /\ OvertakenMarked /\ [ProxyNext]_proxyVars =>
        [\A k \in Key : running' = k /\ running # k /\ entries[k] = "armed" => overtaken[k]]_schedVars
  <2> SUFFICES ASSUME ProxyInv, OvertakenMarked, [ProxyNext]_proxyVars,
                      NEW k \in Key, running' = k, running # k, entries[k] = "armed"
               PROVE  overtaken[k]
    OBVIOUS
  <2>1. ~\E p \in Proc : RequestStep(p)
    BY OvertakenRequest DEF ProxyInv
  <2>2. SchedulerStep
    BY <2>1 DEF ProxyNext, SchedulerStep, RequestStep
  <2>3. running' = running \/ running' = NoKey \/ CallbackBegins(k)
    BY <2>2
    DEF SchedulerStep, SchedStep, TimerFires, ExpiryBegins, CallbackBegins, ExpiryClears,
        ExpiryRemoves, ExpiryEnds, CallbackEnds, SaveIndex, Stop, RegistryRestarts, Restart,
        proxyVars, schedVars
  <2>4. CallbackBegins(k)
    BY <2>3, ProxyAssumption
  <2>5. QED
    BY <2>4 DEF CallbackBegins, OvertakenMarked, ProxyInv, ProxyTypes
<1>4. QED
  BY <1>1, <1>2, <1>3, ProxyInvInit, ProxyInvStep, PTL DEF ProxySpec, EarlyOnlyIfOvertaken
=============================================================================
