----------------------------- MODULE ProxyStore -----------------------------
(***************************************************************************)
(* A pull-through cache: proxyBlobStore, proxyManifestStore and the expiry *)
(* functions of proxyregistry.go on top of TTLScheduler, with the local    *)
(* store they use (links of repositories to content, the content, and the  *)
(* descriptor cache when there is one).  A step is one driver call, one    *)
(* critical section or one exchange with the remote registry; lookups that *)
(* follow each other are one step.                                         *)
(***************************************************************************)
EXTENDS TTLScheduler, Sequences

CONSTANTS Proc,
          Manifests,  \* digests that are manifests; the others are blobs
          Scenarios   \* [asked : SUBSET Key, cache : BOOLEAN, requests, restarts : Nat]: the keys
                      \* requested, whether a memory descriptor cache is configured, and bounds

ASSUME ProxyAssumption ==
    /\ NoKey \notin Key
    /\ \A s \in Scenarios : s.asked \subseteq Key

VARIABLES pc, key,       \* the requests
          links, data,   \* local links and content
          cacheRepo, cacheGlobal,  \* descriptors cached for a repository and for all
          inflight,
          lost,          \* keys whose removal is planned no more
          raced,         \* [Proc -> content was removed while the request was served]
          truncated,     \* a request that overlapped no removal was answered without the bytes
          xstep,         \* step of the running expiry function
          scenario,
          requests, restarts

storeVars == <<pc, key, links, data, cacheRepo, cacheGlobal, inflight, lost, raced,
               truncated, xstep, scenario, requests, restarts>>
proxyVars == <<schedVars, storeVars>>

Repo(k) == k[1]
Dgst(k) == k[2]
Digest == {Dgst(k) : k \in Key}

Idle == "idle"

ProxyInit ==
    /\ SchedInit
    /\ pc = [p \in Proc |-> Idle] /\ key = [p \in Proc |-> NoKey]
    /\ links = {} /\ data = {} /\ cacheRepo = {} /\ cacheGlobal = {}
    /\ inflight = {} /\ scenario \in Scenarios
    /\ lost = {} /\ truncated = FALSE
    /\ raced = [p \in Proc |-> FALSE]
    /\ xstep = "none" /\ requests = 0 /\ restarts = 0

-----------------------------------------------------------------------------
\* Mutant: the store believes every link.
KnownGlobally_Always(d) == TRUE

\* linkedBlobStatter.Stat behind the descriptor cache, and what a hit leaves in the cache.
KnownGlobally(d) == d \in cacheGlobal \/ d \in data
Known(k) == k \in cacheRepo \/ (k \in links /\ KnownGlobally(Dgst(k)))
Cached(c, x) == IF scenario.cache THEN c \cup {x} ELSE c

Goto(p, step) ==
    /\ pc' = [pc EXCEPT ![p] = step]
    /\ key' = IF step = Idle THEN [key EXCEPT ![p] = NoKey] ELSE key
    /\ raced' = [raced EXCEPT ![p] = @ /\ step \in {"serve", "body"}]
UnchangedStore == UNCHANGED <<links, data, cacheRepo, cacheGlobal>>

Request(p) ==
    /\ pc[p] = Idle /\ requests < scenario.requests
    /\ \E k \in scenario.asked : /\ key' = [key EXCEPT ![p] = k]
                        /\ pc' = [pc EXCEPT ![p] = IF Dgst(k) \in Manifests THEN "m.local" ELSE "stat"]
    /\ raced' = [raced EXCEPT ![p] = FALSE]
    /\ requests' = requests + 1
    /\ UnchangedStore
    /\ UNCHANGED <<schedVars, inflight, lost, truncated, xstep, scenario, restarts>>

\* serveLocal: the Stat that decides between the local and the remote store.
ServeLocalStat(p) ==
    /\ pc[p] = "stat"
    /\ IF Known(key[p])
       THEN /\ Goto(p, "serve")
            /\ cacheRepo' = Cached(cacheRepo, key[p])
            /\ cacheGlobal' = Cached(cacheGlobal, Dgst(key[p]))
       ELSE Goto(p, "remote") /\ UNCHANGED <<cacheRepo, cacheGlobal>>
    /\ UNCHANGED <<schedVars, links, data, inflight, lost, truncated, xstep, scenario, requests, restarts>>

\* linkedBlobStore.ServeBlob and blobServer.ServeBlob look the blob up again; unknown is an error.
ServeLocal(p) ==
    /\ pc[p] = "serve"
    /\ LET found == Known(key[p]) /\ KnownGlobally(Dgst(key[p]))
       IN /\ Goto(p, IF found THEN "body" ELSE Idle)
          /\ cacheGlobal' = IF found THEN Cached(cacheGlobal, Dgst(key[p])) ELSE cacheGlobal
    /\ UNCHANGED <<schedVars, links, data, cacheRepo, inflight, lost, truncated, xstep, scenario, requests, restarts>>

\* The file reader of blobServer finds a missing file empty.
ServeBody(p) ==
    /\ pc[p] = "body"
    /\ truncated' = (truncated \/ (Dgst(key[p]) \notin data /\ ~raced[p]))
    /\ Goto(p, Idle)
    /\ UnchangedStore
    /\ UNCHANGED <<schedVars, inflight, lost, xstep, scenario, requests, restarts>>

\* tryEstablishChallenges failed, or the remote store.
RemoteFails(p) ==
    /\ pc[p] \in {"remote", "copy", "store", "m.remote"}
    /\ Goto(p, Idle)
    /\ inflight' = IF pc[p] = "store" THEN inflight \ {Dgst(key[p])} ELSE inflight
    /\ UnchangedStore
    /\ UNCHANGED <<schedVars, lost, truncated, xstep, scenario, requests, restarts>>

\* Mutant: every request stores.
Fetch_Unchecked(p) ==
    /\ pc[p] = "remote"
    /\ Goto(p, "store") /\ inflight' = inflight \cup {Dgst(key[p])}
    /\ UnchangedStore
    /\ UNCHANGED <<schedVars, lost, truncated, xstep, scenario, requests, restarts>>

\* ServeBlob: one request at a time stores a digest; the others copy from the remote.
Fetch(p) ==
    /\ pc[p] = "remote"
    /\ IF Dgst(key[p]) \in inflight
       THEN Goto(p, "copy") /\ UNCHANGED inflight
       ELSE Goto(p, "store") /\ inflight' = inflight \cup {Dgst(key[p])}
    /\ UnchangedStore
    /\ UNCHANGED <<schedVars, lost, truncated, xstep, scenario, requests, restarts>>

CopyContent(p) ==
    /\ pc[p] = "copy"
    /\ Goto(p, Idle)
    /\ UnchangedStore
    /\ UNCHANGED <<schedVars, inflight, lost, truncated, xstep, scenario, requests, restarts>>

\* The content is copied to the client and to a blob writer; blobWriter.Commit moves it,
\* links it and caches its descriptor.
CommitData(p) ==
    /\ pc[p] = "store"
    /\ data' = data \cup {Dgst(key[p])}
    /\ Goto(p, "link")
    /\ UNCHANGED <<schedVars, links, cacheRepo, cacheGlobal, inflight, lost, truncated, xstep, scenario, requests, restarts>>

CommitLink(p) ==
    /\ pc[p] = "link"
    /\ links' = links \cup {key[p]}
    /\ Goto(p, IF scenario.cache THEN "cache" ELSE "add")
    /\ UNCHANGED <<schedVars, data, cacheRepo, cacheGlobal, inflight, lost, truncated, xstep, scenario, requests, restarts>>

SetDescriptor(p) ==
    /\ pc[p] = "cache"
    /\ cacheRepo' = Cached(cacheRepo, key[p])
    /\ cacheGlobal' = Cached(cacheGlobal, Dgst(key[p]))
    /\ Goto(p, "add")
    /\ UNCHANGED <<schedVars, links, data, inflight, lost, truncated, xstep, scenario, requests, restarts>>

\* AddBlob or AddManifest, and the end of the request.
Schedule(p) ==
    /\ pc[p] = "add"
    /\ \/ Add(key[p]) /\ lost' = IF key[p] \in links THEN lost \ {key[p]} ELSE lost
       \/ AddRefused /\ lost' = lost \cup {key[p]}
    /\ Goto(p, Idle)
    /\ inflight' = inflight \ {Dgst(key[p])}
    /\ UnchangedStore
    /\ UNCHANGED <<truncated, xstep, scenario, requests, restarts>>

-----------------------------------------------------------------------------
\* proxyManifestStore.Get: the local manifest is read, not only looked up.
ManifestLocal(p) ==
    /\ pc[p] = "m.local"
    /\ Goto(p, IF Known(key[p]) /\ Dgst(key[p]) \in data THEN Idle ELSE "m.remote")
    /\ UnchangedStore
    /\ UNCHANGED <<schedVars, inflight, lost, truncated, xstep, scenario, requests, restarts>>

\* The manifest comes from the remote.  linkedBlobStore.Put: content the global statter knows is not written; the descriptor is
\* cached before the link is written.
ManifestPut(p) ==
    /\ pc[p] = "m.remote"
    /\ data' = IF KnownGlobally(Dgst(key[p])) THEN data ELSE data \cup {Dgst(key[p])}
    /\ cacheRepo' = Cached(cacheRepo, key[p])
    /\ cacheGlobal' = Cached(cacheGlobal, Dgst(key[p]))
    /\ Goto(p, "m.link")
    /\ UNCHANGED <<schedVars, links, inflight, lost, truncated, xstep, scenario, requests, restarts>>

ManifestLink(p) ==
    /\ pc[p] = "m.link"
    /\ links' = links \cup {key[p]}
    /\ Goto(p, "add")
    /\ UNCHANGED <<schedVars, data, cacheRepo, cacheGlobal, inflight, lost, truncated, xstep, scenario, requests, restarts>>

-----------------------------------------------------------------------------
\* The expiry functions, under the scheduler's lock.  Delete looks the content up ...
ExpiryBegins(k) ==
    /\ CallbackBegins(k)
    /\ xstep' = IF Known(k) THEN "clear" ELSE "end"
    /\ UNCHANGED <<pc, key, links, data, cacheRepo, cacheGlobal, inflight, lost, raced, truncated, scenario, requests, restarts>>

\* ... clears the repository's cached descriptor and then the link, which may be missing ...
ExpiryClears ==
    /\ xstep = "clear"
    /\ cacheRepo' = cacheRepo \ {running}
    /\ links' = links \ {running}
    /\ xstep' = IF Dgst(running) \in Manifests \/ running \notin links THEN "end" ELSE "remove"
    /\ UNCHANGED <<schedVars, pc, key, data, cacheGlobal, inflight, lost, raced, truncated, scenario, requests, restarts>>

\* ... and a blob's content is removed by the vacuum, or the removal fails.
ExpiryRemoves ==
    /\ xstep = "remove"
    /\ \/ /\ data' = data \ {Dgst(running)}
          /\ lost' = {k \in lost : Dgst(k) # Dgst(running)}
          /\ raced' = [p \in Proc |-> raced[p] \/ (pc[p] \in {"stat", "serve", "body"} /\ Dgst(key[p]) = Dgst(running))]
       \/ lost' = lost \cup {running} /\ UNCHANGED <<data, raced>>
    /\ xstep' = "end"
    /\ UNCHANGED <<schedVars, pc, key, links, cacheRepo, cacheGlobal, inflight, truncated, scenario, requests, restarts>>

ExpiryEnds ==
    /\ xstep = "end" /\ CallbackEnds
    /\ xstep' = "none"
    /\ UNCHANGED <<pc, key, links, data, cacheRepo, cacheGlobal, inflight, lost, raced, truncated, scenario, requests, restarts>>

-----------------------------------------------------------------------------
\* What no saved entry can remove: the link of a manifest, or the content of a blob.
Forgotten == {k \in Key : IF Dgst(k) \in Manifests THEN k \in links \ saved
                          ELSE Dgst(k) \in data /\ \A j \in saved : Dgst(j) = Dgst(k) => j \notin links}

\* The registry is stopped (Close), or crashes, and starts again.
RegistryRestarts ==
    /\ restarts < scenario.restarts
    /\ Restart
    /\ lost' = lost \cup Forgotten
    /\ pc' = [p \in Proc |-> Idle] /\ key' = [p \in Proc |-> NoKey]
    /\ raced' = [p \in Proc |-> FALSE] /\ inflight' = {} /\ cacheRepo' = {} /\ cacheGlobal' = {}
    /\ xstep' = "none" /\ restarts' = restarts + 1
    /\ UNCHANGED <<links, data, truncated, scenario, requests>>

Step(p) == \/ ServeLocalStat(p) \/ ServeLocal(p) \/ ServeBody(p)
           \/ Fetch(p) \/ CopyContent(p) \/ CommitData(p) \/ CommitLink(p) \/ SetDescriptor(p)
           \/ ManifestLocal(p) \/ ManifestPut(p) \/ ManifestLink(p)
           \/ Schedule(p)

SchedStep(A) == A /\ UNCHANGED storeVars

ProxyNext ==
    \/ \E p \in Proc : Request(p) \/ RemoteFails(p) \/ Step(p)
    \/ \E k \in Key : SchedStep(TimerFires(k)) \/ ExpiryBegins(k)
    \/ ExpiryClears \/ ExpiryRemoves \/ ExpiryEnds
    \/ SchedStep(SaveIndex) \/ SchedStep(Stop)
    \/ RegistryRestarts

\* Timers go off, the lock is handed on, and what runs runs on.
ProxyFairness ==
    /\ \A p \in Proc : WF_proxyVars(Step(p))
    /\ \A k \in Key : WF_proxyVars(SchedStep(TimerFires(k))) /\ WF_proxyVars(ExpiryBegins(k))
    /\ WF_proxyVars(ExpiryClears \/ ExpiryRemoves \/ ExpiryEnds)

ProxySpec == ProxyInit /\ [][ProxyNext]_proxyVars /\ ProxyFairness

-----------------------------------------------------------------------------
Storing(p) == pc[p] \in {"store", "link", "cache", "add"} /\ Dgst(key[p]) \notin Manifests

\* The local store, the in-flight set and the requests have their types.
ProxyTypeOK ==
    /\ SchedTypeOK
    /\ key \in [Proc -> Key \cup {NoKey}] /\ links \subseteq Key /\ data \subseteq Digest
    /\ cacheRepo \subseteq Key /\ cacheGlobal \subseteq Digest /\ lost \subseteq Key
    /\ raced \in [Proc -> BOOLEAN]
    /\ xstep \in {"none", "clear", "remove", "end"} /\ (xstep = "none" <=> running = NoKey)

\* A request is about to schedule the key.
Pending(k) == \E p \in Proc : key[p] = k /\ pc[p] \in {"link", "cache", "m.link", "add"}

\* Nothing the cache stored is kept by accident: blobs, and the manifests of a repository,
\* have a timer, a callback or a request that will remove or schedule them, except content
\* whose schedule was lost with the process, refused at shutdown or dropped by a failed removal.
RemovalPlanned ==
    /\ \A d \in data \ Manifests : \E k \in Key : Dgst(k) = d /\ (Planned(k) \/ Pending(k) \/ k \in lost)
    /\ \A k \in links : Dgst(k) \in Manifests => Planned(k) \/ Pending(k) \/ k \in lost

\* One request at a time stores a digest, and a digest is marked in flight exactly as long.
OneStores ==
    /\ inflight = {Dgst(key[p]) : p \in {q \in Proc : Storing(q)}}
    /\ \A p, q \in Proc : Storing(p) /\ Storing(q) /\ p # q => Dgst(key[p]) # Dgst(key[q])

\* Without a descriptor cache, a request that began after content was removed is not served
\* from it: the content is fetched from the remote registry again.
RefetchedWithoutCache == scenario.cache \/ ~truncated

\* Every request ends, with the expiry functions holding the scheduler's lock in between.
RequestsEnd == \A p \in Proc : (pc[p] # Idle) ~> (pc[p] = Idle)
=============================================================================
