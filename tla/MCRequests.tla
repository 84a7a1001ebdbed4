----------------------------- MODULE MCRequests -----------------------------
(***************************************************************************)
(* Clients and the front of the registry for TLC.  The parts share no      *)
(* state: a behaviour is about one of them (part).                         *)
(***************************************************************************)
EXTENDS Front, DescriptorCache, ClientUpload, ClientPull, TokenAuth, TLC

CONSTANT Parts

VARIABLE part

MCPayload == <<1, 2, 3>>

PlainApp == [readOnly |-> FALSE, accessController |-> TRUE, deleteEnabled |-> TRUE,
             isCache |-> FALSE, classes |-> {}]
MCApps == {PlainApp, [PlainApp EXCEPT !.readOnly = TRUE], [PlainApp EXCEPT !.accessController = FALSE],
           [PlainApp EXCEPT !.deleteEnabled = FALSE], [PlainApp EXCEPT !.isCache = TRUE],
           [PlainApp EXCEPT !.classes = {"image"}], [PlainApp EXCEPT !.classes = {"image", "plugin"}]}

BaseRequest == [route |-> "base", method |-> "GET", tag |-> NoTag, m |-> Nothing, body |-> "ok",
                accept |-> {}, etag |-> Nothing, n |-> "ok", grant |-> {"token"}, class |-> "", long |-> FALSE]
Reader == {"token", "pull"}
Owner == {"token", "pull", "push", "delete", "*"}
ManifestRequest == [BaseRequest EXCEPT !.route = "manifest"]

\* Requests that touch an image or a list, which are sent two at a time; and all the others.
ImageRequests ==
    {[BaseRequest EXCEPT !.route = "blob", !.method = method, !.grant = Owner] : method \in {"GET", "DELETE"}}
    \cup {[ManifestRequest EXCEPT !.tag = t, !.m = "image", !.accept = a, !.grant = Reader] :
             t \in FrontTags \cup {NoTag}, a \in {{}, {"schema2"}, {"schema2", "list", "oci", "index"}}}
    \cup {[ManifestRequest EXCEPT !.tag = t, !.m = "image", !.etag = "image", !.grant = Reader] :
             t \in FrontTags \cup {NoTag}}
    \cup {[ManifestRequest EXCEPT !.method = method, !.tag = t, !.m = m, !.grant = Owner] :
             method \in {"PUT", "DELETE"}, t \in FrontTags \cup {NoTag}, m \in {"image", "list"}}
    \cup {[ManifestRequest EXCEPT !.method = method, !.m = "image", !.grant = Reader] :
             method \in {"PUT", "DELETE"}}

OtherRequests ==
    {[BaseRequest EXCEPT !.grant = g] : g \in {{}, {"token"}}}
    \cup {[BaseRequest EXCEPT !.route = "catalog", !.n = n, !.grant = g] :
             n \in {"ok", "bad"}, g \in {{"token"}, Owner}}
    \cup {[BaseRequest EXCEPT !.route = "tags", !.n = n, !.long = (n = "long"), !.grant = Reader] :
             n \in {"ok", "bad", "long"}}
    \cup {[BaseRequest EXCEPT !.route = "blob", !.method = "DELETE", !.grant = Reader]}
    \cup {[ManifestRequest EXCEPT !.method = "PUT", !.m = m, !.class = c, !.grant = Owner] :
             m \in {"plugin", "oci"}, c \in {"", "plugin"}}
    \cup {[ManifestRequest EXCEPT !.method = "PUT", !.m = "image", !.body = b, !.grant = Owner] :
             b \in {"malformed", "other"}}

MCFrontRequests == [a \in MCApps |-> IF a = PlainApp THEN ImageRequests ELSE ImageRequests \cup OtherRequests]

\* Two requests at once on an image and a list under one name in a plain configuration, one
\* request elsewhere.
FrontStart ==
    /\ Cardinality(repo.revs) <= 2
    /\ frontLeft = IF app = PlainApp /\ repo.revs = {"image", "list"}
                        /\ repo.tags \in [FrontTags -> {"image"}] \cup [FrontTags -> {"list"}]
                     THEN MaxFrontRequests ELSE 1

\* A page size or an empty place in the catalog, or a remote without digests in its headers.
PullStart == (paging # 0 => headDigest) /\ (remote.repos # Name => paging # 0)

\* A clock that is ahead with the widest rights only.  With credentials the ways to fetch a token
\* differ in no step of the model, so a behaviour begins with basic ones or with none.
AuthStart ==
    /\ ~realmAllowed => skew = 0 /\ creds = "basic" /\ ~forceOAuth
    /\ skew # 0 => user = Access /\ creds = "basic" /\ ~forceOAuth
    /\ creds # "refresh" /\ (forceOAuth => creds = "none")
    /\ creds = "none" \/ ~realmAllowed <=> user = {"pull"}

\* The goroutines that share a token handler, and those that share a cache, are alike.
Alike == Permutations(Callers) \cup Permutations(Procs)

requestVars == <<part, frontVars, cacheVars, uploadVars, pullVars, authVars>>

Init ==
    /\ part \in Parts
    /\ FrontInit
    /\ IF part = "front" THEN FrontStart
       ELSE app = PlainApp /\ repo.revs = {} /\ ~repo.blob /\ frontLeft = 1
    /\ CacheInit /\ (part # "cache" => cacheKind = "redis")
    /\ UploadInit /\ (part # "upload" => source)
    /\ PullInit
    /\ IF part = "pull" THEN PullStart ELSE remote.repos = Name /\ paging = 0 /\ headDigest
    /\ AuthInit
    /\ IF part = "auth" THEN AuthStart
       ELSE skew = 0 /\ user = {"pull"} /\ creds = "none" /\ ~forceOAuth /\ realmAllowed

Next ==
    \/ part = "front" /\ FrontNext /\ UNCHANGED <<part, cacheVars, uploadVars, pullVars, authVars>>
    \/ part = "cache" /\ CacheNext /\ UNCHANGED <<part, frontVars, uploadVars, pullVars, authVars>>
    \/ part = "upload" /\ UploadNext /\ UNCHANGED <<part, frontVars, cacheVars, pullVars, authVars>>
    \/ part = "pull" /\ PullNext /\ UNCHANGED <<part, frontVars, cacheVars, uploadVars, authVars>>
    \/ part = "auth" /\ AuthNext /\ UNCHANGED <<part, frontVars, cacheVars, uploadVars, pullVars>>

Spec == Init /\ [][Next]_requestVars
=============================================================================
