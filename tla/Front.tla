------------------------------- MODULE Front -------------------------------
(***************************************************************************)
(* The registry's HTTP front (registry/handlers): a request is authorized, *)
(* its repository resolved, its method looked up, and the handlers of      *)
(* manifests, tags, blobs and the catalog run, one storage call at a time, *)
(* while other requests do the same.  The storage calls themselves are     *)
(* taken whole (ContentStore has their steps), uploads are in BlobUpload   *)
(* and ClientUpload, the contents of listings in Listing.  In a            *)
(* pull-through cache the repository stands for what the cache can serve   *)
(* of its remote (ProxyStore).  The client's reading of an answer is added *)
(* (internal/client/errors.go).                                            *)
(***************************************************************************)
EXTENDS APIDescriptors, Sequences, FiniteSets

CONSTANTS Workers,        \* requests in progress at once
          FrontTags,
          NoTag,
          FrontManifests, \* a subset of DOMAIN MediaType
          Nothing,        \* no manifest
          Apps,           \* configurations of the application
          Requests,       \* the requests sent to each of them
          MaxFrontRequests,
          MaxFrontFaults

\* app: the configuration.  repo: the repository.  job: the request each worker serves.
\* seen: the states of the repository since its request came.
VARIABLES app, repo, job, seen, frontLeft, frontFaults
frontVars == <<app, repo, job, seen, frontLeft, frontFaults>>

\* What GetManifest and applyResourcePolicy tell apart in a manifest.  "ociList" is a manifest
\* list whose image for the default platform is an OCI one, "bareList" one without such an image.
MediaType == [image |-> "schema2", plugin |-> "schema2", oci |-> "oci",
              list |-> "list", ociList |-> "list", bareList |-> "list", index |-> "index"]
ConfigClass == [image |-> "image", plugin |-> "plugin", oci |-> "image",
                list |-> "", ociList |-> "", bareList |-> "", index |-> ""]
DefaultPlatform == [list |-> "image", ociList |-> "oci", bareList |-> Nothing, index |-> "oci"]
IsList(m) == m \in DOMAIN DefaultPlatform

\* The requests the API describes, uploads apart, for names of this repository; a manifest that
\* is put is one of those, and none is nothing.
ASSUME FrontAssumption ==
    /\ FrontManifests \subseteq DOMAIN MediaType /\ Nothing \notin FrontManifests
    /\ \A a \in Apps : \A r \in Requests[a] :
          /\ r.tag \in FrontTags \cup {NoTag}
          /\ \/ r.method = "GET" /\ r.route \in {"base", "catalog", "tags", "manifest", "blob"}
             \/ r.method = "DELETE" /\ r.route \in {"manifest", "blob"}
             \/ r.method = "PUT" /\ r.route = "manifest" /\ r.m \in FrontManifests

IdleJob == [req |-> [route |-> "none"], at |-> "idle", digest |-> Nothing, errs |-> <<>>,
            status |-> 0, did |-> {}, todo |-> {}]

FrontInit ==
    /\ app \in Apps
    /\ \E revs \in SUBSET FrontManifests, blob \in BOOLEAN :
          /\ \A m \in revs : IF IsList(m) THEN DefaultPlatform[m] \in revs \cup {Nothing} ELSE blob
          /\ \E tags \in [FrontTags -> revs \cup {Nothing}] :
                repo = [tags |-> tags, revs |-> revs, blob |-> blob]
    /\ job = [w \in Workers |-> IdleJob]
    /\ seen = [w \in Workers |-> {}]
    /\ frontLeft \in 1..MaxFrontRequests /\ frontFaults = MaxFrontFaults

At(w, at) == job[w].at = at
Req(w) == job[w].req
Handles(w, route, method) == Req(w).route = route /\ Req(w).method = method
Keeps == UNCHANGED <<app, repo, frontLeft, frontFaults>>

Goes(w, at) == job' = [job EXCEPT ![w].at = at]

-----------------------------------------------------------------------------
\* ServeJSON: the first error decides the status; without one it is 500.
ServeJSON(errs) == IF errs = <<>> THEN 500 ELSE HTTPStatus(errs[1])

\* The handler returns with errors, which the dispatcher's deferred function serves.
FailsWith(w, errs) == job' = [job EXCEPT ![w].at = "done", ![w].errs = errs, ![w].status = ServeJSON(errs)]
\* The handler writes the status itself.
Answers(w, status) == job' = [job EXCEPT ![w].at = "done", ![w].status = status]

\* A storage call of the handler fails.
Faulty(w, errs) ==
    /\ frontFaults > 0 /\ frontFaults' = frontFaults - 1
    /\ FailsWith(w, errs)
    /\ UNCHANGED <<app, repo, frontLeft>>

-----------------------------------------------------------------------------
\* The actions a request needs; nothing but a valid token for the base route.
NeededAccess(r) ==
    CASE r.route = "catalog"                  -> {"*"}
      [] r.route = "base"                     -> {}
      [] r.method = "GET"                     -> {"pull"}
      [] r.method \in {"POST", "PUT", "PATCH"} -> {"pull", "push"}
      [] r.method = "DELETE"                  -> {"delete"}

\* A wrong check that every action of a repository is implied by pull.
authorized_PullIsEnough(r) ==
    app.accessController => {"token"} \cup (NeededAccess(r) \cap {"pull", "*"}) \subseteq r.grant

authorized(r) == app.accessController => {"token"} \cup NeededAccess(r) \subseteq r.grant

nameRequired(r) == r.route \notin {"base", "catalog"}

\* The method tables of the dispatchers: a registry under maintenance only reads.
MethodAllowed(r) == r.method = "GET" \/ ~app.readOnly

\* The first call of the handler of a route and method.
Handler(r) ==
    CASE r.route = "manifest" /\ r.method = "GET" -> IF r.tag # NoTag THEN "getTag" ELSE "getDigest"
      [] r.route = "manifest" /\ r.method = "PUT" -> "putBody"
      [] r.route = "manifest" /\ r.method = "DELETE" -> IF r.tag # NoTag THEN "untag" ELSE "delete"
      [] r.route = "blob" /\ r.method = "GET" -> "statBlob"
      [] r.route = "blob" /\ r.method = "DELETE" -> "deleteBlob"
      [] OTHER -> r.route

Arrived(w, r, at, errs, status) ==
    /\ job[w].at \in {"idle", "done"} /\ frontLeft > 0
    /\ frontLeft' = frontLeft - 1
    /\ job' = [job EXCEPT ![w] = [IdleJob EXCEPT !.req = r, !.at = at, !.errs = errs, !.status = status]]
    /\ UNCHANGED <<app, repo>>

\* dispatcher: the request is authorized, its name checked, its repository resolved, its method
\* looked up.  A name over 255 characters passes the router and is refused by reference.WithName
\* with an error that has no code.
dispatcher(w, r) ==
    /\ UNCHANGED frontFaults
    /\ IF ~authorized(r) THEN Arrived(w, r, "done", <<"UNAUTHORIZED">>, ServeJSON(<<"UNAUTHORIZED">>))
       ELSE IF nameRequired(r) /\ r.long
         THEN Arrived(w, r, "done", <<"ErrRepositoryNameInvalid">>, ServeJSON(<<"ErrRepositoryNameInvalid">>))
       ELSE IF ~MethodAllowed(r) THEN Arrived(w, r, "done", <<>>, 405)
       ELSE Arrived(w, r, Handler(r), <<>>, 0)

\* The access controller fails otherwise than with a challenge: a bare 400.  The Repository of a
\* cache contacts the remote; when that fails its error has no code and is not recorded.
dispatcherFails(w, r) ==
    /\ frontFaults > 0 /\ frontFaults' = frontFaults - 1
    /\ \/ app.accessController /\ Arrived(w, r, "done", <<>>, 400)
       \/ app.isCache /\ authorized(r) /\ nameRequired(r) /\ ~r.long
          /\ Arrived(w, r, "done", <<>>, ServeJSON(<<>>))

-----------------------------------------------------------------------------
\* GetManifest: the tag, the conditional request, the manifest, the negotiation.
ResolveTag(w) ==
    /\ At(w, "getTag")
    /\ LET m == repo.tags[Req(w).tag]
       IN IF m = Nothing THEN FailsWith(w, <<"MANIFEST_UNKNOWN">>)
          ELSE IF Req(w).etag = m THEN Answers(w, 304)
          ELSE job' = [job EXCEPT ![w].digest = m, ![w].at = "get"]
    /\ Keeps

ResolveDigest(w) ==
    /\ At(w, "getDigest")
    /\ IF Req(w).etag = Req(w).m THEN Answers(w, 304)
       ELSE job' = [job EXCEPT ![w].digest = Req(w).m, ![w].at = "get"]
    /\ Keeps

\* A wrong negotiation that serves an OCI index to every client.
Negotiate_AnyIndex(w, m) ==
    CASE MediaType[m] = "oci" /\ "oci" \notin Req(w).accept -> FailsWith(w, <<"MANIFEST_UNKNOWN">>)
      [] Req(w).tag # NoTag /\ MediaType[m] = "list" /\ "list" \notin Req(w).accept -> Goes(w, "getDefault")
      [] OTHER -> Answers(w, 200)

\* Only a manifest list asked for by tag is replaced by its image for the default platform.
Negotiate(w, m) ==
    CASE MediaType[m] = "oci" /\ "oci" \notin Req(w).accept -> FailsWith(w, <<"MANIFEST_UNKNOWN">>)
      [] MediaType[m] = "index" /\ "index" \notin Req(w).accept -> FailsWith(w, <<"MANIFEST_UNKNOWN">>)
      [] Req(w).tag # NoTag /\ MediaType[m] = "list" /\ "list" \notin Req(w).accept -> Goes(w, "getDefault")
      [] OTHER -> Answers(w, 200)

GetManifest(w) ==
    /\ At(w, "get")
    /\ LET m == job[w].digest
       IN IF m \notin repo.revs THEN FailsWith(w, <<"MANIFEST_UNKNOWN">>) ELSE Negotiate(w, m)
    /\ Keeps

GetDefault(w) ==
    /\ At(w, "getDefault")
    /\ LET m == DefaultPlatform[job[w].digest]
       IN CASE m \notin repo.revs -> FailsWith(w, <<"MANIFEST_UNKNOWN">>)
            [] m \in repo.revs /\ MediaType[m] = "schema2" /\ "schema2" \notin Req(w).accept ->
                   FailsWith(w, <<"MANIFEST_INVALID">>)
            [] OTHER -> job' = [job EXCEPT ![w].digest = m, ![w].at = "done", ![w].status = 200]
    /\ Keeps

-----------------------------------------------------------------------------
\* applyResourcePolicy: the classes the configuration allows, then the class of the token's
\* resource, which is "image" when the token names none.
PolicyAllows(r) ==
    LET class == ConfigClass[r.m]
    IN \/ app.classes = {}
       \/ class = ""
       \/ /\ class \in app.classes
          /\ app.accessController => (IF r.class = "" THEN "image" ELSE r.class) = class

\* PutManifest up to the store: the body, its digest, the policy.
ReadManifest(w) ==
    /\ At(w, "putBody")
    /\ LET r == Req(w)
       IN IF r.body = "malformed" THEN FailsWith(w, <<"MANIFEST_INVALID">>)
          ELSE IF r.body = "other" /\ r.tag = NoTag THEN FailsWith(w, <<"DIGEST_INVALID">>)
          ELSE IF ~PolicyAllows(r) THEN FailsWith(w, <<"DENIED">>)
          ELSE Goes(w, "put")
    /\ Keeps

\* The client goes away: copyFullPayload writes 499 before the error is recorded.
ClientGone(w) ==
    /\ At(w, "putBody") /\ frontFaults > 0
    /\ frontFaults' = frontFaults - 1
    /\ job' = [job EXCEPT ![w].at = "done", ![w].errs = <<"MANIFEST_INVALID">>, ![w].status = 499]
    /\ UNCHANGED <<app, repo, frontLeft>>

Missing(m) == IF IsList(m) THEN DefaultPlatform[m] \notin repo.revs \cup {Nothing} ELSE ~repo.blob

StoreManifest(w) ==
    /\ At(w, "put")
    /\ LET r == Req(w)
       IN IF app.isCache THEN FailsWith(w, <<"UNSUPPORTED">>) /\ UNCHANGED repo
          ELSE IF Missing(r.m) THEN FailsWith(w, <<"MANIFEST_BLOB_UNKNOWN">>) /\ UNCHANGED repo
          ELSE /\ repo' = [repo EXCEPT !.revs = @ \cup {r.m}]
               /\ IF r.tag # NoTag THEN job' = [job EXCEPT ![w].at = "tag", ![w].did = {"put"}]
                  ELSE job' = [job EXCEPT ![w].at = "done", ![w].did = {"put"}, ![w].status = 201]
    /\ UNCHANGED <<app, frontLeft, frontFaults>>

TagManifest(w) ==
    /\ At(w, "tag")
    /\ repo' = [repo EXCEPT !.tags[Req(w).tag] = Req(w).m]
    /\ job' = [job EXCEPT ![w].at = "done", ![w].did = @ \cup {"tag"}, ![w].status = 201]
    /\ UNCHANGED <<app, frontLeft, frontFaults>>

-----------------------------------------------------------------------------
\* DeleteManifest by tag: nothing asks whether deletes are enabled.
UntagManifest(w) ==
    /\ At(w, "untag")
    /\ IF app.isCache THEN FailsWith(w, <<"UNSUPPORTED">>) /\ UNCHANGED repo
       ELSE IF repo.tags[Req(w).tag] = Nothing THEN FailsWith(w, <<"MANIFEST_UNKNOWN">>) /\ UNCHANGED repo
       ELSE /\ repo' = [repo EXCEPT !.tags[Req(w).tag] = Nothing]
            /\ job' = [job EXCEPT ![w].at = "done", ![w].did = {"untag"}, ![w].status = 202]
    /\ UNCHANGED <<app, frontLeft, frontFaults>>

DeleteManifest(w) ==
    /\ At(w, "delete")
    /\ IF app.isCache \/ ~app.deleteEnabled THEN FailsWith(w, <<"UNSUPPORTED">>) /\ UNCHANGED repo
       ELSE IF Req(w).m \notin repo.revs THEN FailsWith(w, <<"MANIFEST_UNKNOWN">>) /\ UNCHANGED repo
       ELSE /\ repo' = [repo EXCEPT !.revs = @ \ {Req(w).m}]
            /\ job' = [job EXCEPT ![w].at = "lookup", ![w].did = {"delete"}]
    /\ UNCHANGED <<app, frontLeft, frontFaults>>

LookupTags(w) ==
    /\ At(w, "lookup")
    /\ job' = [job EXCEPT ![w].at = "untagAll",
                          ![w].todo = {t \in FrontTags : repo.tags[t] = Req(w).m}]
    /\ Keeps

\* One of the concurrent Untag calls; a tag that is gone is one more error.
UntagOne(w, t) ==
    /\ At(w, "untagAll") /\ t \in job[w].todo
    /\ IF repo.tags[t] = Nothing
         THEN /\ job' = [job EXCEPT ![w].todo = @ \ {t}, ![w].errs = Append(@, "PathNotFound")]
              /\ UNCHANGED repo
         ELSE /\ repo' = [repo EXCEPT !.tags[t] = Nothing]
              /\ job' = [job EXCEPT ![w].todo = @ \ {t}]
    /\ UNCHANGED <<app, frontLeft, frontFaults>>

\* A wrong loop that drops the error of an Untag.
UntagOneFails_Silent(w, t) ==
    /\ At(w, "untagAll") /\ t \in job[w].todo
    /\ frontFaults > 0 /\ frontFaults' = frontFaults - 1
    /\ job' = [job EXCEPT ![w].todo = @ \ {t}]
    /\ UNCHANGED <<app, repo, frontLeft>>

UntagOneFails(w, t) ==
    /\ At(w, "untagAll") /\ t \in job[w].todo
    /\ frontFaults > 0 /\ frontFaults' = frontFaults - 1
    /\ job' = [job EXCEPT ![w].todo = @ \ {t}, ![w].errs = Append(@, "StorageError")]
    /\ UNCHANGED <<app, repo, frontLeft>>

\* A wrong end that leaves the status to net/http.
DeleteEnds_NoStatus(w) ==
    At(w, "untagAll") /\ job[w].todo = {} /\ Answers(w, 200) /\ Keeps

\* The status is written whatever the errors; they follow as the body.
DeleteEnds(w) ==
    At(w, "untagAll") /\ job[w].todo = {} /\ Answers(w, 202) /\ Keeps

-----------------------------------------------------------------------------
GetBlob(w) ==
    /\ At(w, "statBlob")
    /\ IF ~repo.blob THEN FailsWith(w, <<"BLOB_UNKNOWN">>) ELSE Goes(w, "serveBlob")
    /\ Keeps

\* The blob, its part, or a redirect to where it is stored; the range may be outside it.
ServeBlob(w) ==
    /\ At(w, "serveBlob")
    /\ IF repo.blob THEN \E status \in {200, 206, 307, 416} : Answers(w, status)
       ELSE FailsWith(w, <<"UNKNOWN">>)
    /\ Keeps

DeleteBlob(w) ==
    /\ At(w, "deleteBlob")
    /\ IF app.isCache \/ ~app.deleteEnabled THEN FailsWith(w, <<"UNSUPPORTED">>) /\ UNCHANGED repo
       ELSE IF ~repo.blob THEN FailsWith(w, <<"BLOB_UNKNOWN">>) /\ UNCHANGED repo
       ELSE /\ repo' = [repo EXCEPT !.blob = FALSE]
            /\ job' = [job EXCEPT ![w].at = "done", ![w].did = {"deleteBlob"}, ![w].status = 202]
    /\ UNCHANGED <<app, frontLeft, frontFaults>>

\* A repository is unknown to the tag listing when it has no tags directory.  The tag service
\* of a cache does not list: its error has no code.
GetTags(w) ==
    /\ At(w, "tags")
    /\ \/ Req(w).n = "bad" /\ FailsWith(w, <<"PAGINATION_NUMBER_INVALID">>)
       \/ Req(w).n # "bad" /\ IF app.isCache THEN FailsWith(w, <<"UNKNOWN">>)
                              ELSE \/ Answers(w, 200)
                                   \/ /\ \A t \in FrontTags : repo.tags[t] = Nothing
                                      /\ FailsWith(w, <<"NAME_UNKNOWN">>)
    /\ Keeps

GetCatalog(w) ==
    /\ At(w, "catalog")
    /\ IF Req(w).n = "bad" THEN FailsWith(w, <<"PAGINATION_NUMBER_INVALID">>) ELSE Answers(w, 200)
    /\ Keeps

apiBase(w) == At(w, "base") /\ Answers(w, 200) /\ Keeps

\* Storage calls whose failure the handler answers with UNKNOWN, or with an error without a code.
CallFails(w) ==
    /\ \/ job[w].at \in {"getTag", "get", "getDefault", "put", "tag", "untag", "delete",
                         "statBlob", "serveBlob", "tags", "catalog"}
       \/ job[w].at \in {"lookup", "deleteBlob"}
    /\ ~(app.isCache /\ job[w].at \in {"put", "untag", "delete", "deleteBlob", "tags"})
    /\ Faulty(w, IF job[w].at \in {"lookup", "deleteBlob"} THEN <<"StorageError">> ELSE <<"UNKNOWN">>)

WorkerStep(w) ==
    \/ \E r \in Requests[app] : dispatcher(w, r) \/ dispatcherFails(w, r)
    \/ ResolveTag(w) \/ ResolveDigest(w) \/ GetManifest(w) \/ GetDefault(w)
    \/ ReadManifest(w) \/ ClientGone(w) \/ StoreManifest(w) \/ TagManifest(w)
    \/ UntagManifest(w) \/ DeleteManifest(w) \/ LookupTags(w) \/ DeleteEnds(w)
    \/ \E t \in FrontTags : UntagOne(w, t) \/ UntagOneFails(w, t)
    \/ GetBlob(w) \/ ServeBlob(w) \/ DeleteBlob(w)
    \/ GetTags(w) \/ GetCatalog(w) \/ apiBase(w)
    \/ CallFails(w)

\* The repository as each request in progress could have seen it.
Watch == seen' = [w \in Workers |->
                    IF job[w].at \in {"idle", "done"}
                      THEN IF job'[w] = job[w] THEN seen[w] ELSE {repo}
                      ELSE seen[w] \cup {repo'}]

FrontNext == (\E w \in Workers : WorkerStep(w)) /\ Watch

FrontSpec == FrontInit /\ [][FrontNext]_frontVars

-----------------------------------------------------------------------------
\* The client's side of an answer.  The codes of a JSON body; a body of another kind, or none, is
\* read by its status.  The token challenge adds a code of its own.
makeError(status) ==
    CASE status = 401 -> "UNAUTHORIZED" [] status = 403 -> "DENIED"
      [] status = 429 -> "TOOMANYREQUESTS" [] OTHER -> "UNKNOWN"

parseHTTPErrorResponse(j) ==
    IF j.errs = <<>> THEN {makeError(j.status)}
    ELSE {ParseErrorCode(j.errs[i]) : i \in DOMAIN j.errs}

challengeError(j) == IF j.status = 401 /\ "token" \in j.req.grant THEN {"DENIED"} ELSE {}

HandleHTTPResponseError(j) ==
    IF j.status \in 200..399 THEN {}
    ELSE IF j.status \in 400..499 THEN challengeError(j) \cup parseHTTPErrorResponse(j)
    ELSE {"UnexpectedHTTPStatus"}

-----------------------------------------------------------------------------
Done(w, route, method) == At(w, "done") /\ Handles(w, route, method)
Told(w) == HandleHTTPResponseError(job[w])

\* Statuses the front gives and the table does not have: a failure inside, a client that left, a
\* conditional request, and the two answers of an access controller for the routes that list none.
Undescribed(r) ==
    {499, 500} \cup (IF r.route = "manifest" /\ r.method = "GET" THEN {304} ELSE {})
               \cup (IF app.accessController THEN {400, 401} ELSE {})

\* Whatever fails and whatever the configuration, a request is answered with a status its route
\* and method describe (registry/api/v2/descriptors.go), or one of the few undescribed ones.
ResponseDescribed ==
    \A w \in Workers : At(w, "done") =>
        job[w].status \in Described(Req(w).route, Req(w).method) \cup Undescribed(Req(w))

\* The repository changes only on behalf of a request whose token holds the actions that change
\* needs, and never under maintenance or in a pull-through cache (app.go, authorized and
\* dispatcher): a PUT only adds or moves, a DELETE only removes.
ChangeAuthorised ==
    [][repo' # repo =>
         \E w \in Workers :
            /\ job'[w] # job[w] /\ ~app.readOnly /\ ~app.isCache
            /\ \/ /\ Req(w).method = "PUT" /\ repo.revs \subseteq repo'.revs /\ repo'.blob = repo.blob
                  /\ \A t \in FrontTags : repo'.tags[t] = Nothing => repo.tags[t] = Nothing
                  /\ app.accessController => {"pull", "push"} \subseteq Req(w).grant
               \/ /\ Req(w).method = "DELETE" /\ repo'.revs \subseteq repo.revs
                  /\ \A t \in FrontTags : repo'.tags[t] \in {repo.tags[t], Nothing}
                  /\ app.accessController => "delete" \in Req(w).grant]_frontVars

\* A manifest asked for by tag is answered as some state of the repository since the request came
\* would have it: the content is the tag's (or its image for the default platform, when the
\* client takes no lists), of a kind the client accepts unless a list led to it; "not modified"
\* and "unknown" were true.  The handler reads the tag and the manifest in separate calls.
ManifestAtInstant ==
    \A w \in Workers : Done(w, "manifest", "GET") /\ Req(w).tag # NoTag =>
        LET r == Req(w)
            held == {s.tags[r.tag] : s \in seen[w]}
            fromList == {b \in held \ {Nothing} : IsList(b) /\ MediaType[b] = "list" /\ "list" \notin r.accept}
            known == UNION {s.revs : s \in seen[w]}
            always == {m \in FrontManifests : \A s \in seen[w] : m \in s.revs}
        IN /\ job[w].status = 200 =>
                 /\ job[w].digest \in known
                 /\ \/ job[w].digest \in held /\ (MediaType[job[w].digest] \in {"oci", "index"}
                                                  => MediaType[job[w].digest] \in r.accept)
                    \/ \E b \in fromList : job[w].digest = DefaultPlatform[b]
           /\ job[w].status = 304 => r.etag \in held
           /\ job[w].status = 404 =>
                 \/ Nothing \in held
                 \/ \E b \in held : b \notin always
                 \/ \E b \in fromList : DefaultPlatform[b] \notin always
                 \/ \E b \in held : MediaType[b] \in {"oci", "index"} \ r.accept

\* What the client is told of a change is what happened.  Success of a PUT: the manifest was
\* there, and under its tag, at an instant of the request; an error: the tag was not moved by it.
\* Success of a DELETE without errors in its body: no tag kept naming the manifest all along, and
\* the manifest was gone at an instant.  "Denied" and "unsupported": it changed nothing.
ClientToldTruth ==
    \A w \in Workers : At(w, "done") =>
        LET r == Req(w)
            did == job[w].did
        IN /\ Done(w, "manifest", "PUT") =>
                 IF Told(w) = {} THEN /\ \E s \in seen[w] : r.m \in s.revs
                                      /\ r.tag # NoTag => \E s \in seen[w] : s.tags[r.tag] = r.m
                 ELSE "tag" \notin did
           /\ Done(w, "manifest", "DELETE") /\ Told(w) = {} =>
                 IF r.tag # NoTag THEN \E s \in seen[w] : s.tags[r.tag] = Nothing
                 ELSE /\ \E s \in seen[w] : r.m \notin s.revs
                      /\ job[w].errs = <<>> =>
                            \A t \in FrontTags : \E s \in seen[w] : s.tags[t] # r.m
           /\ Told(w) \cap {"DENIED", "UNSUPPORTED", "UNAUTHORIZED"} # {} => did = {}
=============================================================================
