--------------------------- MODULE APIDescriptors ---------------------------
(***************************************************************************)
(* What the API says it answers: routeDescriptors of registry/api/v2, the  *)
(* table the API documentation is generated from, and the status each      *)
(* error code stands for (registry/api/errcode).  Of a response descriptor *)
(* the status is kept.                                                     *)
(***************************************************************************)
EXTENDS Naturals

-----------------------------------------------------------------------------
\* The statuses of the registered error codes.
GenericStatus == [UNKNOWN |-> 500, UNSUPPORTED |-> 405, UNAUTHORIZED |-> 401,
                  DENIED |-> 403, UNAVAILABLE |-> 503, TOOMANYREQUESTS |-> 429]

RegistryStatus ==
    [DIGEST_INVALID |-> 400, SIZE_INVALID |-> 400, RANGE_INVALID |-> 416,
     NAME_INVALID |-> 400, TAG_INVALID |-> 400, NAME_UNKNOWN |-> 404,
     MANIFEST_UNKNOWN |-> 404, MANIFEST_INVALID |-> 400, MANIFEST_UNVERIFIED |-> 400,
     MANIFEST_BLOB_UNKNOWN |-> 400, BLOB_UNKNOWN |-> 404, BLOB_UPLOAD_UNKNOWN |-> 404,
     BLOB_UPLOAD_INVALID |-> 404, PAGINATION_NUMBER_INVALID |-> 400]

\* Descriptor().HTTPStatusCode: an error that has no code counts as UNKNOWN.
HTTPStatus(code) ==
    IF code \in DOMAIN RegistryStatus THEN RegistryStatus[code]
    ELSE IF code \in DOMAIN GenericStatus THEN GenericStatus[code]
    ELSE GenericStatus["UNKNOWN"]

\* The codes as a client reads them back; one it does not know is UNKNOWN.
ParseErrorCode(code) ==
    IF code \in DOMAIN RegistryStatus \cup DOMAIN GenericStatus THEN code ELSE "UNKNOWN"

-----------------------------------------------------------------------------
\* Responses most routes share.
unauthorizedResponse == {401}
invalidPaginationResponse == {400}
repositoryNotFoundResponse == {404}
deniedResponse == {403}
tooManyRequests == {429}

Common == unauthorizedResponse \cup repositoryNotFoundResponse \cup deniedResponse \cup tooManyRequests

\* The statuses of each route and method, Successes and then Failures.
BaseGet == {200} \cup {404} \cup unauthorizedResponse \cup tooManyRequests
TagsGet == {200} \cup Common
TagsGetPaginated == {200} \cup invalidPaginationResponse \cup Common
ManifestFetch == {200} \cup {400} \cup Common
ManifestPut == {201} \cup {400, 405} \cup Common
ManifestDelete == {202} \cup {400, 404, 405} \cup Common
BlobFetch == {200, 307} \cup {400, 404} \cup Common
BlobFetchPart == {206} \cup {400, 404, 416} \cup Common
BlobDelete == {202} \cup {400, 404, 405} \cup Common
UploadPostMonolithic == {201} \cup {400, 405} \cup Common
UploadPostResumable == {202} \cup {400} \cup Common
UploadPostMount == {201} \cup {400, 405} \cup Common
UploadGet == {204} \cup {400, 404} \cup Common
UploadPatchStream == {202} \cup {400, 404} \cup Common
UploadPatchChunk == {202} \cup {400, 404, 416} \cup Common
UploadPut == {201} \cup {400, 404} \cup Common
UploadDelete == {204} \cup {400, 404} \cup Common
CatalogGet == {200}
CatalogGetPaginated == {200} \cup invalidPaginationResponse

Described(route, method) ==
    CASE route = "base"                          -> BaseGet
      [] route = "tags"                          -> TagsGet \cup TagsGetPaginated
      [] route = "catalog"                       -> CatalogGet \cup CatalogGetPaginated
      [] route = "manifest" /\ method = "GET"    -> ManifestFetch
      [] route = "manifest" /\ method = "PUT"    -> ManifestPut
      [] route = "manifest" /\ method = "DELETE" -> ManifestDelete
      [] route = "blob" /\ method = "GET"        -> BlobFetch \cup BlobFetchPart
      [] route = "blob" /\ method = "DELETE"     -> BlobDelete
      [] route = "upload" /\ method = "POST"     ->
            UploadPostMonolithic \cup UploadPostResumable \cup UploadPostMount
      [] route = "upload" /\ method = "GET"      -> UploadGet
      [] route = "upload" /\ method = "PATCH"    -> UploadPatchStream \cup UploadPatchChunk
      [] route = "upload" /\ method = "PUT"      -> UploadPut
      [] route = "upload" /\ method = "DELETE"   -> UploadDelete
=============================================================================
