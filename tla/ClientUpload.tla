---------------------------- MODULE ClientUpload ----------------------------
(***************************************************************************)
(* An upload made with the registry's own client (blob_writer.go, with     *)
(* Create, Resume and Put of repository.go, under internal/client) against *)
(* the upload handlers of registry/handlers/blobupload.go.                 *)
(*                                                                         *)
(* A request is answered by one handler, run as one step (the handlers of  *)
(* one session interleaved write by write are the subject of BlobUpload).  *)
(* Between the client and the handler the network may lose the request,    *)
(* deliver it after the client has given up waiting, cut its body short,   *)
(* or lose the answer.  The client never asks for the status of a session: *)
(* all it knows of it is the Location of the last answer, whose `_state'   *)
(* carries the offset the server had reached, and the Range header.        *)
(***************************************************************************)
EXTENDS Integers, Sequences, SequencesExt, FiniteSets

CONSTANTS Payload,       \* the bytes the caller uploads
          ChunkLens,     \* lengths the caller writes at once
          MaxSessions,   \* sessions the server may open
          MaxCalls,      \* calls the caller makes
          MaxNetFaults   \* faults of the network and of the storage

VARIABLES sessions,      \* server: the sessions opened so far, [open, bytes]
          stored,        \* server: the payload is a blob of the repository
          source,        \* server: the repository mounted from holds the blob
          hbu,           \* the client's httpBlobUpload
          pos,           \* bytes of the payload the caller was told are written
          calling,       \* the call that waits for its answer
          wire,          \* requests on their way to the server
          answer,        \* the answer on its way back
          told,          \* what the last call returned
          callNo,        \* calls and requests made so far
          netLeft        \* faults that may still happen

uploadVars == <<sessions, stored, source, hbu, pos, calling, wire, answer,
                told, callNo, netLeft>>

NoState == -1
NoRange == <<>>

\* The handle before Create or Resume: no session, no location.
NoUpload == [id |-> 0, state |-> NoState, offset |-> 0, resumed |-> FALSE]

Idle == [kind |-> "idle", len |-> 0, put |-> FALSE]

NoAnswer == [status |-> 0, id |-> 0, size |-> 0]

UploadInit ==
    /\ sessions = <<>>
    /\ stored = FALSE
    /\ source \in BOOLEAN
    /\ hbu = NoUpload
    /\ pos = 0
    /\ calling = Idle
    /\ wire = {}
    /\ answer = NoAnswer
    /\ told = [kind |-> "idle", ok |-> TRUE, n |-> 0, unsure |-> FALSE]
    /\ callNo = 0
    /\ netLeft = MaxNetFaults

(***************************************************************************)
(* The client's half of a call: build a request, send it, wait.            *)
(***************************************************************************)
Request(method, bytes, range, mount) ==
    [no |-> callNo + 1, method |-> method, id |-> hbu.id, state |-> hbu.state,
     bytes |-> bytes, range |-> range, mount |-> mount]

Send(kind, len, put, req) ==
    /\ calling' = [kind |-> kind, len |-> len, put |-> put]
    /\ wire' = wire \cup {req}
    /\ callNo' = callNo + 1
    /\ answer' = NoAnswer

MayCall == calling = Idle /\ callNo < MaxCalls

Create(mount) ==
    /\ MayCall
    /\ hbu = NoUpload
    /\ Send("create", 0, FALSE, Request("POST", <<>>, NoRange, mount))
    /\ UNCHANGED <<sessions, stored, source, hbu, pos, told, netLeft>>

\* blobs.Put: Create, io.Copy (which calls ReadFrom once), Commit.
Put ==
    /\ MayCall
    /\ hbu = NoUpload
    /\ Send("create", 0, TRUE, Request("POST", <<>>, NoRange, FALSE))
    /\ UNCHANGED <<sessions, stored, source, hbu, pos, told, netLeft>>

\* Resume builds a handle from the id alone: no `_state', offset 0.
Resume ==
    /\ MayCall
    /\ hbu.id # 0
    /\ ~hbu.resumed
    /\ hbu' = [hbu EXCEPT !.state = NoState, !.offset = 0, !.resumed = TRUE]
    /\ UNCHANGED <<sessions, stored, source, pos, calling, wire, answer, told,
                   callNo, netLeft>>

Chunk(len) == SubSeq(Payload, pos + 1, pos + len)

Write(len) ==
    /\ MayCall
    /\ hbu.id # 0
    /\ pos + len <= Len(Payload)
    /\ Send("write", len, FALSE,
            Request("PATCH", Chunk(len), <<hbu.offset, hbu.offset + len - 1>>, FALSE))
    /\ UNCHANGED <<sessions, stored, source, hbu, pos, told, netLeft>>

\* ReadFrom sends a body of unknown length: no Content-Range.
ReadFrom(len) ==
    /\ MayCall
    /\ hbu.id # 0
    /\ pos + len <= Len(Payload)
    /\ Send("readFrom", len, FALSE, Request("PATCH", Chunk(len), NoRange, FALSE))
    /\ UNCHANGED <<sessions, stored, source, hbu, pos, told, netLeft>>

Commit ==
    /\ MayCall
    /\ hbu.id # 0
    /\ Send("commit", 0, FALSE, Request("PUT", <<>>, NoRange, FALSE))
    /\ UNCHANGED <<sessions, stored, source, hbu, pos, told, netLeft>>

Cancel ==
    /\ MayCall
    /\ hbu.id # 0
    /\ Send("cancel", 0, FALSE, Request("DELETE", <<>>, NoRange, FALSE))
    /\ UNCHANGED <<sessions, stored, source, hbu, pos, told, netLeft>>

(***************************************************************************)
(* The server's half.  An answer carries the status and, for a session,    *)
(* the offset packed into `_state' and shown by the Range header.          *)
(***************************************************************************)
Reply(req, status, id, size) ==
    answer' = IF req.no = callNo /\ calling # Idle
                THEN [status |-> status, id |-> id, size |-> size]
                ELSE answer

ServerUnchanged == UNCHANGED <<sessions, stored, source>>

\* POST: a mount that succeeds links the blob, anything else opens a session.
StartBlobUpload(req) ==
    /\ req.method = "POST"
    /\ \/ /\ req.mount
          /\ source
          /\ stored' = TRUE
          /\ Reply(req, 201, 0, 0)
          /\ UNCHANGED <<sessions, source>>
       \/ /\ ~(req.mount /\ source)
          /\ Len(sessions) < MaxSessions
          /\ sessions' = Append(sessions, [open |-> TRUE, bytes |-> <<>>])
          /\ Reply(req, 202, Len(sessions) + 1, 0)
          /\ UNCHANGED <<stored, source>>

\* A wrong resume that does not compare the offset.
Refused_NoOffset(req) ==
    IF req.state = NoState \/ ~sessions[req.id].open THEN 404 ELSE 0

\* ResumeBlobUpload: what refuses a request before its own handler runs.
\* 404 stands for both BLOB_UPLOAD_INVALID and BLOB_UPLOAD_UNKNOWN.
Refused(req) ==
    CASE req.state = NoState                             -> 404
      [] ~sessions[req.id].open                          -> 404
      [] Len(sessions[req.id].bytes) # req.state         -> 416
      [] OTHER                                           -> 0

BadRange(req) ==
    /\ req.range # NoRange
    /\ \/ req.range[1] > req.range[2]
       \/ req.range[1] # Len(sessions[req.id].bytes)

PatchBlobData(req) ==
    /\ req.method = "PATCH"
    /\ \/ /\ Refused(req) # 0
          /\ Reply(req, Refused(req), req.id, 0)
          /\ ServerUnchanged
       \/ /\ Refused(req) = 0
          /\ BadRange(req)
          /\ Reply(req, 416, req.id, 0)
          /\ ServerUnchanged
       \/ /\ Refused(req) = 0
          /\ ~BadRange(req)
          /\ sessions' = [sessions EXCEPT ![req.id].bytes = @ \o req.bytes]
          /\ Reply(req, 202, req.id, Len(sessions'[req.id].bytes))
          /\ UNCHANGED <<stored, source>>

\* The digest in the request is the payload's; Commit verifies it, and a
\* commit that fails cancels the session.
PutBlobUploadComplete(req) ==
    /\ req.method = "PUT"
    /\ \/ /\ Refused(req) # 0
          /\ Reply(req, Refused(req), req.id, 0)
          /\ ServerUnchanged
       \/ /\ Refused(req) = 0
          /\ sessions' = [sessions EXCEPT ![req.id].open = FALSE]
          /\ IF sessions[req.id].bytes = Payload
               THEN stored' = TRUE /\ Reply(req, 201, req.id, 0)
               ELSE UNCHANGED stored /\ Reply(req, 400, req.id, 0)
          /\ UNCHANGED source

CancelBlobUpload(req) ==
    /\ req.method = "DELETE"
    /\ \/ /\ Refused(req) # 0
          /\ Reply(req, Refused(req), req.id, 0)
          /\ ServerUnchanged
       \/ /\ Refused(req) = 0
          /\ sessions' = [sessions EXCEPT ![req.id].open = FALSE]
          /\ Reply(req, 204, req.id, 0)
          /\ UNCHANGED <<stored, source>>

\* The blob as Commit's Stat and Create's Stat of a mounted blob see it.
HeadBlob(req) ==
    /\ req.method = "HEAD"
    /\ Reply(req, IF stored THEN 200 ELSE 404, req.id, Len(Payload))
    /\ ServerUnchanged

Serve(req) ==
    /\ wire' = wire \ {req}
    /\ \/ StartBlobUpload(req)
       \/ PatchBlobData(req)
       \/ PutBlobUploadComplete(req)
       \/ CancelBlobUpload(req)
       \/ HeadBlob(req)
    /\ UNCHANGED <<hbu, pos, calling, told, callNo, netLeft>>

\* The storage fails to remove the session: the error is recorded after
\* nothing was written, but the status written next is 204 all the same.
CancelFails(req) ==
    /\ netLeft > 0
    /\ req.method = "DELETE"
    /\ Refused(req) = 0
    /\ wire' = wire \ {req}
    /\ netLeft' = netLeft - 1
    /\ Reply(req, 204, req.id, 0)
    /\ told' = [told EXCEPT !.unsure = TRUE]
    /\ UNCHANGED <<sessions, stored, source, hbu, pos, calling, callNo>>

\* The connection breaks in the middle of a body: copyFullPayload keeps the
\* bytes that came.
BodyCut(req, k) ==
    /\ netLeft > 0
    /\ req.method = "PATCH"
    /\ k < Len(req.bytes)
    /\ Refused(req) = 0
    /\ ~BadRange(req)
    /\ sessions' = [sessions EXCEPT ![req.id].bytes = @ \o SubSeq(req.bytes, 1, k)]
    /\ wire' = wire \ {req}
    /\ netLeft' = netLeft - 1
    /\ UNCHANGED <<stored, source, hbu, pos, calling, answer, told, callNo>>

LoseRequest(req) ==
    /\ netLeft > 0
    /\ wire' = wire \ {req}
    /\ netLeft' = netLeft - 1
    /\ UNCHANGED <<sessions, stored, source, hbu, pos, calling, answer, told, callNo>>

(***************************************************************************)
(* The rest of the client's call, when the answer comes or will not.       *)
(***************************************************************************)
Return(ok, n) ==
    /\ told' = [told EXCEPT !.kind = calling.kind, !.ok = ok, !.n = n]
    /\ calling' = Idle
    /\ answer' = NoAnswer
    /\ UNCHANGED <<wire, callNo>>

\* client.Do reports an error: a broken connection, or a timeout while the
\* request or the answer is still under way.
NothingComes == answer.status = 0 /\ ~\E req \in wire : req.no = callNo

GiveUp ==
    /\ calling # Idle
    /\ NothingComes \/ netLeft > 0
    /\ netLeft' = IF NothingComes THEN netLeft ELSE netLeft - 1
    /\ Return(FALSE, 0)
    /\ UNCHANGED <<sessions, stored, source, hbu, pos>>

Success(status) == status \in 200..399

\* Range "0-<end>" of the answer, end being the size less one, or 0.
RangeLen(size) == IF size = 0 THEN 1 ELSE size

\* Create on 202; Put goes on with one ReadFrom of everything.
CreateAnswered ==
    /\ calling.kind = "create"
    /\ answer.status = 202
    /\ hbu' = [NoUpload EXCEPT !.id = answer.id, !.state = answer.size]
    /\ pos' = 0
    /\ IF calling.put
         THEN /\ Send("readFrom", Len(Payload), TRUE,
                      [Request("PATCH", Payload, NoRange, FALSE)
                          EXCEPT !.id = answer.id, !.state = answer.size])
              /\ UNCHANGED told
         ELSE Return(TRUE, 0)

\* Create on 201 and Commit on success: the descriptor comes from a Stat.
StatNext ==
    /\ \/ calling.kind = "create" /\ answer.status = 201
       \/ calling.kind = "commit" /\ Success(answer.status)
    /\ Send(IF calling.kind = "create" THEN "mounted" ELSE "committed", 0, FALSE,
            Request("HEAD", <<>>, NoRange, FALSE))
    /\ UNCHANGED <<hbu, pos, told>>

StatAnswered ==
    /\ calling.kind \in {"mounted", "committed"}
    /\ Return(Success(answer.status), 0)
    /\ UNCHANGED <<hbu, pos>>

\* Write and ReadFrom: the length of the answer's Range is added to the
\* offset and returned.  Put compares it with the payload's length.
ChunkAnswered ==
    /\ calling.kind \in {"write", "readFrom"}
    /\ Success(answer.status)
    /\ hbu' = [hbu EXCEPT !.state = answer.size,
                          !.offset = @ + RangeLen(answer.size)]
    /\ pos' = pos + calling.len
    /\ IF calling.put /\ RangeLen(answer.size) >= calling.len
         THEN /\ Send("commit", 0, FALSE,
                      [Request("PUT", <<>>, NoRange, FALSE)
                          EXCEPT !.state = answer.size])
              /\ UNCHANGED told
         ELSE Return(~calling.put, RangeLen(answer.size))

\* Every other answer is an error, except a 404 to Cancel.
CallAnswered ==
    /\ \/ calling.kind = "cancel"
       \/ calling.kind \in {"create", "write", "readFrom", "commit"}
          /\ ~Success(answer.status)
    /\ Return(calling.kind = "cancel" /\ (Success(answer.status) \/ answer.status = 404), 0)
    /\ UNCHANGED <<hbu, pos>>

Receive ==
    /\ answer.status # 0
    /\ \/ CreateAnswered
       \/ StatNext
       \/ StatAnswered
       \/ ChunkAnswered
       \/ CallAnswered
    /\ UNCHANGED <<sessions, stored, source, netLeft>>

UploadNext ==
    \/ \E mount \in BOOLEAN : Create(mount)
    \/ Put
    \/ Resume
    \/ \E len \in ChunkLens : Write(len) \/ ReadFrom(len)
    \/ Commit
    \/ Cancel
    \/ \E req \in wire :
          \/ Serve(req)
          \/ CancelFails(req)
          \/ \E k \in 0..Len(Payload) : BodyCut(req, k)
          \/ LoseRequest(req)
    \/ GiveUp
    \/ Receive

UploadSpec == UploadInit /\ [][UploadNext]_uploadVars

(***************************************************************************)
(* Properties                                                              *)
(***************************************************************************)

\* The sessions, the handle and the call have their types.
UploadTypeOK ==
    /\ sessions \in Seq([open : BOOLEAN, bytes : Seq(Range(Payload))])
    /\ Len(sessions) <= MaxSessions
    /\ hbu.id \in 0..Len(sessions)
    /\ hbu.state \in {NoState} \cup 0..Len(Payload)
    /\ \A req \in wire : req.no <= callNo
    /\ calling = Idle => answer = NoAnswer

\* Whatever was lost, cut, delayed or tried again, the bytes of a session
\* are the payload's in order, none twice and none left out, and a byte
\* Write or ReadFrom reported as written is among them: a repeated PATCH is
\* refused because its `_state' names an offset the session has left
\* (handlers/blobupload.go, ResumeBlobUpload).
UploadInStep ==
    /\ \A i \in DOMAIN sessions : IsPrefix(sessions[i].bytes, Payload)
    /\ hbu.id # 0 /\ sessions[hbu.id].open => pos <= Len(sessions[hbu.id].bytes)

\* Commit, Put and a mounting Create report success only when the blob is in
\* the repository.
CommitAcked ==
    told.ok /\ told.kind \in {"mounted", "committed"} => stored

\* Cancel reports success only when the session is gone, unless the storage
\* failed (the handler answers 204 over its own error) or the handle came
\* from Resume (its location has no `_state', which the server refuses with
\* a 404, and Cancel takes a 404 for a session that is gone).
CancelDone ==
    told.ok /\ told.kind = "cancel" /\ ~told.unsure /\ ~hbu.resumed
        => ~sessions[hbu.id].open

\* What the upload calls of the client report is so on the server.
UploadTrue == UploadInStep /\ CommitAcked /\ CancelDone

\* Size() of the client's upload is the number of bytes the server holds,
\* after a chunk was accepted.
OffsetTrue ==
    told.ok /\ told.kind \in {"write", "readFrom"} /\ calling = Idle
        /\ hbu.id # 0 /\ sessions[hbu.id].open
        => hbu.offset = Len(sessions[hbu.id].bytes)
=============================================================================
