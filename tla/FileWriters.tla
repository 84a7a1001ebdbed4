---------------------------- MODULE FileWriters ----------------------------
(***************************************************************************)
(* One client uploading a stream through the writer of one driver: the     *)
(* requests of an upload session (handlers/blobupload.go) open the writer, *)
(* write, close it and answer its Size, resume where the client was told,  *)
(* and commit.  The process may stop with a writer open, and calls of the  *)
(* backend may fail.                                                       *)
(***************************************************************************)
EXTENDS S3Writer, GCSWriter, AzureWriter, LocalWriter

CONSTANTS Kinds, MaxLen, MaxWrite, MaxFaults

\* client: its state, the length of the stream it has sent, the offset it was told.
VARIABLES kind, dev, client
writerVars == <<kind, dev, client>>

New(k) == CASE k = "s3" -> S3New(MaxFaults) [] k = "gcs" -> GCSNew(MaxFaults)
            [] k = "azure" -> AzureNew(MaxFaults) [] OTHER -> LocalNew(MaxFaults)
DevWriter(d, appendMode) ==
    CASE kind = "s3" -> Writer(d, appendMode) [] kind = "gcs" -> GCSWriter_(d, appendMode)
      [] kind = "azure" -> AzureWriter_(d, appendMode) [] kind = "fs" -> FSWriter(d, appendMode)
      [] OTHER -> MemWriter(d, appendMode)
DevWrite(d, p) ==
    CASE kind = "s3" -> S3Write(d, p) [] kind = "gcs" -> GCSWrite(d, p)
      [] kind = "azure" -> AzureWrite(d, p) [] kind = "fs" -> FSWrite(d, p) [] OTHER -> MemWrite(d, p)
DevClose(d) ==
    CASE kind = "s3" -> S3Close(d) [] kind = "gcs" -> GCSClose(d)
      [] kind = "azure" -> AzureClose(d) [] kind = "fs" -> FSClose(d) [] OTHER -> MemClose(d)
DevCommit(d) ==
    CASE kind = "s3" -> S3Commit(d) [] kind = "gcs" -> GCSCommit(d)
      [] kind = "azure" -> AzureCommit(d) [] kind = "fs" -> FSCommit(d) [] OTHER -> MemCommit(d)
DevCancel(d) ==
    CASE kind = "s3" -> S3Cancel(d) [] kind = "gcs" -> GCSCancel(d)
      [] kind = "azure" -> AzureCancel(d) [] kind = "fs" -> FSCancel(d) [] OTHER -> MemCancel(d)
Content == CASE kind = "s3" -> S3Content(dev) [] kind = "gcs" -> GCSContent(dev) [] OTHER -> LocalContent(dev)
File == CASE kind = "s3" -> S3File(dev) [] kind = "gcs" -> GCSFile(dev)
          [] kind = "azure" -> AzureFile(dev) [] OTHER -> LocalFile(dev)

WriterInit ==
    /\ kind \in Kinds
    /\ dev = New(kind)
    /\ client = [at |-> "new", pos |-> 0, told |-> 0]

Outcome(outcomes, fine(_), wrong(_)) ==
    \E o \in outcomes : /\ dev' = o.d
                        /\ client' = IF o.ok THEN fine(o.d) ELSE wrong(o.d)
                        /\ UNCHANGED kind

\* POST of a new session.
StartUpload ==
    /\ client.at = "new"
    /\ Outcome(DevWriter(dev, FALSE), LAMBDA d : [client EXCEPT !.at = "open"],
                                      LAMBDA d : [client EXCEPT !.at = "refused"])

\* A PATCH or PUT: the session is refused when the writer is not where the client was told.
ResumeUpload ==
    /\ client.at = "closed"
    /\ Outcome(DevWriter(dev, TRUE),
               LAMBDA d : IF d.size = client.told THEN [client EXCEPT !.at = "open", !.pos = client.told]
                          ELSE [client EXCEPT !.at = "refused"],
               LAMBDA d : [client EXCEPT !.at = "refused"])

WriteBody(n) ==
    /\ client.at = "open"
    /\ client.pos + n <= MaxLen
    /\ Outcome(DevWrite(dev, Bytes(client.pos, n)), LAMBDA d : [client EXCEPT !.pos = @ + n],
                                                    LAMBDA d : [client EXCEPT !.at = "failed"])

\* blobUploadResponse closes the writer, drops the error, and answers the size.
Respond ==
    /\ client.at = "open"
    /\ LET answer(d) == [client EXCEPT !.at = "closed", !.told = d.size]
       IN Outcome(DevClose(dev), answer, answer)

\* The handler of a request that failed closes the writer; the client keeps its offset.
Abandon ==
    /\ client.at = "failed"
    /\ LET again(d) == [client EXCEPT !.at = "closed"] IN Outcome(DevClose(dev), again, again)

CommitUpload ==
    /\ client.at = "open"
    /\ Outcome(DevCommit(dev), LAMBDA d : [client EXCEPT !.at = "done"],
                               LAMBDA d : [client EXCEPT !.at = "failed"])

CancelUpload ==
    /\ client.at = "open"
    /\ Outcome(DevCancel(dev), LAMBDA d : [client EXCEPT !.at = "cancelled"],
                               LAMBDA d : [client EXCEPT !.at = "failed"])

\* The process stops: buffers are lost, the client asks again for what it was told.
ProcessStops ==
    /\ client.at \in {"open", "failed"}
    /\ dev.faults > 0
    /\ kind # "mem"
    /\ dev' = [dev EXCEPT !.buf = <<>>, !.faults = @ - 1]
    /\ client' = [client EXCEPT !.at = "closed"]
    /\ UNCHANGED kind

WriterNext ==
    \/ StartUpload \/ ResumeUpload \/ Respond \/ Abandon \/ CommitUpload \/ CancelUpload \/ ProcessStops
    \/ \E n \in 1..MaxWrite : WriteBody(n)

WriterSpec == WriterInit /\ [][WriterNext]_writerVars

-----------------------------------------------------------------------------
WriterTypeOK ==
    /\ kind \in Kinds
    /\ client.at \in {"new", "open", "failed", "closed", "refused", "done", "cancelled"}
    /\ client.pos \in 0..MaxLen /\ client.told \in 0..MaxLen
    /\ dev.faults \in 0..MaxFaults /\ dev.size \in 0..MaxLen

\* Whatever chunks the requests came in, whatever calls failed on the way and wherever the
\* process stopped: a session that the resumption check let go on holds exactly the bytes the
\* client sent up to its position, in order and without a gap, and a committed file is all of
\* them (the writers of all five drivers behind blobUploadHandler.ResumeBlobUpload).  Excepted
\* is a session of the S3 driver after the upload of a part failed.
StreamIntact ==
    ~(kind = "s3" /\ dev.dropped) =>
        /\ client.at = "open" => File = Bytes(0, client.pos)
        /\ client.at = "done" => Content = Bytes(0, client.pos) /\ dev.size = client.pos

\* Without a failed call or a stopped process no request fails and no resumption is refused:
\* S3 is never handed a small part before the last, the size answered after Close is the one
\* found on resumption, and a Google session is never asked for less than it has.
NoFaultNoFailure == dev.faults = MaxFaults => client.at \notin {"failed", "refused"}
=============================================================================
