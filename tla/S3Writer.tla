------------------------------ MODULE S3Writer ------------------------------
(***************************************************************************)
(* The multipart writer of the S3 driver (driver/s3-aws/s3.go).  Parts of  *)
(* a chunk are uploaded as the buffer fills; Close and Commit upload the   *)
(* rest.  S3 accepts a part smaller than minChunkSize only as the last one,*)
(* so a writer that resumes after a small part starts a new upload from    *)
(* the completed old one.                                                  *)
(***************************************************************************)
EXTENDS Backend

CONSTANTS MinChunk, ChunkSize

\* upload: the parts of the multipart upload of the key, at most one; obj: the object.
\* parts, size, buf: the writer's part lengths, size and buffer.  dropped (not in the code):
\* bytes left the buffer for a part whose upload failed.
S3New(faults) == [obj |-> Absent, upload |-> Absent, parts |-> <<>>, size |-> 0, buf |-> <<>>,
                  dropped |-> FALSE, faults |-> faults]

newWriter(d, parts) ==
    [d EXCEPT !.parts = [i \in 1..Len(parts) |-> Len(parts[i])], !.buf = <<>>,
              !.size = Len(FlattenSeq(parts))]

CreateMultipartUpload(d) == Call(d, [d EXCEPT !.upload = <<>>])
AbortMultipartUpload(d) == Call(d, [d EXCEPT !.upload = Absent])

UploadPart(d, number, bytes) ==
    IF d.upload = Absent \/ number > Len(d.upload) + 1 THEN Fail(d)
    ELSE Call(d, [d EXCEPT !.upload = IF number > Len(@) THEN Append(@, bytes) ELSE [@ EXCEPT ![number] = bytes]])

\* S3 refuses a list that is empty, does not match, or has a small part before the last.
CompleteMultipartUpload(d, parts) ==
    IF \/ d.upload = Absent \/ parts = <<>> \/ Len(parts) # Len(d.upload)
       \/ \E i \in 1..(Len(parts) - 1) : parts[i] < MinChunk
    THEN Fail(d)
    ELSE Call(d, [d EXCEPT !.obj = FlattenSeq(d.upload), !.upload = Absent])

\* Both places that complete an upload abort it when that fails.
Complete(d, parts) ==
    Else(CompleteMultipartUpload(d, parts), LAMBDA e : Failing(AbortMultipartUpload(e)))

Writer(d, appendMode) ==
    IF ~appendMode THEN Then(CreateMultipartUpload(d), LAMBDA e : Ok(newWriter(e, <<>>)))
    ELSE IF d.upload # Absent THEN Ok(newWriter(d, d.upload))
    ELSE IF d.obj = <<>> THEN Then(CreateMultipartUpload(d), LAMBDA e : Ok(newWriter(e, <<>>)))
    ELSE Fail(d)

\* The bytes of the part leave the buffer before the call.
flush(d) ==
    IF d.buf = <<>> THEN Ok(d)
    ELSE LET part == Take(d.buf, ChunkSize)
             rest == [d EXCEPT !.buf = Drop(@, ChunkSize)]
         IN Then(Else(UploadPart(rest, Len(d.parts) + 1, part), LAMBDA e : Fail([e EXCEPT !.dropped = TRUE])),
                 LAMBDA e : Ok([e EXCEPT !.parts = Append(@, Len(part)), !.size = @ + Len(part)]))

RECURSIVE flushFull(_)
flushFull(d) == IF Len(d.buf) < ChunkSize THEN Ok(d) ELSE Then(flush(d), LAMBDA e : flushFull(e))

\* A wrong restart that forgets the old file.
startOver_Forgets(d) ==
    Then(Complete(d, d.parts), LAMBDA e :
    Then(CreateMultipartUpload(e), LAMBDA f : Ok([f EXCEPT !.parts = <<>>])))

\* A file below minChunkSize is read back into the buffer; a larger one is the new first part.
startOver(d) ==
    Then(Complete(d, d.parts), LAMBDA e :
    Then(CreateMultipartUpload(e), LAMBDA f :
         IF f.size < MinChunk
         THEN Then(Call(f, f), LAMBDA g : Ok([g EXCEPT !.buf = g.obj, !.parts = <<>>, !.size = 0]))
         ELSE Then(UploadPart(f, 1, f.obj), LAMBDA g : Ok([g EXCEPT !.parts = <<g.size>>]))))

\* A wrong Write that appends parts after a small one.
S3Write_SmallParts(d, p) == flushFull([d EXCEPT !.buf = @ \o p])

S3Write(d, p) ==
    Then(IF d.parts # <<>> /\ Last(d.parts) < MinChunk THEN startOver(d) ELSE Ok(d),
         LAMBDA e : flushFull([e EXCEPT !.buf = @ \o p]))

S3Close(d) == flush(d)

S3Commit(d) ==
    Then(flush(d), LAMBDA e :
         IF e.parts = <<>> THEN Then(UploadPart(e, 1, <<>>), LAMBDA f : Complete(f, <<0>>))
         ELSE Complete(e, e.parts))

S3Cancel(d) == AbortMultipartUpload(d)

\* What a reader finds, and what the writer holds.
S3Content(d) == d.obj
S3File(d) == IF d.upload = Absent THEN d.buf ELSE FlattenSeq(d.upload) \o d.buf
=============================================================================
