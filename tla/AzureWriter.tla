---------------------------- MODULE AzureWriter ----------------------------
(***************************************************************************)
(* The writer of the Azure driver (driver/azure/azure.go): a bufio.Writer  *)
(* over blocks appended to an append blob, each conditional on the         *)
(* position it is appended at.                                             *)
(***************************************************************************)
EXTENDS Backend

CONSTANT AzureChunk

\* broken: the sticky error of the bufio.Writer.
AzureNew(faults) == [obj |-> Absent, buf |-> <<>>, size |-> 0, broken |-> FALSE, closed |-> TRUE, faults |-> faults]

AzureWriter_(d, appendMode) ==
    LET open(e) == Ok([e EXCEPT !.buf = <<>>, !.size = Len(e.obj), !.broken = FALSE, !.closed = FALSE])
    IN IF appendMode THEN IF d.obj = Absent THEN Fail(d) ELSE open(d)
       ELSE Then(Call(d, [d EXCEPT !.obj = <<>>]), open)

\* Fewer bytes than the chunk or other bytes at the end of the blob have another MD5.
chunkUploadVerify(d, chunk) ==
    IF d.obj = Absent THEN Fail(d)
    ELSE LET stored == Drop(d.obj, d.size)
         IN IF stored # chunk THEN Fail(d) ELSE Ok([d EXCEPT !.size = @ + Len(stored)])

\* One block: appended; or appended by a call that timed out, so that the library's retry
\* meets the condition on the position and the block is verified; or an error.
appendBlock(d, chunk) ==
    IF d.obj = Absent \/ Len(d.obj) # d.size THEN Fail(d)
    ELSE LET appended == [d EXCEPT !.obj = @ \o chunk]
         IN Then(Call(d, appended), LAMBDA e : Ok([e EXCEPT !.size = @ + Len(chunk)]))
            \cup (IF d.faults = 0 THEN {}
                  ELSE UNION {chunkUploadVerify([d EXCEPT !.obj = @ \o Take(chunk, n), !.faults = @ - 1], chunk)
                              : n \in 1..Len(chunk)})

RECURSIVE blockWrite(_, _)
blockWrite(d, p) ==
    IF p = <<>> THEN Ok(d)
    ELSE Then(appendBlock(d, Take(p, AzureChunk)), LAMBDA e : blockWrite(e, Drop(p, AzureChunk)))

breaking(outcomes) == {IF o.ok THEN o ELSE [o EXCEPT !.d.broken = TRUE] : o \in outcomes}

bufFlush(d) ==
    IF d.broken THEN Fail(d)
    ELSE breaking(Then(blockWrite(d, d.buf), LAMBDA e : Ok([e EXCEPT !.buf = <<>>])))

\* bufio.Writer.Write: what does not fit goes straight to the blob when the buffer is empty.
RECURSIVE bufWrite(_, _)
bufWrite(d, p) ==
    LET avail == AzureChunk - Len(d.buf)
    IN IF d.broken THEN Fail(d)
       ELSE IF Len(p) <= avail THEN Ok([d EXCEPT !.buf = @ \o p])
       ELSE IF d.buf = <<>> THEN breaking(blockWrite(d, p))
       ELSE Then(bufFlush([d EXCEPT !.buf = @ \o Take(p, avail)]), LAMBDA e : bufWrite(e, Drop(p, avail)))

AzureWrite(d, p) == IF d.closed THEN Fail(d) ELSE bufWrite(d, p)
AzureClose(d) == IF d.closed THEN Fail(d) ELSE bufFlush([d EXCEPT !.closed = TRUE])
AzureCommit(d) == IF d.closed THEN Fail(d) ELSE bufFlush(d)
AzureCancel(d) == IF d.closed THEN Fail(d) ELSE Call(d, [d EXCEPT !.obj = Absent])
AzureFile(d) == (IF d.obj = Absent THEN <<>> ELSE d.obj) \o d.buf
=============================================================================
