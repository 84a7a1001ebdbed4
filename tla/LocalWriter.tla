---------------------------- MODULE LocalWriter ----------------------------
(***************************************************************************)
(* The writers of the filesystem driver (a bufio.Writer over the file) and *)
(* of the in-memory driver (a buffer flushed into the file's bytes).       *)
(***************************************************************************)
EXTENDS Backend

CONSTANT BufSize

LocalNew(faults) == [obj |-> Absent, buf |-> <<>>, size |-> 0, broken |-> FALSE, closed |-> TRUE, faults |-> faults]

opened(d, bytes) == Ok([d EXCEPT !.obj = bytes, !.buf = <<>>, !.size = Len(bytes), !.broken = FALSE, !.closed = FALSE])

\* Opened with O_CREATE and truncated unless appending: a missing file is made either way.
FSWriter(d, appendMode) == opened(d, IF appendMode /\ d.obj # Absent THEN d.obj ELSE <<>>)

\* write(2) may write a part and fail.
FSWriteFile(d, p) ==
    Ok([d EXCEPT !.obj = @ \o p])
        \cup (IF d.faults = 0 THEN {}
              ELSE UNION {Fail([d EXCEPT !.obj = @ \o Take(p, n), !.broken = TRUE, !.faults = @ - 1])
                          : n \in 0..Len(p)})

FSFlush(d) ==
    IF d.broken THEN Fail(d) ELSE Then(FSWriteFile(d, d.buf), LAMBDA e : Ok([e EXCEPT !.buf = <<>>]))

RECURSIVE FSBufWrite(_, _)
FSBufWrite(d, p) ==
    LET avail == BufSize - Len(d.buf)
    IN IF d.broken THEN Fail(d)
       ELSE IF Len(p) <= avail THEN Ok([d EXCEPT !.buf = @ \o p])
       ELSE IF d.buf = <<>> THEN FSWriteFile(d, p)
       ELSE Then(FSFlush([d EXCEPT !.buf = @ \o Take(p, avail)]), LAMBDA e : FSBufWrite(e, Drop(p, avail)))

\* The size counts the bytes the bufio.Writer accepted; after an error it is not read again.
FSWrite(d, p) ==
    IF d.closed THEN Fail(d)
    ELSE Then(FSBufWrite(d, p), LAMBDA e : Ok([e EXCEPT !.size = @ + Len(p)]))
FSClose(d) == IF d.closed THEN Fail(d) ELSE FSFlush([d EXCEPT !.closed = TRUE])
FSCommit(d) == IF d.closed THEN Fail(d) ELSE FSFlush(d)
FSCancel(d) == IF d.closed THEN Fail(d) ELSE Ok([d EXCEPT !.obj = Absent, !.closed = TRUE])

MemWriter(d, appendMode) == opened(d, IF appendMode /\ d.obj # Absent THEN d.obj ELSE <<>>)
memFlush(d) == [d EXCEPT !.obj = @ \o d.buf, !.buf = <<>>, !.size = Len(d.obj) + Len(d.buf)]
MemWrite(d, p) == IF d.closed THEN Fail(d) ELSE Ok([d EXCEPT !.buf = @ \o p])
MemClose(d) == IF d.closed THEN Fail(d) ELSE Ok([memFlush(d) EXCEPT !.closed = TRUE])
MemCommit(d) == IF d.closed THEN Fail(d) ELSE Ok(memFlush(d))
MemCancel(d) == IF d.closed THEN Fail(d) ELSE Ok([d EXCEPT !.obj = Absent])

LocalContent(d) == d.obj
LocalFile(d) == (IF d.obj = Absent THEN <<>> ELSE d.obj) \o d.buf
=============================================================================
