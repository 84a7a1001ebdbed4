------------------------------ MODULE Readers ------------------------------
(***************************************************************************)
(* Reading a blob with seeks: the fileReader of the storage package over   *)
(* the Reader of a driver, and the HTTPReadSeeker of the client package    *)
(* over a server that answers range requests well or badly.  Both open     *)
(* their source late, so that a seek back and forth costs nothing.         *)
(***************************************************************************)
EXTENDS Backend, Integers

CONSTANTS ReaderKinds, BlobLen, MaxReads

Blob == Bytes(0, BlobLen)
Unknown == -1

\* src: whether the blob is still there.  rd: the reader: rc is what its open source has left,
\* offset the next byte of the source, seek the position asked for (the fileReader has one for
\* both), size the length it believes in.  heard: the last call, the position before it as the
\* caller knows it, its answer, and how many calls there were.
VARIABLES readerKind, there, rd, heard
readVars == <<readerKind, there, rd, heard>>

IsHTTP == readerKind = "http"

\* The drivers' Reader at an offset: an open source, or an error.
Opened(rest) == [ok |-> TRUE, found |-> TRUE, rest |-> rest]
NotFound == [ok |-> FALSE, found |-> FALSE, rest |-> <<>>]
InvalidOffset == [ok |-> FALSE, found |-> TRUE, rest |-> <<>>]
S3Reader(o) == Opened(Drop(Blob, o))
GCSReader(o) == IF o > BlobLen THEN InvalidOffset ELSE Opened(Drop(Blob, o))
AzureReader(o) == IF o >= BlobLen THEN Opened(<<>>) ELSE Opened(Drop(Blob, o))
MemReader(o) == IF o < 0 THEN InvalidOffset ELSE Opened(Drop(Blob, o))
FSReader(o) == IF o < 0 THEN InvalidOffset ELSE Opened(Drop(Blob, o))
DriverReader(o) ==
    CASE ~there -> NotFound [] readerKind = "s3" -> S3Reader(o) [] readerKind = "gcs" -> GCSReader(o)
      [] readerKind = "azure" -> AzureReader(o) [] readerKind = "mem" -> MemReader(o) [] OTHER -> FSReader(o)

\* fileReader.reader: a blob that is gone reads as empty and is looked for again.
fileSource(r) ==
    IF r.rc # Absent THEN {[ok |-> TRUE, r |-> r, rest |-> r.rc]}
    ELSE LET o == DriverReader(r.offset)
         IN IF o.ok THEN {[ok |-> TRUE, r |-> [r EXCEPT !.rc = o.rest], rest |-> o.rest]}
            ELSE {[ok |-> ~o.found, r |-> r, rest |-> <<>>]}

\* What a server may answer to a GET from an offset: all of the blob (with a length or not), the
\* range, a range with another start, one that stops early, one of unknown total, or an error.
Answers(o) ==
    {[status |-> 500, start |-> 0, end |-> 0, total |-> 0]}
        \cup (IF there THEN {[status |-> 200, start |-> 0, end |-> BlobLen, total |-> t] : t \in {BlobLen, Unknown}} ELSE {})
        \cup (IF there /\ o \in 1..(BlobLen - 1)
              THEN {[status |-> 206, start |-> s, end |-> e, total |-> t] :
                        s \in {o, o - 1}, e \in {BlobLen - 1, BlobLen}, t \in {BlobLen, Unknown}}
              ELSE {})

\* HTTPReadSeeker.reader.  The pattern for the total does not match "*", so that an unknown
\* total is an error too.
Acceptable(o, a) ==
    IF o > 0 THEN a.status = 206 /\ a.start = o /\ a.total # Unknown /\ a.end = a.total ELSE a.status < 400
httpSource(r) ==
    IF r.rc # Absent THEN {[ok |-> TRUE, r |-> r, rest |-> r.rc]}
    ELSE {IF Acceptable(r.offset, a)
          THEN LET rest == SubSeq(Blob, a.start + 1, a.end)
               IN [ok |-> TRUE, r |-> [r EXCEPT !.rc = rest, !.size = a.total], rest |-> rest]
          ELSE [ok |-> FALSE, r |-> r, rest |-> <<>>] : a \in Answers(r.offset)}

-----------------------------------------------------------------------------
ReadInit ==
    /\ readerKind \in ReaderKinds
    /\ there = TRUE
    /\ rd = [rc |-> Absent, offset |-> 0, seek |-> 0, size |-> IF IsHTTP THEN 0 ELSE BlobLen, closed |-> FALSE]
    /\ heard = [op |-> "none", pos |-> 0, next |-> 0, bytes |-> <<>>, eof |-> FALSE, n |-> 0]

Heard(op, next, bytes, eof) ==
    /\ heard.n < MaxReads
    /\ heard' = [op |-> op, pos |-> heard.next, next |-> next, bytes |-> bytes, eof |-> eof, n |-> heard.n + 1]
    /\ UNCHANGED <<readerKind, there>>
Refused(r) == rd' = r /\ Heard("error", heard.next, <<>>, FALSE)

\* A read hands over a part of what is left; nothing left is io.EOF.
Got(r, rest, k) == [r EXCEPT !.rc = IF @ = Absent THEN @ ELSE Drop(rest, k), !.offset = @ + k, !.seek = @ + k]
FileRead ==
    /\ ~IsHTTP /\ ~rd.closed
    /\ \E s \in fileSource(rd) :
           IF ~s.ok THEN Refused(s.r)
           ELSE \E k \in (IF s.rest = <<>> THEN {0} ELSE 1..Len(s.rest)) :
                    /\ rd' = Got(s.r, s.rest, k)
                    /\ Heard("read", heard.next + k, Take(s.rest, k), s.rest = <<>> \/ rd'.offset >= rd'.size)
HTTPRead ==
    /\ IsHTTP /\ ~rd.closed
    /\ \E s \in httpSource([rd EXCEPT !.rc = IF rd.offset # rd.seek THEN Absent ELSE @, !.offset = rd.seek]) :
           IF ~s.ok THEN Refused(s.r)
           ELSE \E k \in (IF s.rest = <<>> THEN {0} ELSE 1..Len(s.rest)) :
                    /\ rd' = Got(s.r, s.rest, k)
                    /\ Heard("read", heard.next + k, Take(s.rest, k), s.rest = <<>>)

Target(pos, size, off, whence) ==
    CASE whence = "start" -> off [] whence = "current" -> pos + off [] OTHER -> size + off

\* A wrong Seek that keeps the source open at the old offset.
FileSeek_KeepsSource(off, whence) ==
    /\ ~IsHTTP /\ ~rd.closed
    /\ LET new == Target(rd.offset, rd.size, off, whence)
       IN IF new < 0 THEN Refused(rd)
          ELSE rd' = [rd EXCEPT !.offset = new, !.seek = new] /\ Heard("seek", new, <<>>, FALSE)

FileSeek(off, whence) ==
    /\ ~IsHTTP /\ ~rd.closed
    /\ LET new == Target(rd.offset, rd.size, off, whence)
       IN IF new < 0 THEN Refused(rd)
          ELSE /\ rd' = [rd EXCEPT !.rc = IF rd.offset # new THEN Absent ELSE @, !.offset = new, !.seek = new]
               /\ Heard("seek", new, <<>>, FALSE)

\* The source is opened to learn its size, at the offset asked for if that is known.
HTTPSeek(off, whence) ==
    /\ IsHTTP /\ ~rd.closed
    /\ \E s \in httpSource([rd EXCEPT !.offset = IF whence = "start" /\ rd.rc = Absent THEN off ELSE @]) :
           LET new == Target(rd.seek, s.r.size, off, whence)
           IN IF ~s.ok THEN Refused([s.r EXCEPT !.offset = rd.offset])
              ELSE IF (whence = "end" /\ s.r.size = Unknown) \/ new < 0 THEN Refused(s.r)
              ELSE rd' = [s.r EXCEPT !.seek = new] /\ Heard("seek", new, <<>>, FALSE)

CloseReader == /\ ~rd.closed
               /\ rd' = [rd EXCEPT !.rc = Absent, !.closed = TRUE] /\ Heard("close", heard.next, <<>>, FALSE)

\* The blob is removed; an open source still reads.
BlobRemoved == there /\ there' = FALSE /\ UNCHANGED <<readerKind, rd, heard>>

ReadNext ==
    \/ FileRead \/ HTTPRead \/ CloseReader \/ BlobRemoved
    \/ \E off \in (-1)..(BlobLen + 1), whence \in {"start", "current", "end"} :
           FileSeek(off, whence) \/ HTTPSeek(off, whence)

ReadSpec == ReadInit /\ [][ReadNext]_readVars

-----------------------------------------------------------------------------
ReadTypeOK ==
    /\ readerKind \in ReaderKinds
    /\ rd.size \in {Unknown} \cup 0..BlobLen
    /\ heard.n \in 0..MaxReads /\ heard.next \in Nat

\* A read answers the bytes of the blob at the position the caller sought or read to, whatever
\* seeks went before, whatever the server answered and however often the source was opened again;
\* the end is announced only at the end, or when the blob is gone (fileReader.Read, fileReader.Seek,
\* HTTPReadSeeker.Read, HTTPReadSeeker.Seek and the Reader of each driver).
ReadsExact ==
    heard.op = "read" =>
        /\ heard.bytes = SubSeq(Blob, heard.pos + 1, heard.pos + Len(heard.bytes))
        /\ heard.eof => heard.next >= BlobLen \/ ~there
=============================================================================
