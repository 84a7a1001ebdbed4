---------------------------- MODULE MCBlobUpload ----------------------------
(***************************************************************************)
(* Instances of BlobUpload for TLC.                                        *)
(***************************************************************************)
EXTENDS BlobUpload, TLC

CONSTANTS a, b

\* One request at a time with any content, cancelled and purged at any moment.
Serial == [serial |-> TRUE, intended |-> None, crash |-> FALSE, cancel |-> TRUE, purge |-> TRUE]
\* Two different bytes, sent in any split and with any overlap of requests, and crashes.
Retry == [serial |-> FALSE, intended |-> <<a, b>>, crash |-> TRUE, cancel |-> FALSE, purge |-> FALSE]
\* One request at a time with any content, and crashes.
CrashOnly == [Serial EXCEPT !.crash = TRUE, !.cancel = FALSE, !.purge = FALSE]
\* One byte, sent in overlapping requests.
OneByte == [Retry EXCEPT !.intended = <<a>>, !.crash = FALSE]

SerialAndRetry == {Serial, Retry}
Crashes == {CrashOnly}
Overlaps == {OneByte}

ProcSymmetry == Permutations(Proc)
=============================================================================
