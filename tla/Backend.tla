------------------------------ MODULE Backend ------------------------------
(***************************************************************************)
(* Calls that may fail, for the models of the storage drivers' writers.    *)
(*                                                                         *)
(* A driver operation is an operator from a state (the backend's objects   *)
(* and the open writer) to the set of its outcomes.  A byte is the         *)
(* position it has in the client's stream, so that content is right        *)
(* exactly when it is 1, 2, 3, ...                                         *)
(***************************************************************************)
EXTENDS Naturals, Sequences, SequencesExt

CONSTANT Absent

Ok(d) == {[d |-> d, ok |-> TRUE]}
Fail(d) == {[d |-> d, ok |-> FALSE]}

\* What follows a call that succeeded; a failed call ends the operation.
Then(outcomes, F(_)) ==
    {o \in outcomes : ~o.ok} \cup UNION {F(o.d) : o \in {x \in outcomes : x.ok}}

\* What follows a call that failed.
Else(outcomes, F(_)) ==
    {o \in outcomes : o.ok} \cup UNION {F(o.d) : o \in {x \in outcomes : ~x.ok}}

\* The result is an error whatever the clean-up returned.
Failing(outcomes) == {[o EXCEPT !.ok = FALSE] : o \in outcomes}

\* A call of the backend that turns d into done: it may fail, and a call that failed may
\* have had its effect or not.  The state bounds the failures.
Call(d, done) ==
    Ok(done) \cup (IF d.faults = 0 THEN {}
                   ELSE UNION {Fail([e EXCEPT !.faults = d.faults - 1]) : e \in {d, done}})

Bytes(from, n) == [i \in 1..n |-> from + i]
Take(s, n) == SubSeq(s, 1, IF n < Len(s) THEN n ELSE Len(s))
Drop(s, n) == SubSeq(s, n + 1, Len(s))
Least(a, b) == IF a < b THEN a ELSE b
=============================================================================
