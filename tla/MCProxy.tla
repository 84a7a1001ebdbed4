------------------------------ MODULE MCProxy ------------------------------
(* Two repositories that pull the same blob, or the same manifest. *)
EXTENDS ProxyStore
CONSTANTS r1, r2, b, m, p1, p2
MCKey == {<<r1, b>>, <<r2, b>>, <<r1, m>>, <<r2, m>>}
MCManifests == {m}

Blobs == {<<r1, b>>, <<r2, b>>}
Images == {<<r1, m>>, <<r2, m>>}
MCScenarios ==
    {[asked |-> Blobs, cache |-> c, requests |-> 2, restarts |-> 1] : c \in BOOLEAN}
    \cup {[asked |-> a, cache |-> FALSE, requests |-> 3, restarts |-> 0] : a \in {Blobs, Images}}
    \cup {[asked |-> Images, cache |-> TRUE, requests |-> 2, restarts |-> 1]}
=============================================================================
