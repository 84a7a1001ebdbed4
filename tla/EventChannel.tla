---------------------------- MODULE EventChannel ----------------------------
(***************************************************************************)
(* What the notification system promises: the registry's events, in the    *)
(* order the broadcaster took them, reach every endpoint that wants them   *)
(* in that order, all of them unless the process ends; an event may be     *)
(* received again, but never again once a later one was received.          *)
(***************************************************************************)
EXTENDS Naturals, Sequences, FiniteSets, SequencesExt

CONSTANTS Endpoint, Wants(_, _)   \* Wants(e, ev): endpoint e does not ignore ev

VARIABLES sent,  \* sequence of the events taken
          got,   \* [Endpoint -> sequence of the events received]
          alive  \* whether the process runs

chVars == <<sent, got>>   \* the process may end in any step

\* What endpoint e is to receive, and how much of it arrived.
Due(e) == LET Wanted(ev) == Wants(e, ev) IN SelectSeq(sent, Wanted)
Arrived(e) == Cardinality(ToSet(got[e]))
Behind(e) == Arrived(e) < Len(Due(e))

ChInit == sent = <<>> /\ got = [e \in Endpoint |-> <<>>]

Take(ev) == /\ ev \notin ToSet(sent)
            /\ sent' = Append(sent, ev)
            /\ UNCHANGED got

Receive(e) == /\ Behind(e)
              /\ got' = [got EXCEPT ![e] = Append(@, Due(e)[Arrived(e) + 1])]
              /\ UNCHANGED sent

ReceiveAgain(e) == /\ got[e] # <<>>
                   /\ got' = [got EXCEPT ![e] = Append(@, Last(@))]
                   /\ UNCHANGED sent

ChNext == \/ \E ev \in ToSet(sent') : Take(ev)
          \/ \E e \in Endpoint : Receive(e) \/ ReceiveAgain(e)

\* An endpoint that is behind catches up, unless the process ends.
ChLive == \A e \in Endpoint : Behind(e) ~> (~Behind(e) \/ ~alive)

ChSpec == ChInit /\ [][ChNext]_chVars /\ ChLive
=============================================================================
