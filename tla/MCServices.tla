----------------------------- MODULE MCServices -----------------------------
(***************************************************************************)
(* The registry's background services for TLC.  They share no state, so a  *)
(* behaviour is about one of them (part) and the state space is the sum of *)
(* theirs, not the product.                                                *)
(***************************************************************************)
EXTENDS EventNotify, Regulator, HealthCheck, TLC

CONSTANTS e1, e2

VARIABLE part

SinkOrder == <<e1, e2>>

\* maxthreads as a number, a negative number, absent, of another type, and zero.
LimitParams == {[kind |-> "string", val |-> 2], [kind |-> "signed", val |-> -1],
                [kind |-> "nil", val |-> 0], [kind |-> "other", val |-> 0],
                [kind |-> "unsigned", val |-> 0]}

CheckThreshold == [c \in Check |-> IF c = "driver" THEN 2 ELSE 0]
CheckKind == [c \in Check |-> IF c = "driver" THEN "storage" ELSE "file"]

vars == <<part, notifyVars, regVars, healthVars>>

\* A service that is not looked at is switched off: the process, or every check.  The checks
\* are looked at one at a time.
Init == /\ part \in {"notify", "regulator", "health"}
        /\ NotifyInit /\ alive = (part = "notify")
        /\ RegInit /\ (part # "regulator" => limit = MinLimit)
        /\ HealthInit
        /\ \A c \in Check : poller[c] = "off" => service[c] = "ok"
        /\ IF part = "health" THEN Cardinality({c \in Check : poller[c] # "off"}) = 1
           ELSE \A c \in Check : poller[c] = "off"

Next == /\ \/ part = "notify" /\ NotifyNext /\ UNCHANGED <<regVars, healthVars>>
           \/ part = "regulator" /\ RegNext /\ UNCHANGED <<notifyVars, healthVars>>
           \/ part = "health" /\ HealthNext /\ UNCHANGED <<notifyVars, regVars>>
        /\ UNCHANGED part

Spec == Init /\ [][Next]_vars /\ NotifyFairness /\ RegFairness /\ HealthFairness

Channel == INSTANCE EventChannel
\* The stack of sinks (broadcaster, queue, retrying and HTTP sink) is an ordered at-least-once
\* channel to every endpoint: what the broadcaster took is received in order, whatever fails in
\* between, and all of it unless the process ends first.
ImplementsChannel == Channel!ChSpec
=============================================================================
